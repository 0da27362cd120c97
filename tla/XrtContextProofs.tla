-------------------------- MODULE XrtContextProofs --------------------------
(***************************************************************************)
(* Contexts survive: for any number of threads of the example, any delays  *)
(* and any interleaving of ticks, calls and switches, a thread finds its   *)
(* registers and its stack as it left them, and the calls decoded from a   *)
(* stack are the calls made.                                               *)
(***************************************************************************)
EXTENDS XrtAppInvariant, XrtSystemProofs, FiniteSetTheorems

\* The values the core has.
Core == [regs : [Reg -> Word], psp : Pointers,
         stack : [Thread -> Seq(Word)], sp : [Thread -> Pointers]]

----------------------------------------------------------------------------
(* Registers and words. *)

\* The core's frame has eight registers; the k-th word above its end is the
\* register that HwFrame, from the highest address down, has there.
LEMMA HwRegisters ==
    /\ HW = 8
    /\ \A i \in 1..8 : HwFrame[i] \in DOMAIN HwOffset
    /\ \A r \in DOMAIN HwOffset : HwOffset[r] \in 0..7 /\ HwFrame[8 - HwOffset[r]] = r
<1>1. HW = 8
  BY DEF HW, HwFrame
<1>2. DOMAIN HwOffset = ToSet(HwFrame)
  BY DEF HwOffset
<1>3. \A i \in 1..8 : HwFrame[i] \in ToSet(HwFrame)
  BY <1>1 DEF ToSet, HW
<1>4. ASSUME NEW r \in ToSet(HwFrame)
      PROVE  HwOffset[r] \in 0..7 /\ HwFrame[8 - HwOffset[r]] = r
  <2> DEFINE I == {i \in 1..Len(HwFrame) : HwFrame[i] = r}
             k == SelectInSeq(HwFrame, LAMBDA q : q = r)
  <2>1. I \in SUBSET Nat /\ I # {}
    BY DEF ToSet
  <2>2. k = Min(I) /\ Min(I) \in I
    BY <2>1, SelectedIsFirst DEF SelectInSeq
  <2>3. k \in 1..8 /\ HwFrame[k] = r
    BY <1>1, <2>2 DEF HW
  <2>4. HwOffset[r] = 8 - k
    BY <1>1 DEF HwOffset
  <2> HIDE DEF k
  <2>. QED BY <2>3, <2>4
<1>. QED BY <1>1, <1>2, <1>3, <1>4

\* The same of the frame the port stores.
LEMMA SwRegisters ==
    /\ SW = 8
    /\ \A i \in 1..8 : SwFrame[i] \in DOMAIN SwOffset
    /\ \A r \in DOMAIN SwOffset : SwOffset[r] \in 0..7 /\ SwFrame[8 - SwOffset[r]] = r
<1>1. SW = 8
  BY DEF SW, SwFrame
<1>2. DOMAIN SwOffset = ToSet(SwFrame)
  BY DEF SwOffset
<1>3. \A i \in 1..8 : SwFrame[i] \in ToSet(SwFrame)
  BY <1>1 DEF ToSet, SW
<1>4. ASSUME NEW r \in ToSet(SwFrame)
      PROVE  SwOffset[r] \in 0..7 /\ SwFrame[8 - SwOffset[r]] = r
  <2> DEFINE I == {i \in 1..Len(SwFrame) : SwFrame[i] = r}
             k == SelectInSeq(SwFrame, LAMBDA q : q = r)
  <2>1. I \in SUBSET Nat /\ I # {}
    BY DEF ToSet
  <2>2. k = Min(I) /\ Min(I) \in I
    BY <2>1, SelectedIsFirst DEF SelectInSeq
  <2>3. k \in 1..8 /\ SwFrame[k] = r
    BY <1>1, <2>2 DEF SW
  <2>4. SwOffset[r] = 8 - k
    BY <1>1 DEF SwOffset
  <2> HIDE DEF k
  <2>. QED BY <2>3, <2>4
<1>. QED BY <1>1, <1>2, <1>3, <1>4

\* The two frames together hold every register, each once.
LEMMA AllRegisters ==
    /\ Reg = DOMAIN HwOffset \cup DOMAIN SwOffset
    /\ DOMAIN HwOffset \cap DOMAIN SwOffset = {}
    /\ {"PC", "R0", "xPSR"} \subseteq DOMAIN HwOffset
<1>1. DOMAIN HwOffset = ToSet(HwFrame) /\ DOMAIN SwOffset = ToSet(SwFrame)
  BY DEF HwOffset, SwOffset
<1>2. ToSet(HwFrame) = {"xPSR", "PC", "LR", "R12", "R3", "R2", "R1", "R0"}
  BY DEF ToSet, HwFrame
<1>3. ToSet(SwFrame) = {"R4", "R5", "R6", "R7", "R8", "R9", "R10", "R11"}
  BY DEF ToSet, SwFrame
<1>. QED BY <1>1, <1>2, <1>3 DEF Reg

\* What the registers are when those of a frame were fetched.
LEMMA FetchedRegisters ==
    ASSUME NEW c \in Core, NEW p, NEW offset, DOMAIN offset \subseteq Reg,
           \A r \in DOMAIN offset : WordAt(c, p, offset[r]) \in Word
    PROVE  /\ Fetched(c, p, offset) \in [Reg -> Word]
           /\ \A r \in DOMAIN offset : Fetched(c, p, offset)[r] = WordAt(c, p, offset[r])
           /\ \A r \in Reg \ DOMAIN offset : Fetched(c, p, offset)[r] = c.regs[r]
<1>1. c.regs \in [Reg -> Word]
  BY DEF Core
<1>. QED BY <1>1 DEF Fetched

----------------------------------------------------------------------------
(* The three places a context can be in. *)

\* What a thread must find again: its registers and the words on its stack.
Context == [regs : [Reg -> Word], words : Seq(Word)]

\* The words of context g are the first ones of a stack w.
Below(w, g) ==
    /\ Len(g.words) <= Len(w)
    /\ \A i \in 1..Len(g.words) : w[i] = g.words[i]

\* The frame that ends n words below the top of a stack w has the registers of g
\* where offset says.
HasFrame(w, n, offset, g) ==
    /\ n <= Len(w)
    /\ \A r \in DOMAIN offset : w[n - offset[r]] = g.regs[r]

\* Thread t executes.
Here(c, t, g) ==
    /\ c.sp[t].of = t
    /\ c.psp = Pointer(t, Len(g.words))
    /\ Below(c.stack[t], g)
    /\ \A r \in Reg : c.regs[r] = g.regs[r]

\* A handler executes, and goes back to thread t as it stands.
Interrupted(c, t, g) ==
    /\ c.sp[t].of = t
    /\ c.psp = Pointer(t, Len(g.words) + HW)
    /\ Below(c.stack[t], g)
    /\ HasFrame(c.stack[t], Len(g.words) + HW, HwOffset, g)
    /\ \A r \in DOMAIN SwOffset : c.regs[r] = g.regs[r]

\* Thread t is not on the CPU.
Saved(c, t, g) ==
    /\ c.sp[t] = Pointer(t, Len(g.words) + HW + SW)
    /\ Below(c.stack[t], g)
    /\ HasFrame(c.stack[t], Len(g.words) + HW, HwOffset, g)
    /\ HasFrame(c.stack[t], Len(g.words) + HW + SW, SwOffset, g)

\* From c to d nothing of the other threads' was touched.
OnlyOf(t, c, d) ==
    \A u \in Thread \ {t} : d.stack[u] = c.stack[u] /\ d.sp[u] = c.sp[u]

\* What another thread does leaves a saved context alone.
LEMMA SavedStays ==
    ASSUME NEW c, NEW d, NEW t, NEW u \in Thread \ {t}, NEW g, OnlyOf(t, c, d)
    PROVE  Saved(c, u, g) <=> Saved(d, u, g)
BY DEF OnlyOf, Saved, Below, HasFrame

\* The frame that order lists from its highest address down is read with offset.
IsFrame(order, offset) ==
    /\ order \in Seq(Reg) /\ DOMAIN offset \subseteq Reg
    /\ \A r \in DOMAIN offset :
          offset[r] \in 0..Len(order) - 1 /\ order[Len(order) - offset[r]] = r

\* Both frames are of that kind.
LEMMA BothFrames ==
    /\ HW \in Nat /\ Len(HwFrame) = HW /\ IsFrame(HwFrame, HwOffset)
    /\ SW \in Nat /\ Len(SwFrame) = SW /\ IsFrame(SwFrame, SwOffset)
<1>1. Len(HwFrame) = 8 /\ HW = 8 /\ HwFrame \in Seq(Reg)
  BY HwRegisters, AllRegisters DEF HW, HwFrame
<1>2. Len(SwFrame) = 8 /\ SW = 8 /\ SwFrame \in Seq(Reg)
  BY SwRegisters, AllRegisters DEF SW, SwFrame
<1>3. IsFrame(HwFrame, HwOffset)
  BY <1>1, HwRegisters, AllRegisters DEF IsFrame
<1>4. IsFrame(SwFrame, SwOffset)
  BY <1>2, SwRegisters, AllRegisters DEF IsFrame
<1>. QED BY <1>1, <1>2, <1>3, <1>4

\* What is where in two sequences, one after the other.
Joins(w, a, b, S) ==
    /\ w \in Seq(S) /\ \A k \in 1..Len(w) : w[k] \in S
    /\ Len(w) = Len(a) + Len(b)
    /\ \A k \in 1..Len(a) : w[k] = a[k]
    /\ \A k \in 1..Len(b) : w[Len(a) + k] = b[k]

\* The concatenation of two sequences, element by element.
LEMMA Joined ==
    ASSUME NEW S, NEW n \in Nat, NEW m \in Nat, NEW a \in Seq(S), NEW b \in Seq(S),
           Len(a) = n, Len(b) = m, NEW w, w = a \o b
    PROVE  Joins(w, a, b, S)
<1> DEFINE both == a \o b
<1>0. /\ both \in Seq(S) /\ Len(both) = n + m
      /\ \A i \in 1..n + m : both[i] = IF i <= n THEN a[i] ELSE b[i - n]
  BY ConcatProperties
<1> HIDE DEF both
<1>1. w \in Seq(S) /\ Len(w) = n + m
  BY <1>0 DEF both
<1>2. \A i \in 1..n + m : w[i] = IF i <= n THEN a[i] ELSE b[i - n]
  BY <1>0 DEF both
<1>3. \A k \in 1..n : w[k] = a[k]
  <2>. SUFFICES ASSUME NEW k \in 1..n PROVE w[k] = a[k]
    OBVIOUS
  <2>1. k \in 1..n + m /\ k <= n
    OBVIOUS
  <2>. QED BY <1>2, <2>1
<1>4. \A k \in 1..Len(w) : w[k] \in S
  BY <1>1
<1>5. ASSUME NEW k \in 1..m PROVE w[n + k] = b[k]
  <2>1. n + k \in 1..n + m /\ ~(n + k <= n) /\ (n + k) - n = k
    OBVIOUS
  <2>. QED BY <1>2, <2>1
<1>. QED BY <1>1, <1>3, <1>4, <1>5 DEF Joins

\* The frame that a push leaves below the n words of thread t's stack is the one
\* the offsets describe, and the words above it and the other stacks stay.
Pushed(c, s, t, n, m, offset, g) ==
    /\ s \in [Thread -> Seq(Word)]
    /\ Len(s[t]) = n + m
    /\ \A k \in 1..n : s[t][k] = c.stack[t][k]
    /\ \A u \in Thread \ {t} : s[u] = c.stack[u]
    /\ HasFrame(s[t], n + m, offset, g)

\* Framed puts the frame of order below the n words in use and touches nothing else.
LEMMA PushedFrame ==
    ASSUME NEW c \in Core, NEW t \in Thread, NEW n \in 0..Len(c.stack[t]),
           NEW order, NEW offset, IsFrame(order, offset), NEW m \in Nat, Len(order) = m,
           NEW g, \A r \in DOMAIN offset : c.regs[r] = g.regs[r],
           NEW s, s = Framed(c, Pointer(t, n), order)
    PROVE  Pushed(c, s, t, n, m, offset, g)
<1> DEFINE low == SubSeq(c.stack[t], 1, n)
           top == [i \in 1..Len(order) |-> c.regs[order[i]]]
           both == low \o top
<1>1. n \in Nat
  OBVIOUS
<1>2. /\ s \in [Thread -> Seq(Word)]
      /\ Len(s[t]) = n + m
      /\ \A k \in 1..n : s[t][k] = c.stack[t][k]
      /\ \A k \in 1..m : s[t][n + k] = c.regs[order[k]]
      /\ \A u \in Thread \ {t} : s[u] = c.stack[u]
  <2>1. c.stack \in [Thread -> Seq(Word)] /\ c.regs \in [Reg -> Word]
    BY DEF Core
  <2>2. low \in Seq(Word) /\ Len(low) = n /\ \A k \in 1..n : low[k] = c.stack[t][k]
    BY <2>1
  <2>3. top \in Seq(Word) /\ Len(top) = m /\ \A k \in 1..m : top[k] = c.regs[order[k]]
    BY <2>1 DEF IsFrame
  <2>4. s = [c.stack EXCEPT ![t] = both]
    BY DEF Framed, Pointer
  <2> HIDE DEF low, top
  <2>5. Joins(both, low, top, Word)
    BY <1>1, <2>2, <2>3, Joined
  <2> HIDE DEF both
  <2>6. \A k \in 1..n : both[k] = c.stack[t][k]
    BY <2>2, <2>5 DEF Joins
  <2>7. ASSUME NEW k \in 1..m PROVE both[n + k] = c.regs[order[k]]
    BY <2>2, <2>3, <2>5 DEF Joins
  <2>8. both \in Seq(Word) /\ Len(both) = n + m
    BY <2>2, <2>3, <2>5 DEF Joins
  <2>. QED BY <2>1, <2>4, <2>6, <2>7, <2>8
<1>3. ASSUME NEW r \in DOMAIN offset PROVE s[t][n + m - offset[r]] = g.regs[r]
  <2>1. m - offset[r] \in 1..m /\ order[m - offset[r]] = r /\ offset[r] \in Nat
    BY <1>1 DEF IsFrame
  <2>2. s[t][n + (m - offset[r])] = c.regs[r]
    BY <1>2, <2>1
  <2>3. n + (m - offset[r]) = n + m - offset[r]
    BY <1>1, <2>1
  <2>. QED BY <2>2, <2>3
<1>4. n + m <= Len(s[t])
  BY <1>1, <1>2
<1>5. HasFrame(s[t], n + m, offset, g)
  BY <1>1, <1>3, <1>4 DEF HasFrame, IsFrame
<1>. QED BY <1>2, <1>5 DEF Pushed

\* Exception entry: the registers of the frame go to the stack, the others stay.
LEMMA EntryKeeps ==
    ASSUME NEW c \in Core, NEW t \in Thread, NEW g \in Context, Here(c, t, g)
    PROVE  /\ Stacked(c) \in Core
           /\ Interrupted(Stacked(c), t, g)
           /\ OnlyOf(t, c, Stacked(c))
<1> DEFINE d == Stacked(c)
           n == Len(g.words)
           junk == [r \in Reg |-> IF r \in DOMAIN HwOffset THEN Junk ELSE c.regs[r]]
<1>1. /\ c.regs \in [Reg -> Word] /\ c.psp \in Pointers
      /\ c.stack \in [Thread -> Seq(Word)] /\ c.sp \in [Thread -> Pointers]
  BY DEF Core
<1>2. n \in Nat /\ n \in 0..Len(c.stack[t]) /\ c.psp = Pointer(t, n)
  BY <1>1 DEF Here, Below, Context
<1>3. HW \in Nat /\ Len(HwFrame) = HW /\ IsFrame(HwFrame, HwOffset)
  BY BothFrames
<1>4. junk \in [Reg -> Word] /\ \A r \in Reg \ DOMAIN HwOffset : junk[r] = c.regs[r]
  BY <1>1 DEF Word
<1> HIDE DEF n
<1>5. d.stack = Framed(c, Pointer(t, n), HwFrame)
  BY <1>2 DEF Stacked, Core, Pointers
<1>6. d.psp = Pointer(t, n + HW) /\ d.regs = junk /\ d.sp = c.sp
  <2>0. c.psp.of = t /\ c.psp.used = n
    BY <1>2 DEF Pointer
  <2>1. d.psp = Pointer(t, n + HW)
    BY <1>3, <2>0 DEF Stacked, Core, Pointers, Pointer
  <2>2. d.regs = junk /\ d.sp = c.sp
    BY DEF Stacked, Core, Pointers
  <2>. QED BY <2>1, <2>2
<1>7. Pushed(c, d.stack, t, n, HW, HwOffset, g)
  <2>1. \A r \in DOMAIN HwOffset : c.regs[r] = g.regs[r]
    BY <1>3 DEF Here, IsFrame
  <2>. QED BY <1>2, <1>3, <1>5, <2>1, PushedFrame
<1>8. d \in Core
  <2>1. Framed(c, c.psp, HwFrame) \in [Thread -> Seq(Word)]
    BY <1>2, <1>5, <1>7 DEF Pushed
  <2>2. c.psp.used + HW \in Nat
    BY <1>1, <1>3 DEF Pointers
  <2>. QED BY <1>4, <2>1, <2>2 DEF Stacked, Core, Pointers
<1> HIDE DEF d, junk
<1>9. Below(d.stack[t], g)
  BY <1>2, <1>3, <1>7 DEF Here, Below, Pushed, n
<1>10. \A r \in DOMAIN SwOffset : d.regs[r] = g.regs[r]
  BY <1>4, <1>6, AllRegisters DEF Here
<1>11. Interrupted(d, t, g)
  BY <1>3, <1>6, <1>7, <1>9, <1>10 DEF Interrupted, Here, Pushed, n
<1>. QED BY <1>6, <1>7, <1>8, <1>11 DEF OnlyOf, Pushed, d

\* The registers fetched from a frame are those of the context it belongs to.
LEMMA FetchedFrame ==
    ASSUME NEW c \in Core, NEW p, NEW offset, NEW order, IsFrame(order, offset),
           NEW g \in Context, HasFrame(c.stack[p.of], p.used, offset, g)
    PROVE  /\ Fetched(c, p, offset) \in [Reg -> Word]
           /\ \A r \in DOMAIN offset : Fetched(c, p, offset)[r] = g.regs[r]
           /\ \A r \in Reg \ DOMAIN offset : Fetched(c, p, offset)[r] = c.regs[r]
<1>1. DOMAIN offset \subseteq Reg
  BY DEF IsFrame
<1>2. \A r \in DOMAIN offset : WordAt(c, p, offset[r]) = g.regs[r]
  BY DEF HasFrame, WordAt
<1>3. \A r \in DOMAIN offset : g.regs[r] \in Word
  BY <1>1 DEF Context
<1>. QED BY <1>1, <1>2, <1>3, FetchedRegisters

\* Exception return: the thread goes on with the registers and words it had.
LEMMA ReturnKeeps ==
    ASSUME NEW c \in Core, NEW t \in Thread, NEW g \in Context, Interrupted(c, t, g)
    PROVE  /\ Unstacked(c) \in Core
           /\ Here(Unstacked(c), t, g)
           /\ OnlyOf(t, c, Unstacked(c))
<1> DEFINE d == Unstacked(c)
           n == Len(g.words)
           f == Fetched(c, c.psp, HwOffset)
<1>1. /\ c.regs \in [Reg -> Word] /\ c.psp \in Pointers
      /\ c.stack \in [Thread -> Seq(Word)] /\ c.sp \in [Thread -> Pointers]
  BY DEF Core
<1>2. n \in Nat
  BY DEF Context
<1>3. HW \in Nat /\ IsFrame(HwFrame, HwOffset)
  BY BothFrames
<1>4. c.psp.of = t /\ c.psp.used = n + HW
  BY DEF Interrupted, Pointer
<1>5. HasFrame(c.stack[c.psp.of], c.psp.used, HwOffset, g)
  BY <1>4 DEF Interrupted
<1>6. /\ f \in [Reg -> Word]
      /\ \A r \in DOMAIN HwOffset : f[r] = g.regs[r]
      /\ \A r \in Reg \ DOMAIN HwOffset : f[r] = c.regs[r]
  BY <1>3, <1>5, FetchedFrame
<1>7. \A r \in Reg : f[r] = g.regs[r]
  BY <1>6, AllRegisters DEF Interrupted
<1> HIDE DEF n, f
<1>8. d.psp = Pointer(t, n) /\ d.regs = f /\ d.sp = c.sp /\ d.stack = c.stack
  <2>0. (n + HW) - HW = n
    BY <1>2, <1>3
  <2>1. d.psp = Pointer(t, n)
    BY <1>3, <1>4, <2>0 DEF Unstacked, Core, Pointers, Pointer
  <2>2. d.regs = f
    BY DEF Unstacked, Core, Pointers, f
  <2>3. d.sp = c.sp
    BY DEF Unstacked, Core, Pointers
  <2>4. d.stack = c.stack
    BY DEF Unstacked, Core, Pointers
  <2>. QED BY <2>1, <2>2, <2>3, <2>4
<1>9. d \in Core
  <2>1. f = Fetched(c, c.psp, HwOffset)
    BY DEF f
  <2>2. c.psp.used - HW \in Nat
    BY <1>2, <1>3, <1>4
  <2>. QED BY <1>6, <2>1, <2>2 DEF Unstacked, Core, Pointers
<1> HIDE DEF d
<1>10. Here(d, t, g)
  BY <1>7, <1>8 DEF Interrupted, Here, n
<1>. QED BY <1>8, <1>9, <1>10 DEF OnlyOf, d

\* xrt_thread_store_context: the rest of the registers go to the stack, and the TCB
\* has where.
LEMMA StoreKeeps ==
    ASSUME NEW c \in Core, NEW t \in Thread, NEW g \in Context, Interrupted(c, t, g)
    PROVE  /\ Stored(c, t) \in Core
           /\ Saved(Stored(c, t), t, g)
           /\ OnlyOf(t, c, Stored(c, t))
<1> DEFINE d == Stored(c, t)
           n == Len(g.words) + HW
<1>1. /\ c.regs \in [Reg -> Word] /\ c.psp \in Pointers
      /\ c.stack \in [Thread -> Seq(Word)] /\ c.sp \in [Thread -> Pointers]
  BY DEF Core
<1>2. Len(g.words) \in Nat
  BY DEF Context
<1>3. /\ HW \in Nat /\ IsFrame(HwFrame, HwOffset)
      /\ SW \in Nat /\ Len(SwFrame) = SW /\ IsFrame(SwFrame, SwOffset)
  BY BothFrames
<1>4. n \in Nat /\ n \in 0..Len(c.stack[t]) /\ c.psp = Pointer(t, n)
  BY <1>1, <1>2, <1>3 DEF Interrupted, HasFrame
<1> HIDE DEF n
<1>5. d.stack = Framed(c, Pointer(t, n), SwFrame)
  BY <1>4 DEF Stored, Core
<1>6. d.psp = c.psp /\ d.regs = c.regs /\ d.sp = [c.sp EXCEPT ![t] = Pointer(t, n + SW)]
  <2>0. c.psp.of = t /\ c.psp.used = n
    BY <1>4 DEF Pointer
  <2>. QED BY <2>0 DEF Stored, Core
<1>7. Pushed(c, d.stack, t, n, SW, SwOffset, g)
  <2>1. \A r \in DOMAIN SwOffset : c.regs[r] = g.regs[r]
    BY <1>3 DEF Interrupted, IsFrame
  <2>. QED BY <1>3, <1>4, <1>5, <2>1, PushedFrame
<1>8. d \in Core
  <2>1. Framed(c, c.psp, SwFrame) \in [Thread -> Seq(Word)]
    BY <1>4, <1>5, <1>7 DEF Pushed
  <2>2. Pointer(c.psp.of, c.psp.used + SW) \in Pointers
    BY <1>1, <1>3, <1>4 DEF Pointers, Pointer
  <2>. QED BY <1>1, <2>1, <2>2 DEF Stored, Core
<1> HIDE DEF d
<1>9. /\ n = Len(g.words) + HW
      /\ \A k \in 1..n : d.stack[t][k] = c.stack[t][k]
      /\ Len(d.stack[t]) = n + SW
      /\ HasFrame(d.stack[t], n + SW, SwOffset, g)
  BY <1>7 DEF Pushed, n
<1>10. Below(d.stack[t], g)
  BY <1>2, <1>3, <1>9 DEF Interrupted, Below
<1>11. HasFrame(d.stack[t], n, HwOffset, g)
  <2>1. n <= Len(d.stack[t])
    BY <1>3, <1>4, <1>9
  <2>2. ASSUME NEW r \in DOMAIN HwOffset
        PROVE  d.stack[t][n - HwOffset[r]] = g.regs[r]
    <3>1. HwOffset[r] \in 0..HW - 1
      BY BothFrames DEF IsFrame
    <3>2. n - HwOffset[r] \in 1..n
      BY <1>2, <1>3, <1>9, <3>1
    <3>3. c.stack[t][n - HwOffset[r]] = g.regs[r]
      BY <1>9 DEF Interrupted, HasFrame
    <3>. QED BY <1>9, <3>2, <3>3
  <2>. QED BY <2>1, <2>2 DEF HasFrame
<1>12. d.sp[t] = Pointer(t, n + SW)
  BY <1>1, <1>6
<1>13. Saved(d, t, g)
  BY <1>9, <1>10, <1>11, <1>12 DEF Saved
<1>14. OnlyOf(t, c, d)
  BY <1>1, <1>6, <1>7 DEF OnlyOf, Pushed
<1>. QED BY <1>8, <1>13, <1>14 DEF d

\* xrt_load_context: the registers of the port's frame are back, those of the core's
\* are on the stack for the return.
LEMMA LoadKeeps ==
    ASSUME NEW c \in Core, NEW t \in Thread, NEW g \in Context, Saved(c, t, g)
    PROVE  /\ Loaded(c, t) \in Core
           /\ Interrupted(Loaded(c, t), t, g)
           /\ Loaded(c, t).stack = c.stack /\ Loaded(c, t).sp = c.sp
<1> DEFINE d == Loaded(c, t)
           n == Len(g.words) + HW
           f == Fetched(c, c.sp[t], SwOffset)
<1>1. /\ c.regs \in [Reg -> Word] /\ c.psp \in Pointers
      /\ c.stack \in [Thread -> Seq(Word)] /\ c.sp \in [Thread -> Pointers]
  BY DEF Core
<1>2. Len(g.words) \in Nat
  BY DEF Context
<1>3. HW \in Nat /\ SW \in Nat /\ IsFrame(SwFrame, SwOffset)
  BY BothFrames
<1>4. c.sp[t].of = t /\ c.sp[t].used = n + SW /\ n \in Nat
  BY <1>2, <1>3 DEF Saved, Pointer
<1>5. HasFrame(c.stack[c.sp[t].of], c.sp[t].used, SwOffset, g)
  BY <1>4 DEF Saved
<1>6. /\ f \in [Reg -> Word]
      /\ \A r \in DOMAIN SwOffset : f[r] = g.regs[r]
  BY <1>3, <1>5, FetchedFrame
<1> HIDE DEF n, f
<1>7. d.psp = Pointer(t, n) /\ d.regs = f /\ d.sp = c.sp /\ d.stack = c.stack
  <2>0. (n + SW) - SW = n
    BY <1>3, <1>4
  <2>1. d.psp = Pointer(t, n)
    BY <1>4, <2>0 DEF Loaded, Core
  <2>2. d.regs = f
    BY DEF Loaded, Core, f
  <2>3. d.sp = c.sp /\ d.stack = c.stack
    BY DEF Loaded, Core
  <2>. QED BY <2>1, <2>2, <2>3
<1>8. d \in Core
  <2>1. f = Fetched(c, c.sp[t], SwOffset)
    BY DEF f
  <2>2. Pointer(c.sp[t].of, c.sp[t].used - SW) \in Pointers
    BY <1>3, <1>4 DEF Pointers, Pointer
  <2>. QED BY <1>6, <2>1, <2>2 DEF Loaded, Core
<1> HIDE DEF d
<1>9. c.sp[t].of = t /\ n = Len(g.words) + HW
  BY <1>4 DEF n
<1>10. Interrupted(d, t, g)
  BY <1>6, <1>7, <1>9 DEF Interrupted, Saved
<1>. QED BY <1>7, <1>8, <1>10 DEF d

\* A thread that was just created goes on with the first instruction of its function
\* and an empty stack.
LEMMA PreparedKeeps ==
    ASSUME NEW c \in Core, NEW t \in Thread
    PROVE  /\ Prepared(c, t) \in Core
           /\ OnlyOf(t, c, Prepared(c, t))
           /\ \E g \in Context : /\ g.words = <<>> /\ g.regs["PC"] = Pc(t, 1)
                                 /\ Saved(Prepared(c, t), t, g)
<1> DEFINE d == Prepared(c, t)
           w == InitialFrame(t)
           low == <<<<"thumb">>, Pc(t, 1), <<"exc_return">>>>
           top == [i \in 1..13 |-> Zero]
<1>1. /\ c.regs \in [Reg -> Word] /\ c.psp \in Pointers
      /\ c.stack \in [Thread -> Seq(Word)] /\ c.sp \in [Thread -> Pointers]
  BY DEF Core
<1>2. HW = 8 /\ SW = 8
  BY HwRegisters, SwRegisters
<1>3. w \in Seq(Word) /\ Len(w) = 16 /\ w[2] = Pc(t, 1) /\ \A k \in 1..16 : w[k] \in Word
  <2>1. Pc(t, 1) \in Word /\ Zero \in Word /\ <<"thumb">> \in Word /\ <<"exc_return">> \in Word
    BY DEF Word
  <2>2. low \in Seq(Word) /\ Len(low) = 3 /\ low[2] = Pc(t, 1)
    BY <2>1
  <2>3. top \in Seq(Word) /\ Len(top) = 13
    BY <2>1
  <2>4. w = low \o top
    BY <1>2 DEF InitialFrame
  <2> HIDE DEF low, top
  <2> HIDE DEF w
  <2>5. PICK n \in Nat, m \in Nat : n = Len(low) /\ m = Len(top) /\ n = 3 /\ m = 13
    BY <2>2, <2>3
  <2>6. low \in Seq(Word) /\ top \in Seq(Word) /\ Len(low) = n /\ Len(top) = m
    BY <2>2, <2>3, <2>5
  <2>7. Joins(w, low, top, Word)
    BY <2>4, <2>6, Joined, Zenon
  <2>8. w \in Seq(Word) /\ Len(w) = 16
    BY <2>2, <2>3, <2>7 DEF Joins
  <2>9. \A k \in 1..16 : w[k] \in Word
    BY <2>7, <2>8 DEF Joins
  <2>10. w[2] = low[2]
    <3>1. 2 \in 1..Len(low)
      BY <2>2
    <3>. QED BY <2>7, <3>1 DEF Joins
  <2>. QED BY <2>2, <2>8, <2>9, <2>10
<1> DEFINE regs == [r \in Reg |-> w[IF r \in DOMAIN SwOffset THEN 16 - SwOffset[r] ELSE 8 - HwOffset[r]]]
           g == [regs |-> regs, words |-> <<>>]
<1>4. regs \in [Reg -> Word]
  <2>1. ASSUME NEW r \in Reg
        PROVE  (IF r \in DOMAIN SwOffset THEN 16 - SwOffset[r] ELSE 8 - HwOffset[r]) \in 1..16
    BY HwRegisters, SwRegisters, AllRegisters
  <2> HIDE DEF w
  <2>. QED BY <1>3, <2>1
<1>5. g \in Context
  BY <1>4 DEF Context
<1>6. g.regs["PC"] = Pc(t, 1)
  <2>1. HwFrame[8 - HwOffset["PC"]] = "PC" /\ HwOffset["PC"] \in 0..7
    BY HwRegisters, AllRegisters
  <2>2. \A i \in 1..8 : HwFrame[i] = "PC" => i = 2
    BY DEF HwFrame
  <2>3. 8 - HwOffset["PC"] = 2
    BY <2>1, <2>2
  <2>. QED BY <1>3, <2>3, AllRegisters
<1>7. d.stack = [c.stack EXCEPT ![t] = w] /\ d.sp = [c.sp EXCEPT ![t] = Pointer(t, 16)]
  BY <1>2 DEF Prepared, Core
<1>8. d \in Core
  <2>1. Pointer(t, HW + SW) \in Pointers
    BY <1>2 DEF Pointer, Pointers
  <2>. QED BY <1>1, <1>3, <2>1 DEF Prepared, Core
<1>9. OnlyOf(t, c, d)
  BY <1>1, <1>7 DEF OnlyOf
<1> HIDE DEF d, w
<1>10. d.stack[t] = w /\ d.sp[t] = Pointer(t, 16) /\ Len(g.words) = 0
  BY <1>1, <1>7
<1>11. HasFrame(w, 8, HwOffset, g)
  BY <1>3, HwRegisters, AllRegisters DEF HasFrame
<1>12. HasFrame(w, 16, SwOffset, g)
  BY <1>3, SwRegisters, AllRegisters DEF HasFrame
<1>13. Saved(d, t, g)
  BY <1>2, <1>3, <1>10, <1>11, <1>12 DEF Saved, Below
<1>. QED BY <1>5, <1>6, <1>8, <1>9, <1>13 DEF d

----------------------------------------------------------------------------
(* Contexts and the state of the model. *)

\* Where the context of thread t is.
Place(t) == IF cpu # t THEN "away" ELSE IF ThreadMode THEN "here" ELSE "served"
Places == {"away", "here", "served"}

\* FramesOn, Depth, RegisterOf and ContextOf of a thread with its context in place p
\* of the core c.
FramesAt(c, p, t) ==
    /\ c.sp[t].of = t
    /\ p # "away" => c.psp.of = t /\ c.psp.used <= Len(c.stack[t])
    /\ p = "served" => HW <= c.psp.used
    /\ p = "away" => HW + SW <= c.sp[t].used /\ c.sp[t].used <= Len(c.stack[t])

DepthAt(c, p, t) ==
    IF p = "away" THEN c.sp[t].used - HW - SW
    ELSE IF p = "here" THEN c.psp.used ELSE c.psp.used - HW

RegisterAt(c, p, t, r) ==
    IF p = "here" \/ (p = "served" /\ r \in DOMAIN SwOffset) THEN c.regs[r]
    ELSE IF p = "served" THEN WordAt(c, c.psp, HwOffset[r])
    ELSE WordAt(c, c.sp[t], IF r \in DOMAIN SwOffset THEN SwOffset[r] ELSE SW + HwOffset[r])

ContextAt(c, p, t) ==
    [regs |-> [r \in Reg |-> RegisterAt(c, p, t, r)],
     words |-> SubSeq(c.stack[t], 1, DepthAt(c, p, t))]

\* Context g of thread t is in place p.
Holds(c, p, t, g) ==
    \/ p = "here" /\ Here(c, t, g)
    \/ p = "served" /\ Interrupted(c, t, g)
    \/ p = "away" /\ Saved(c, t, g)

\* They are the model's operators, where Place says.
LEMMA PlaceMeans ==
    ASSUME NEW t \in Thread
    PROVE  /\ Place(t) \in Places
           /\ FramesOn(t) <=> FramesAt(core, Place(t), t)
           /\ Depth(t) = DepthAt(core, Place(t), t)
           /\ \A r : RegisterOf(t, r) = RegisterAt(core, Place(t), t, r)
           /\ ContextOf(t) = ContextAt(core, Place(t), t)
<1>1. Place(t) \in Places
  BY DEF Place, Places
<1>2. FramesOn(t) <=> FramesAt(core, Place(t), t)
  BY DEF FramesOn, FramesAt, Place
<1>3. Depth(t) = DepthAt(core, Place(t), t)
  BY DEF Depth, DepthAt, Place
<1>4. \A r : RegisterOf(t, r) = RegisterAt(core, Place(t), t, r)
  <2>1. CASE cpu # t
    <3>1. Place(t) = "away"
      BY <2>1 DEF Place
    <3>. QED BY <2>1, <3>1 DEF RegisterOf, RegisterAt
  <2>2. CASE cpu = t /\ ThreadMode
    <3>1. Place(t) = "here"
      BY <2>2 DEF Place
    <3>2. \A r : RegisterOf(t, r) = core.regs[r]
      BY <2>2 DEF RegisterOf
    <3>3. \A r : RegisterAt(core, Place(t), t, r) = core.regs[r]
      BY <3>1 DEF RegisterAt
    <3>. QED BY <3>2, <3>3
  <2>3. CASE cpu = t /\ ~ThreadMode
    <3>1. Place(t) = "served"
      BY <2>3 DEF Place
    <3>. QED BY <2>3, <3>1 DEF RegisterOf, RegisterAt
  <2>. QED BY <2>1, <2>2, <2>3
<1>5. ContextOf(t) = ContextAt(core, Place(t), t)
  BY <1>3, <1>4 DEF ContextOf, ContextAt
<1>. QED BY <1>1, <1>2, <1>3, <1>4, <1>5

\* The same after a step.
LEMMA PlaceMeansPrime ==
    ASSUME NEW t \in Thread
    PROVE  /\ Place(t)' \in Places
           /\ FramesOn(t)' <=> FramesAt(core', Place(t)', t)
           /\ Depth(t)' = DepthAt(core', Place(t)', t)
           /\ \A r : RegisterOf(t, r)' = RegisterAt(core', Place(t)', t, r)
           /\ ContextOf(t)' = ContextAt(core', Place(t)', t)
<1>1. Place(t)' \in Places
  BY DEF Place, Places
<1>2. FramesOn(t)' <=> FramesAt(core', Place(t)', t)
  BY DEF FramesOn, FramesAt, Place
<1>3. Depth(t)' = DepthAt(core', Place(t)', t)
  BY DEF Depth, DepthAt, Place
<1>4. \A r : RegisterOf(t, r)' = RegisterAt(core', Place(t)', t, r)
  <2>1. CASE cpu' # t
    <3>1. Place(t)' = "away"
      BY <2>1 DEF Place
    <3>. QED BY <2>1, <3>1 DEF RegisterOf, RegisterAt
  <2>2. CASE cpu' = t /\ ThreadMode'
    <3>1. Place(t)' = "here"
      BY <2>2 DEF Place
    <3>2. \A r : RegisterOf(t, r)' = core'.regs[r]
      BY <2>2 DEF RegisterOf
    <3>3. \A r : RegisterAt(core', Place(t)', t, r) = core'.regs[r]
      BY <3>1 DEF RegisterAt
    <3>. QED BY <3>2, <3>3
  <2>3. CASE cpu' = t /\ ~ThreadMode'
    <3>1. Place(t)' = "served"
      BY <2>3 DEF Place
    <3>. QED BY <2>3, <3>1 DEF RegisterOf, RegisterAt
  <2>. QED BY <2>1, <2>2, <2>3
<1>5. ContextOf(t)' = ContextAt(core', Place(t)', t)
  BY <1>3, <1>4 DEF ContextOf, ContextAt
<1>. QED BY <1>1, <1>2, <1>3, <1>4, <1>5

\* A stack pointer is made of its two parts.
LEMMA PointerIs ==
    ASSUME NEW p \in Pointers
    PROVE  p = Pointer(p.of, p.used)
BY DEF Pointers, Pointer

\* A complete frame holds words.
LEMMA FrameOfWords ==
    ASSUME NEW w \in Seq(Word), NEW n \in Nat, n <= Len(w), NEW m \in Nat,
           NEW order, Len(order) = m, NEW offset, IsFrame(order, offset), m <= n
    PROVE  \A r \in DOMAIN offset : w[n - offset[r]] \in Word
<1>. SUFFICES ASSUME NEW r \in DOMAIN offset PROVE w[n - offset[r]] \in Word
  OBVIOUS
<1>1. offset[r] \in 0..m - 1
  BY DEF IsFrame
<1>2. n - offset[r] \in 1..Len(w)
  BY <1>1
<1>. QED BY <1>2

\* The words that a depth cuts off a stack.
LEMMA TopWords ==
    ASSUME NEW w \in Seq(Word), NEW n \in Nat, n <= Len(w)
    PROVE  /\ SubSeq(w, 1, n) \in Seq(Word)
           /\ Len(SubSeq(w, 1, n)) = n
           /\ \A i \in 1..n : SubSeq(w, 1, n)[i] = w[i]
OBVIOUS

\* Sequences of the same length and elements are the same.
LEMMA EqualSequences ==
    ASSUME NEW S, NEW a \in Seq(S), NEW b \in Seq(S), Len(a) = Len(b),
           \A i \in 1..Len(a) : a[i] = b[i]
    PROVE  a = b
OBVIOUS

\* A thread whose frames are complete has a context, where Place says.
LEMMA FramesHold ==
    ASSUME NEW c \in Core, NEW t \in Thread, NEW p \in Places, FramesAt(c, p, t)
    PROVE  /\ ContextAt(c, p, t) \in Context
           /\ Holds(c, p, t, ContextAt(c, p, t))
           /\ Len(ContextAt(c, p, t).words) = DepthAt(c, p, t)
<1> DEFINE w == c.stack[t]
           n == DepthAt(c, p, t)
           g == ContextAt(c, p, t)
<1>1. /\ c.regs \in [Reg -> Word] /\ c.psp \in Pointers
      /\ w \in Seq(Word) /\ c.sp[t] \in Pointers
      /\ c.psp.used \in Nat /\ c.sp[t].used \in Nat
  BY DEF Core, Pointers
<1>2. /\ HW \in Nat /\ Len(HwFrame) = HW /\ IsFrame(HwFrame, HwOffset)
      /\ SW \in Nat /\ Len(SwFrame) = SW /\ IsFrame(SwFrame, SwOffset)
  BY BothFrames
<1>3. /\ p = "here" => c.psp = Pointer(t, n)
      /\ p = "served" => c.psp = Pointer(t, n + HW) /\ n + HW <= Len(w)
      /\ p = "away" => c.sp[t] = Pointer(t, n + HW + SW) /\ n + HW + SW <= Len(w)
      /\ n \in Nat /\ n <= Len(w)
  <2>1. c.psp = Pointer(c.psp.of, c.psp.used) /\ c.sp[t] = Pointer(t, c.sp[t].used)
    BY <1>1, PointerIs DEF FramesAt
  <2>2. CASE p = "here"
    <3>1. n = c.psp.used /\ c.psp.of = t /\ c.psp.used <= Len(w)
      BY <2>2 DEF DepthAt, FramesAt
    <3>. QED BY <1>1, <2>1, <2>2, <3>1
  <2>3. CASE p = "served"
    <3>1. /\ n = c.psp.used - HW /\ c.psp.of = t
          /\ c.psp.used <= Len(w) /\ HW <= c.psp.used
      BY <2>3 DEF DepthAt, FramesAt
    <3>2. n \in Nat /\ c.psp.used = n + HW
      BY <1>1, <1>2, <3>1
    <3> HIDE DEF n, w
    <3>3. c.psp = Pointer(t, n + HW)
      BY <2>1, <3>1, <3>2
    <3>4. n + HW <= Len(w) /\ n <= Len(w)
      BY <1>1, <1>2, <3>1, <3>2
    <3>. QED BY <2>3, <3>2, <3>3, <3>4
  <2>4. CASE p = "away"
    <3>1. n = c.sp[t].used - HW - SW /\ HW + SW <= c.sp[t].used /\ c.sp[t].used <= Len(w)
      BY <2>4 DEF DepthAt, FramesAt
    <3>2. n \in Nat /\ c.sp[t].used = n + HW + SW
      BY <1>1, <1>2, <3>1
    <3> HIDE DEF n, w
    <3>3. c.sp[t] = Pointer(t, n + HW + SW)
      BY <2>1, <3>2
    <3>4. n + HW + SW <= Len(w) /\ n <= Len(w)
      BY <1>1, <1>2, <3>1, <3>2
    <3>. QED BY <2>4, <3>2, <3>3, <3>4
  <2>. QED BY <2>2, <2>3, <2>4 DEF Places
<1>4. g.regs = [r \in Reg |-> RegisterAt(c, p, t, r)] /\ g.words = SubSeq(w, 1, n)
  BY DEF ContextAt
<1> HIDE DEF n, w
<1>5. /\ g.words \in Seq(Word) /\ Len(g.words) = n
      /\ \A i \in 1..n : g.words[i] = w[i]
  BY <1>1, <1>3, <1>4, TopWords
<1>6. Below(w, g)
  BY <1>3, <1>5 DEF Below
<1>7. /\ DOMAIN HwOffset \subseteq Reg /\ DOMAIN SwOffset \subseteq Reg
      /\ \A r \in DOMAIN HwOffset : r \notin DOMAIN SwOffset
      /\ \A r \in Reg : r \in DOMAIN HwOffset \/ r \in DOMAIN SwOffset
  BY AllRegisters
<1>8. CASE p = "here"
  <2>1. \A r \in Reg : g.regs[r] = c.regs[r]
    BY <1>4, <1>8 DEF RegisterAt
  <2>2. g.regs \in [Reg -> Word]
    BY <1>1, <1>4, <2>1
  <2>3. Here(c, t, g)
    BY <1>3, <1>5, <1>6, <1>8, <2>1 DEF Here, FramesAt, w
  <2>4. g \in Context
    BY <1>5, <2>2 DEF Context, ContextAt
  <2>. QED BY <1>5, <1>8, <2>3, <2>4 DEF Holds, n
<1> DEFINE k == n + HW
           j == n + HW + SW
<1>9. CASE p = "served"
  <2>1. /\ k \in Nat /\ k <= Len(w) /\ HW <= k
        /\ c.psp = Pointer(t, k) /\ c.psp.of = t /\ c.psp.used = k
    BY <1>2, <1>3, <1>9 DEF Pointer
  <2>2. k = n + HW
    OBVIOUS
  <2> HIDE DEF k
  <2>3. \A r \in DOMAIN SwOffset : g.regs[r] = c.regs[r]
    BY <1>4, <1>7, <1>9 DEF RegisterAt
  <2>4. ASSUME NEW r \in DOMAIN HwOffset
        PROVE  g.regs[r] = w[k - HwOffset[r]]
    <3>1. g.regs[r] = WordAt(c, c.psp, HwOffset[r])
      BY <1>4, <1>7, <1>9 DEF RegisterAt
    <3>. QED BY <2>1, <3>1 DEF WordAt, w
  <2>5. ASSUME NEW r \in DOMAIN HwOffset
        PROVE  w[k - HwOffset[r]] \in Word
    BY <1>1, <1>2, <2>1, FrameOfWords
  <2>6. g.regs \in [Reg -> Word]
    BY <1>1, <1>4, <1>7, <2>3, <2>4, <2>5
  <2>7. HasFrame(w, k, HwOffset, g)
    BY <2>1, <2>4 DEF HasFrame
  <2>8. Interrupted(c, t, g)
    BY <1>5, <1>6, <2>1, <2>2, <2>3, <2>7 DEF Interrupted, FramesAt, w
  <2>9. g \in Context
    BY <1>5, <2>6 DEF Context, ContextAt
  <2>. QED BY <1>5, <1>9, <2>8, <2>9 DEF Holds, n
<1>10. CASE p = "away"
  <2>1. /\ k \in Nat /\ k <= Len(w) /\ HW <= k
        /\ j \in Nat /\ j <= Len(w) /\ SW <= j
        /\ c.sp[t] = Pointer(t, j) /\ c.sp[t].of = t /\ c.sp[t].used = j
    BY <1>1, <1>2, <1>3, <1>10 DEF Pointer
  <2>2. k = n + HW /\ j = n + HW + SW /\ j = k + SW
    BY <1>2, <1>3
  <2> HIDE DEF k, j
  <2>3. ASSUME NEW r \in DOMAIN SwOffset
        PROVE  g.regs[r] = w[j - SwOffset[r]]
    <3>1. g.regs[r] = WordAt(c, c.sp[t], SwOffset[r])
      BY <1>4, <1>7, <1>10 DEF RegisterAt
    <3>. QED BY <2>1, <3>1 DEF WordAt, w
  <2>4. ASSUME NEW r \in DOMAIN HwOffset
        PROVE  g.regs[r] = w[k - HwOffset[r]]
    <3>1. g.regs[r] = WordAt(c, c.sp[t], SW + HwOffset[r])
      BY <1>4, <1>7, <1>10 DEF RegisterAt
    <3>2. HwOffset[r] \in Nat
      BY <1>2 DEF IsFrame
    <3>3. j - (SW + HwOffset[r]) = k - HwOffset[r]
      BY <1>2, <2>1, <2>2, <3>2
    <3>4. WordAt(c, c.sp[t], SW + HwOffset[r]) = w[j - (SW + HwOffset[r])]
      BY <2>1 DEF WordAt, w
    <3>. QED BY <3>1, <3>3, <3>4
  <2>5. ASSUME NEW r \in DOMAIN SwOffset
        PROVE  w[j - SwOffset[r]] \in Word
    BY <1>1, <1>2, <2>1, FrameOfWords
  <2>6. ASSUME NEW r \in DOMAIN HwOffset
        PROVE  w[k - HwOffset[r]] \in Word
    BY <1>1, <1>2, <2>1, FrameOfWords
  <2>7. g.regs \in [Reg -> Word]
    BY <1>4, <1>7, <2>3, <2>4, <2>5, <2>6
  <2>8. HasFrame(w, j, SwOffset, g) /\ HasFrame(w, k, HwOffset, g)
    BY <2>1, <2>3, <2>4 DEF HasFrame
  <2>9. Saved(c, t, g)
    BY <1>5, <1>6, <2>1, <2>2, <2>8 DEF Saved, w
  <2>10. g \in Context
    BY <1>5, <2>7 DEF Context, ContextAt
  <2>. QED BY <1>5, <1>10, <2>9, <2>10 DEF Holds, n
<1>. QED BY <1>8, <1>9, <1>10 DEF Places

\* Conversely a context that is where Place says is the thread's.
LEMMA HeldIs ==
    ASSUME NEW c \in Core, NEW t \in Thread, NEW p \in Places,
           NEW g \in Context, Holds(c, p, t, g)
    PROVE  /\ FramesAt(c, p, t)
           /\ DepthAt(c, p, t) = Len(g.words)
           /\ \A r \in Reg : RegisterAt(c, p, t, r) = g.regs[r]
           /\ ContextAt(c, p, t) = g
<1> DEFINE w == c.stack[t]
           n == Len(g.words)
           k == n + HW
           j == n + HW + SW
<1>1. w \in Seq(Word) /\ g.words \in Seq(Word) /\ g.regs \in [Reg -> Word] /\ n \in Nat
  BY DEF Core, Context
<1>2. /\ HW \in Nat /\ IsFrame(HwFrame, HwOffset)
      /\ SW \in Nat /\ IsFrame(SwFrame, SwOffset)
  BY BothFrames
<1>3. /\ k \in Nat /\ k - HW = n /\ HW <= k
      /\ j \in Nat /\ j - HW - SW = n /\ HW + SW <= j /\ j = k + SW
  BY <1>1, <1>2
<1>4. /\ \A r \in DOMAIN HwOffset : r \notin DOMAIN SwOffset
      /\ \A r \in Reg : r \in DOMAIN HwOffset \/ r \in DOMAIN SwOffset
  BY AllRegisters
<1>5. p = "here" => Here(c, t, g)
  BY DEF Holds
<1>6. p = "served" => Interrupted(c, t, g)
  BY DEF Holds
<1>7. p = "away" => Saved(c, t, g)
  BY DEF Holds
<1>8. Below(w, g)
  BY <1>5, <1>6, <1>7 DEF Places, Here, Interrupted, Saved
<1>9. n <= Len(w) /\ \A i \in 1..n : w[i] = g.words[i]
  BY <1>8 DEF Below
<1>10. /\ FramesAt(c, p, t)
       /\ DepthAt(c, p, t) = n
       /\ \A r \in Reg : RegisterAt(c, p, t, r) = g.regs[r]
  <2>1. CASE p = "here"
    <3>1. c.psp.of = t /\ c.psp.used = n /\ c.sp[t].of = t
      BY <1>5, <2>1 DEF Here, Pointer
    <3>2. \A r \in Reg : c.regs[r] = g.regs[r]
      BY <1>5, <2>1 DEF Here
    <3>3. FramesAt(c, p, t)
      BY <1>9, <2>1, <3>1 DEF FramesAt
    <3>4. DepthAt(c, p, t) = n
      BY <2>1, <3>1 DEF DepthAt
    <3>5. \A r \in Reg : RegisterAt(c, p, t, r) = g.regs[r]
      BY <2>1, <3>2 DEF RegisterAt
    <3>. QED BY <3>3, <3>4, <3>5
  <2>2. CASE p = "served"
    <3>1. c.psp.of = t /\ c.psp.used = k /\ c.sp[t].of = t /\ HasFrame(w, k, HwOffset, g)
      BY <1>6, <2>2 DEF Interrupted, Pointer
    <3>2. \A r \in DOMAIN SwOffset : c.regs[r] = g.regs[r]
      BY <1>6, <2>2 DEF Interrupted
    <3> HIDE DEF k, n
    <3>3. k <= Len(w) /\ \A r \in DOMAIN HwOffset : w[k - HwOffset[r]] = g.regs[r]
      BY <3>1 DEF HasFrame
    <3>4. FramesAt(c, p, t)
      BY <1>3, <2>2, <3>1, <3>3 DEF FramesAt
    <3>5. DepthAt(c, p, t) = n
      BY <1>3, <2>2, <3>1 DEF DepthAt
    <3>6. ASSUME NEW r \in DOMAIN SwOffset PROVE RegisterAt(c, p, t, r) = g.regs[r]
      BY <2>2, <3>2 DEF RegisterAt
    <3>7. ASSUME NEW r \in DOMAIN HwOffset PROVE RegisterAt(c, p, t, r) = g.regs[r]
      <4>1. RegisterAt(c, p, t, r) = WordAt(c, c.psp, HwOffset[r])
        BY <1>4, <2>2 DEF RegisterAt
      <4>2. WordAt(c, c.psp, HwOffset[r]) = w[k - HwOffset[r]]
        BY <3>1 DEF WordAt
      <4>. QED BY <3>3, <4>1, <4>2
    <3>. QED BY <1>4, <3>4, <3>5, <3>6, <3>7
  <2>3. CASE p = "away"
    <3>1. /\ c.sp[t].used = j /\ c.sp[t].of = t
          /\ HasFrame(w, j, SwOffset, g) /\ HasFrame(w, k, HwOffset, g)
      BY <1>7, <2>3 DEF Saved, Pointer
    <3> HIDE DEF k, n, j
    <3>2. j <= Len(w) /\ \A r \in DOMAIN SwOffset : w[j - SwOffset[r]] = g.regs[r]
      BY <3>1 DEF HasFrame
    <3>3. \A r \in DOMAIN HwOffset : w[k - HwOffset[r]] = g.regs[r]
      BY <3>1 DEF HasFrame
    <3>4. FramesAt(c, p, t)
      BY <1>3, <2>3, <3>1, <3>2 DEF FramesAt
    <3>5. DepthAt(c, p, t) = n
      BY <1>3, <2>3, <3>1 DEF DepthAt
    <3>6. ASSUME NEW r \in DOMAIN SwOffset PROVE RegisterAt(c, p, t, r) = g.regs[r]
      <4>1. RegisterAt(c, p, t, r) = WordAt(c, c.sp[t], SwOffset[r])
        BY <2>3 DEF RegisterAt
      <4>2. WordAt(c, c.sp[t], SwOffset[r]) = w[j - SwOffset[r]]
        BY <3>1 DEF WordAt
      <4>. QED BY <3>2, <4>1, <4>2
    <3>7. ASSUME NEW r \in DOMAIN HwOffset PROVE RegisterAt(c, p, t, r) = g.regs[r]
      <4>1. RegisterAt(c, p, t, r) = WordAt(c, c.sp[t], SW + HwOffset[r])
        BY <1>4, <2>3 DEF RegisterAt
      <4>2. WordAt(c, c.sp[t], SW + HwOffset[r]) = w[j - (SW + HwOffset[r])]
        BY <3>1 DEF WordAt
      <4>3. HwOffset[r] \in Nat
        BY <1>2 DEF IsFrame
      <4>4. j - (SW + HwOffset[r]) = k - HwOffset[r]
        BY <1>2, <1>3, <4>3
      <4>. QED BY <3>3, <4>1, <4>2, <4>4
    <3>. QED BY <1>4, <3>4, <3>5, <3>6, <3>7
  <2>. QED BY <2>1, <2>2, <2>3 DEF Places
<1>11. ContextAt(c, p, t) = g
  <2>1. [r \in Reg |-> RegisterAt(c, p, t, r)] = g.regs
    BY <1>1, <1>10
  <2>2. SubSeq(w, 1, DepthAt(c, p, t)) = g.words
    <3> HIDE DEF w
    <3>1. /\ SubSeq(w, 1, n) \in Seq(Word) /\ Len(SubSeq(w, 1, n)) = n
          /\ \A i \in 1..n : SubSeq(w, 1, n)[i] = w[i]
      BY <1>1, <1>9, TopWords
    <3>2. \A i \in 1..n : SubSeq(w, 1, n)[i] = g.words[i]
      BY <1>9, <3>1
    <3>3. SubSeq(w, 1, n) = g.words
      BY <1>1, <3>1, <3>2, EqualSequences
    <3>. QED BY <1>10, <3>3
  <2>3. g = [regs |-> g.regs, words |-> g.words]
    BY DEF Context
  <2>. QED BY <2>1, <2>2, <2>3 DEF ContextAt
<1>. QED BY <1>10, <1>11

\* What the invariant says of a thread, in terms of its context.
LEMMA ContextHeld ==
    ASSUME CoreTypeOK, NEW t \in Thread, FramesOn(t)
    PROVE  /\ ContextOf(t) \in Context
           /\ Holds(core, Place(t), t, ContextOf(t))
           /\ Len(ContextOf(t).words) = Depth(t)
           /\ \A r \in Reg : ContextOf(t).regs[r] = RegisterOf(t, r)
<1>1. core \in Core
  BY DEF CoreTypeOK, Core
<1>2. /\ Place(t) \in Places
      /\ FramesAt(core, Place(t), t)
      /\ Depth(t) = DepthAt(core, Place(t), t)
      /\ ContextOf(t) = ContextAt(core, Place(t), t)
  BY PlaceMeans
<1>3. /\ ContextAt(core, Place(t), t) \in Context
      /\ Holds(core, Place(t), t, ContextAt(core, Place(t), t))
      /\ Len(ContextAt(core, Place(t), t).words) = DepthAt(core, Place(t), t)
  BY <1>1, <1>2, FramesHold
<1>4. \A r \in Reg : ContextOf(t).regs[r] = RegisterOf(t, r)
  BY DEF ContextOf
<1>. QED BY <1>2, <1>3, <1>4

\* The same the other way round, after a step.
LEMMA ContextHeldPrime ==
    ASSUME core' \in Core, NEW t \in Thread, NEW g \in Context, Holds(core', Place(t)', t, g)
    PROVE  /\ FramesOn(t)'
           /\ ContextOf(t)' = g
           /\ Depth(t)' = Len(g.words)
           /\ \A r \in Reg : RegisterOf(t, r)' = g.regs[r]
<1>1. /\ Place(t)' \in Places
      /\ FramesOn(t)' <=> FramesAt(core', Place(t)', t)
      /\ Depth(t)' = DepthAt(core', Place(t)', t)
      /\ \A r : RegisterOf(t, r)' = RegisterAt(core', Place(t)', t, r)
      /\ ContextOf(t)' = ContextAt(core', Place(t)', t)
  BY PlaceMeansPrime
<1>2. /\ FramesAt(core', Place(t)', t)
      /\ DepthAt(core', Place(t)', t) = Len(g.words)
      /\ \A r \in Reg : RegisterAt(core', Place(t)', t, r) = g.regs[r]
      /\ ContextAt(core', Place(t)', t) = g
  BY <1>1, HeldIs
<1>. QED BY <1>1, <1>2

----------------------------------------------------------------------------
(* The steps of the kernel. *)

\* An exception that begins or ends leaves every context where Place then says.
LEMMA HandleCarries ==
    ASSUME CoreTypeOK, cpu \in Thread \cup {Main}, cpu # Main => FramesOn(cpu),
           cpu' = cpu, core' = Left(Entered(core)),
           NEW t \in Thread, NEW g \in Context, Holds(core, Place(t), t, g)
    PROVE  core' \in Core /\ Holds(core', Place(t)', t, g)
<1>1. core \in Core
  BY DEF CoreTypeOK, Core
<1>2. CASE cpu = Main
  <2>1. core' = core
    BY <1>2 DEF Left, Entered
  <2>2. cpu # t /\ cpu' # t
    BY <1>2, KernelAssumption
  <2>3. Place(t) = "away" /\ Place(t)' = "away"
    BY <2>2 DEF Place
  <2>. QED BY <1>1, <2>1, <2>3
<1>3. CASE cpu # Main
  <2>1. cpu \in Thread /\ cpu' # Main
    BY <1>3
  <2>2. PICK gc \in Context : Holds(core, Place(cpu), cpu, gc)
    BY <1>3, <2>1, ContextHeld
  <2>3. CASE ThreadMode <=> ThreadMode'
    <3>1. core' = core
      BY <2>3 DEF Left, Entered
    <3>2. Place(t)' = Place(t)
      BY <2>3 DEF Place
    <3>. QED BY <1>1, <3>1, <3>2
  <2>4. CASE ThreadMode /\ ~ThreadMode'
    <3>1. core' = Stacked(core)
      BY <1>3, <2>4 DEF Left, Entered
    <3>2. Place(cpu) = "here" /\ (t = cpu => Place(t)' = "served")
      BY <2>4 DEF Place
    <3>3. Here(core, cpu, gc)
      BY <2>2, <3>2 DEF Holds
    <3>4. core' \in Core /\ OnlyOf(cpu, core, core')
      BY <1>1, <2>1, <3>1, <3>3, EntryKeeps
    <3>5. CASE t = cpu
      <4>1. Here(core, t, g)
        BY <3>2, <3>5 DEF Holds
      <4>2. Interrupted(core', t, g)
        BY <1>1, <3>1, <4>1, EntryKeeps
      <4>. QED BY <3>2, <3>4, <3>5, <4>2 DEF Holds
    <3>6. CASE t # cpu
      <4>1. Place(t) = "away" /\ Place(t)' = "away"
        BY <3>6 DEF Place
      <4>2. Saved(core, t, g)
        BY <4>1 DEF Holds
      <4>3. Saved(core', t, g)
        BY <3>4, <3>6, <4>2, SavedStays
      <4>. QED BY <3>4, <4>1, <4>3 DEF Holds
    <3>. QED BY <3>5, <3>6
  <2>5. CASE ~ThreadMode /\ ThreadMode'
    <3>1. core' = Unstacked(core)
      BY <2>1, <2>5 DEF Left, Entered
    <3>2. Place(cpu) = "served" /\ (t = cpu => Place(t)' = "here")
      BY <2>5 DEF Place
    <3>3. Interrupted(core, cpu, gc)
      BY <2>2, <3>2 DEF Holds
    <3>4. core' \in Core /\ OnlyOf(cpu, core, core')
      BY <1>1, <2>1, <3>1, <3>3, ReturnKeeps
    <3>5. CASE t = cpu
      <4>1. Interrupted(core, t, g)
        BY <3>2, <3>5 DEF Holds
      <4>2. Here(core', t, g)
        BY <1>1, <3>1, <4>1, ReturnKeeps
      <4>. QED BY <3>2, <3>4, <3>5, <4>2 DEF Holds
    <3>6. CASE t # cpu
      <4>1. Place(t) = "away" /\ Place(t)' = "away"
        BY <3>6 DEF Place
      <4>2. Saved(core, t, g)
        BY <4>1 DEF Holds
      <4>3. Saved(core', t, g)
        BY <3>4, <3>6, <4>2, SavedStays
      <4>. QED BY <3>4, <4>1, <4>3 DEF Holds
    <3>. QED BY <3>5, <3>6
  <2>. QED BY <2>3, <2>4, <2>5
<1>. QED BY <1>2, <1>3

\* Loading the context of thread u gives it the CPU and leaves the others saved.
LEMMA LoadCarries ==
    ASSUME NEW c \in Core, NEW u \in Thread, cpu' = u, ~ThreadMode,
           NEW gu \in Context, Saved(c, u, gu),
           core' = Left(Loaded(c, u)),
           NEW t \in Thread, NEW g \in Context, Saved(c, t, g)
    PROVE  core' \in Core /\ Holds(core', Place(t)', t, g)
<1> DEFINE d == Loaded(c, u)
<1>1. d \in Core /\ Interrupted(d, u, gu) /\ d.stack = c.stack /\ d.sp = c.sp
  BY LoadKeeps
<1>2. t = u => Interrupted(d, u, g)
  BY LoadKeeps
<1>3. OnlyOf(u, c, d)
  BY <1>1 DEF OnlyOf
<1>4. t # u => Saved(d, t, g)
  BY <1>3, SavedStays
<1>5. u # Main
  BY KernelAssumption
<1> HIDE DEF d
<1>6. core' = IF ThreadMode' THEN Unstacked(d) ELSE d
  BY <1>5 DEF Left, d
<1>7. CASE ThreadMode'
  <2>1. core' = Unstacked(d)
    BY <1>6, <1>7
  <2>2. core' \in Core /\ OnlyOf(u, d, core')
    BY <1>1, <2>1, ReturnKeeps
  <2>3. CASE t = u
    <3>1. Here(core', t, g)
      BY <1>1, <1>2, <2>1, <2>3, ReturnKeeps
    <3>2. Place(t)' = "here"
      BY <1>7, <2>3 DEF Place
    <3>. QED BY <2>2, <3>1, <3>2 DEF Holds
  <2>4. CASE t # u
    <3>1. Saved(core', t, g)
      BY <1>4, <2>2, <2>4, SavedStays
    <3>2. Place(t)' = "away"
      BY <2>4 DEF Place
    <3>. QED BY <2>2, <3>1, <3>2 DEF Holds
  <2>. QED BY <2>3, <2>4
<1>8. CASE ~ThreadMode'
  <2>1. core' = d
    BY <1>6, <1>8
  <2>2. CASE t = u
    <3>1. Place(t)' = "served"
      BY <1>8, <2>2 DEF Place
    <3>. QED BY <1>1, <1>2, <2>1, <2>2, <3>1 DEF Holds
  <2>3. CASE t # u
    <3>1. Place(t)' = "away"
      BY <2>3 DEF Place
    <3>. QED BY <1>1, <1>4, <2>1, <2>3, <3>1 DEF Holds
  <2>. QED BY <2>2, <2>3
<1>. QED BY <1>7, <1>8

\* The thread on the CPU has a TCB, once there is one.
LEMMA OnCpu ==
    ASSUME IInv
    PROVE  cpu \in Thread \cup {Main} /\ (cpu # Main => cpu \in Created)
<1>1. cpu \in Thread \cup {Main}
  BY DEF IInv, TypeOK, KernelTypeOK
<1>2. ASSUME cpu # Main PROVE loc[cpu] # NoList
  <2>1. boot # "create" /\ cpu = Running /\ cpu \in Thread
    BY <1>1, <1>2 DEF IInv, Phase
  <2>2. lists["running"] = <<cpu>>
    BY <2>1, RunningThread
  <2>. QED BY <2>1, <2>2 DEF IInv, RunningNamed
<1>. QED BY <1>1, <1>2 DEF Created

\* What the invariant says of the contexts alone.
FramesHeld == IInv /\ CoreTypeOK /\ \A t \in Created : FramesOn(t)

\* Exception entry, the handlers and exception return keep every context.
LEMMA HandleKeeps ==
    ASSUME FramesHeld, Handle,
           NEW t \in Thread, NEW g \in Context, Holds(core, Place(t), t, g)
    PROVE  core' \in Core /\ Holds(core', Place(t)', t, g)
<1>1. cpu' = cpu /\ core' = Left(Entered(core))
  BY DEF Handle, StartStep, StartPick, StartArmFirstSwitch, StartGo, StartRequestSwitch,
         TickBegin, TickVisit, TickEnd, PendSVEnter, Dispatch
<1>2. cpu \in Thread \cup {Main} /\ (cpu # Main => FramesOn(cpu))
  BY OnCpu DEF FramesHeld
<1>. QED BY <1>1, <1>2, HandleCarries DEF FramesHeld

\* A switch is no thread's doing.
LEMMA SwitchingIsNoThread ==
    ASSUME switching
    PROVE  ~ThreadMode
BY DEF ThreadMode

\* So does the first switch, which stores nothing ...
LEMMA FirstSwitchKeeps ==
    ASSUME FramesHeld, Created = Thread, FirstSwitch,
           NEW t \in Thread, NEW g \in Context, Holds(core, Place(t), t, g)
    PROVE  core' \in Core /\ Holds(core', Place(t)', t, g)
<1>1. /\ switching /\ firstCS /\ cpu' = Running
      /\ core' = Left(Loaded(core, Running))
  BY DEF FirstSwitch, PendSVFirst
<1>2. cpu = Main /\ boot # "create"
  BY <1>1 DEF FramesHeld, IInv, Phase
<1>3. Running \in Thread /\ core \in Core
  BY <1>2, RunningThread DEF FramesHeld, CoreTypeOK, Core
<1>4. \A u \in Thread : Place(u) = "away"
  BY <1>2, KernelAssumption DEF Place
<1>5. FramesOn(Running)
  BY <1>3 DEF FramesHeld
<1>6. PICK gu \in Context : Holds(core, Place(Running), Running, gu)
  BY <1>3, <1>5, ContextHeld DEF FramesHeld
<1>7. Saved(core, Running, gu)
  BY <1>3, <1>4, <1>6 DEF Holds
<1>8. Saved(core, t, g)
  BY <1>4 DEF Holds
<1>9. ~ThreadMode
  BY <1>1, SwitchingIsNoThread
<1>. QED BY <1>1, <1>3, <1>7, <1>8, <1>9, LoadCarries

\* ... and every later one, from thread to thread or back to the same.
LEMMA SwitchKeepsContexts ==
    ASSUME FramesHeld, IInv', Created = Thread, Switch,
           NEW t \in Thread, NEW g \in Context, Holds(core, Place(t), t, g)
    PROVE  core' \in Core /\ Holds(core', Place(t)', t, g)
<1> DEFINE out == Running
           c == Stored(core, out)
<1>1. /\ switching /\ ~firstCS
      /\ cpu' = Head(lists'["running"])
      /\ core' = Left(Loaded(c, cpu'))
      /\ firstCS' = firstCS /\ boot' = boot
  BY DEF Switch, PendSVSwitch, bringUp
<1>2. boot \in {"started", "done"} /\ cpu # Main /\ cpu = out
  BY <1>1 DEF FramesHeld, IInv, Phase, SwitchDue
<1>3. out \in Thread /\ core \in Core /\ cpu \in Thread
  BY <1>2, RunningThread DEF FramesHeld, CoreTypeOK, Core
<1>4. cpu' \in Thread
  BY <1>1, <1>2 DEF IInv, TypeOK, KernelTypeOK, Phase
<1>5. ~ThreadMode
  BY <1>1, SwitchingIsNoThread
<1> HIDE DEF out
<1>6. Place(out) = "served" /\ \A u \in Thread \ {out} : Place(u) = "away"
  BY <1>2, <1>5 DEF Place
<1>7. PICK go \in Context : Holds(core, Place(out), out, go)
  BY <1>3, ContextHeld DEF FramesHeld
<1>8. c \in Core /\ OnlyOf(out, core, c)
  <2>1. Interrupted(core, out, go)
    BY <1>6, <1>7 DEF Holds
  <2>. QED BY <1>3, <2>1, StoreKeeps
<1>9. ASSUME NEW u \in Thread, NEW h \in Context, Holds(core, Place(u), u, h)
      PROVE  Saved(c, u, h)
  <2>1. CASE u = out
    <3>1. Interrupted(core, u, h)
      BY <1>6, <1>9, <2>1 DEF Holds
    <3>. QED BY <1>3, <2>1, <3>1, StoreKeeps
  <2>2. CASE u # out
    <3>1. Saved(core, u, h)
      BY <1>6, <1>9, <2>2 DEF Holds
    <3>. QED BY <1>8, <2>2, <3>1, SavedStays
  <2>. QED BY <2>1, <2>2
<1> HIDE DEF c
<1>10. PICK in \in Thread : in = cpu'
  BY <1>4
<1>11. PICK gi \in Context : Holds(core, Place(in), in, gi)
  BY ContextHeld DEF FramesHeld
<1>12. Saved(c, in, gi) /\ Saved(c, t, g)
  BY <1>9, <1>11
<1>13. cpu' = in /\ core' = Left(Loaded(c, in))
  BY <1>1, <1>10
<1>. QED BY <1>5, <1>8, <1>12, <1>13, LoadCarries

\* Whatever the kernel does between two instructions of a thread, its context is
\* where Place says it is.
LEMMA KernelKeeps ==
    ASSUME FramesHeld, IInv', Kernel,
           NEW t \in Thread, NEW g \in Context, Holds(core, Place(t), t, g)
    PROVE  core' \in Core /\ Holds(core', Place(t)', t, g)
BY HandleKeeps, FirstSwitchKeeps, SwitchKeepsContexts DEF Kernel

\* A thread that comes in does not disturb those that are there.
LEMMA CreateKeepsContexts ==
    ASSUME FramesHeld, NEW t \in Thread, Create(t)
    PROVE  /\ core' \in Core
           /\ Created' = Created \cup {t} /\ t \notin Created
           /\ \A u \in Thread \ {t} : \A g \in Context :
                 Holds(core, Place(u), u, g) => Holds(core', Place(u)', u, g)
           /\ \E g \in Context : /\ g.words = <<>> /\ g.regs["PC"] = Pc(t, 1)
                                 /\ Holds(core', Place(t)', t, g)
<1>1. /\ boot = "create" /\ loc[t] = NoList /\ cpu' = cpu
      /\ loc' = [loc EXCEPT ![t] = "ready"]
      /\ core' = Prepared(core, t)
  BY DEF Create, ThreadCreate
<1>2. cpu = Main
  BY <1>1, BeforeStart DEF FramesHeld
<1>3. \A u \in Thread : Place(u) = "away" /\ Place(u)' = "away"
  BY <1>1, <1>2, KernelAssumption DEF Place
<1>4. core \in Core
  BY DEF FramesHeld, CoreTypeOK, Core
<1>5. core' \in Core /\ OnlyOf(t, core, core')
  BY <1>1, <1>4, PreparedKeeps
<1>6. ASSUME NEW u \in Thread \ {t}, NEW g \in Context, Holds(core, Place(u), u, g)
      PROVE  Holds(core', Place(u)', u, g)
  <2>1. Saved(core, u, g)
    BY <1>3, <1>6 DEF Holds
  <2>2. Saved(core', u, g)
    BY <1>5, <2>1, SavedStays
  <2>. QED BY <1>3, <2>2 DEF Holds
<1>7. PICK g \in Context : /\ g.words = <<>> /\ g.regs["PC"] = Pc(t, 1)
                           /\ Saved(core', t, g)
  BY <1>1, <1>4, PreparedKeeps
<1>8. Holds(core', Place(t)', t, g)
  BY <1>3, <1>7 DEF Holds
<1>9. Created' = Created \cup {t} /\ t \notin Created
  <2>1. loc \in [Thread -> ListName \cup {NoList}]
    BY DEF FramesHeld, IInv, TypeOK, KernelTypeOK
  <2>. QED BY <1>1, <2>1 DEF Created, NoList
<1>. QED BY <1>5, <1>6, <1>7, <1>8, <1>9

----------------------------------------------------------------------------
(* The functions of the threads. *)

\* The eight instructions of a thread of the application, and the one of the idle
\* thread.
LEMMA CodeShape ==
    /\ Len(Code[Idle]) = 1 /\ Code[Idle][1] = Do("LOOP", "none")
    /\ \A t \in Thread \ {Idle} :
          /\ Len(Code[t]) = 8
          /\ Code[t][1] = Do("ENTER", "none")
          /\ Code[t][2] = Do("SET", OwnLed[Function[t]])
          /\ \A i \in 1..3 : Code[t][i + 2] = Do("RESET", OtherLeds[Function[t]][i])
          /\ Code[t][6] = Do("ARGUMENT", "none")
          /\ Code[t][7] = Do("OS_DELAY", "none")
          /\ Code[t][8] = Do("JUMP", "none")
<1>1. Code[Idle] = <<Do("LOOP", "none")>>
  BY CodeAssumption, KernelAssumption DEF AppCode
<1>2. ASSUME NEW t \in Thread \ {Idle}
      PROVE  /\ Len(Code[t]) = 8
             /\ Code[t][1] = Do("ENTER", "none")
             /\ Code[t][2] = Do("SET", OwnLed[Function[t]])
             /\ \A i \in 1..3 : Code[t][i + 2] = Do("RESET", OtherLeds[Function[t]][i])
             /\ Code[t][6] = Do("ARGUMENT", "none")
             /\ Code[t][7] = Do("OS_DELAY", "none")
             /\ Code[t][8] = Do("JUMP", "none")
  <2> DEFINE f == Function[t]
             a == <<Do("ENTER", "none")>>
             b == <<Do("SET", OwnLed[f])>>
             p == PutOut(f)
             e == <<Do("ARGUMENT", "none"), Do("OS_DELAY", "none"), Do("JUMP", "none")>>
             S == {a[1], b[1], e[1], e[2], e[3]} \cup {p[i] : i \in 1..3}
  <2>1. Code[t] = a \o (b \o p) \o e
    BY CodeAssumption DEF AppCode, Body
  <2>2. /\ a \in Seq(S) /\ Len(a) = 1 /\ b \in Seq(S) /\ Len(b) = 1
        /\ e \in Seq(S) /\ Len(e) = 3
    OBVIOUS
  <2>3. p \in Seq(S) /\ Len(p) = 3 /\ \A i \in 1..3 : p[i] = Do("RESET", OtherLeds[f][i])
    BY DEF PutOut
  <2>4. /\ e[1] = Do("ARGUMENT", "none") /\ e[2] = Do("OS_DELAY", "none")
        /\ e[3] = Do("JUMP", "none")
        /\ a[1] = Do("ENTER", "none") /\ b[1] = Do("SET", OwnLed[f])
    OBVIOUS
  <2> DEFINE bp == b \o p
             abp == a \o bp
             w == abp \o e
  <2> HIDE DEF a, b, p, e, S
  <2>5. /\ bp \in Seq(S) /\ Len(bp) = 4 /\ bp[1] = b[1]
        /\ \A i \in 1..3 : bp[i + 1] = p[i]
    <3>1. Joins(bp, b, p, S)
      <4>1. PICK n \in Nat, m \in Nat : n = Len(b) /\ m = Len(p)
        BY <2>2, <2>3
      <4>2. b \in Seq(S) /\ p \in Seq(S) /\ Len(b) = n /\ Len(p) = m
        BY <2>2, <2>3, <4>1
      <4>. QED BY <4>2, Joined, Zenon
    <3>. QED BY <2>2, <2>3, <3>1 DEF Joins
  <2> HIDE DEF bp
  <2>6. /\ abp \in Seq(S) /\ Len(abp) = 5 /\ abp[1] = a[1]
        /\ \A i \in 1..4 : abp[i + 1] = bp[i]
    <3>1. Joins(abp, a, bp, S)
      <4>1. PICK n \in Nat, m \in Nat : n = Len(a) /\ m = Len(bp)
        BY <2>2, <2>5
      <4>2. a \in Seq(S) /\ bp \in Seq(S) /\ Len(a) = n /\ Len(bp) = m
        BY <2>2, <2>5, <4>1
      <4>. QED BY <4>2, Joined, Zenon
    <3>. QED BY <2>2, <2>5, <3>1 DEF Joins
  <2> HIDE DEF abp
  <2>7. /\ Len(w) = 8 /\ \A i \in 1..5 : w[i] = abp[i]
        /\ \A i \in 1..3 : w[i + 5] = e[i]
    <3>1. Joins(w, abp, e, S)
      <4>1. PICK n \in Nat, m \in Nat : n = Len(abp) /\ m = Len(e)
        BY <2>2, <2>6
      <4>2. abp \in Seq(S) /\ e \in Seq(S) /\ Len(abp) = n /\ Len(e) = m
        BY <2>2, <2>6, <4>1
      <4>. QED BY <4>2, Joined, Zenon
    <3>2. Len(w) = 8 /\ \A i \in 1..Len(abp) : w[i] = abp[i]
      BY <2>2, <2>6, <3>1 DEF Joins
    <3>3. ASSUME NEW i \in 1..3 PROVE w[i + 5] = e[i]
      <4>1. w[Len(abp) + i] = e[i] /\ Len(abp) + i = i + 5
        BY <2>2, <2>6, <3>1 DEF Joins
      <4>. QED BY <4>1
    <3>. QED BY <2>6, <3>2, <3>3
  <2>8. Code[t] = w
    BY <2>1 DEF bp, abp
  <2> HIDE DEF w
  <2>9. w[1] = a[1] /\ w[2] = b[1] /\ w[6] = e[1] /\ w[7] = e[2] /\ w[8] = e[3]
    BY <2>5, <2>6, <2>7
  <2>10. \A i \in 1..3 : w[i + 2] = p[i]
    BY <2>5, <2>6, <2>7
  <2>. QED BY <2>3, <2>4, <2>7, <2>8, <2>9, <2>10
<1>. QED BY <1>1, <1>2

\* The LEDs a function puts out are all but its own.
LEMMA LedsOfFunction ==
    ASSUME NEW f \in 1..5
    PROVE  /\ OwnLed[f] \in Leds
           /\ \A led \in Leds : led = OwnLed[f] \/ \E i \in 1..3 : OtherLeds[f][i] = led
           /\ \A i \in 1..3 : OtherLeds[f][i] \in Leds /\ OtherLeds[f][i] # OwnLed[f]
<1>1. f = 1 \/ f = 2 \/ f = 3 \/ f = 4 \/ f = 5
  OBVIOUS
<1>. QED BY <1>1 DEF OwnLed, OtherLeds, Leds

----------------------------------------------------------------------------
(* The instructions of a thread. *)

\* New values in registers.
LEMMA RegistersChange ==
    ASSUME NEW c \in Core, NEW t \in Thread, NEW g \in Context, Here(c, t, g),
           NEW regs \in [Reg -> Word], NEW d, d = [c EXCEPT !.regs = regs],
           NEW h, h = [regs |-> regs, words |-> g.words]
    PROVE  d \in Core /\ h \in Context /\ Here(d, t, h) /\ OnlyOf(t, c, d)
<1>1. d \in Core
  BY DEF Core
<1>2. d.regs = regs /\ d.stack = c.stack /\ d.sp = c.sp /\ d.psp = c.psp
  BY DEF Core
<1>3. h \in Context /\ h.regs = regs /\ h.words = g.words
  BY DEF Context
<1>4. Here(d, t, h)
  BY <1>2, <1>3 DEF Here, Below
<1>. QED BY <1>1, <1>2, <1>3, <1>4 DEF OnlyOf

\* Words pushed by a function.
Grown(c, d, t, g, regs, m) ==
    /\ d \in Core /\ OnlyOf(t, c, d)
    /\ \E h \in Context : /\ Here(d, t, h) /\ h.regs = regs
                          /\ Len(h.words) = Len(g.words) + m

\* A prologue that pushes m words, whatever they are.
LEMMA WordsPushed ==
    ASSUME NEW c \in Core, NEW t \in Thread, NEW g \in Context, Here(c, t, g),
           NEW regs \in [Reg -> Word], NEW x \in Word, NEW m \in Nat,
           NEW d, d = [c EXCEPT !.stack[t] = SubSeq(@, 1, c.psp.used) \o [i \in 1..m |-> x],
                                !.psp.used = @ + m,
                                !.regs = regs]
    PROVE  Grown(c, d, t, g, regs, m)
<1> DEFINE n == Len(g.words)
           a == SubSeq(c.stack[t], 1, n)
           b == [i \in 1..m |-> x]
           w == a \o b
           h == [regs |-> regs, words |-> w]
<1>1. /\ c.regs \in [Reg -> Word] /\ c.psp \in Pointers
      /\ c.stack \in [Thread -> Seq(Word)] /\ c.sp \in [Thread -> Pointers]
  BY DEF Core
<1>2. n \in Nat /\ n <= Len(c.stack[t]) /\ c.psp.of = t /\ c.psp.used = n
  BY DEF Here, Below, Pointer, Context
<1>3. a \in Seq(Word) /\ Len(a) = n
  BY <1>1, <1>2, TopWords
<1>4. b \in Seq(Word) /\ Len(b) = m
  OBVIOUS
<1>5. d = [c EXCEPT !.stack[t] = w, !.psp.used = @ + m, !.regs = regs]
  BY <1>2
<1> HIDE DEF a, b, n
<1>6. Joins(w, a, b, Word)
  BY <1>2, <1>3, <1>4, Joined, Zenon
<1>7. w \in Seq(Word) /\ Len(w) = n + m
  BY <1>3, <1>4, <1>6 DEF Joins
<1> HIDE DEF w
<1>8. d \in Core
  <2>1. c.psp.used + m \in Nat
    BY <1>2
  <2>2. [c.stack EXCEPT ![t] = w] \in [Thread -> Seq(Word)]
    BY <1>1, <1>7
  <2>3. [c EXCEPT !.stack = [c.stack EXCEPT ![t] = w], !.psp.used = @ + m, !.regs = regs] \in Core
    BY <2>1, <2>2 DEF Core, Pointers
  <2>4. d = [c EXCEPT !.stack = [c.stack EXCEPT ![t] = w], !.psp.used = @ + m, !.regs = regs]
    BY <1>5 DEF Core
  <2>. QED BY <2>3, <2>4
<1>9. /\ d.regs = regs /\ d.sp = c.sp
      /\ d.stack = [c.stack EXCEPT ![t] = w]
      /\ d.psp = Pointer(t, n + m)
  <2>1. d.regs = regs /\ d.sp = c.sp
    BY <1>5 DEF Core
  <2>2. d.stack = [c.stack EXCEPT ![t] = w]
    BY <1>5 DEF Core
  <2>3. d.psp = Pointer(t, n + m)
    BY <1>2, <1>5 DEF Core, Pointers, Pointer
  <2>. QED BY <2>1, <2>2, <2>3
<1>10. h \in Context /\ h.regs = regs /\ h.words = w /\ Len(h.words) = n + m
  BY <1>7 DEF Context
<1> HIDE DEF h
<1>11. d.stack[t] = w
  BY <1>1, <1>9
<1>12. Below(d.stack[t], h)
  BY <1>2, <1>7, <1>10, <1>11 DEF Below
<1>13. Here(d, t, h)
  BY <1>9, <1>10, <1>12 DEF Here
<1>14. OnlyOf(t, c, d)
  BY <1>1, <1>9 DEF OnlyOf
<1>. QED BY <1>8, <1>10, <1>13, <1>14 DEF Grown, n

\* The registers after an instruction hold words.
LEMMA AfterIsRegisters ==
    ASSUME CoreTypeOK, NEW t \in Thread, NEW n \in 1..8, NEW used
    PROVE  /\ After(t, n, used) \in [Reg -> Word]
           /\ After(t, n, used)["PC"] = Pc(t, n + 1)
           /\ "R0" \notin used => After(t, n, used)["R0"] = core.regs["R0"]
<1>1. core.regs \in [Reg -> Word]
  BY DEF CoreTypeOK
<1>2. "PC" \in Reg /\ "R0" \in Reg
  BY AllRegisters
<1>3. n + 1 \in 1..9
  OBVIOUS
<1>4. Pc(t, n + 1) \in Word
  BY <1>3 DEF Word
<1>5. \A r \in Reg : <<"own", t, r>> \in Word
  BY DEF Word
<1>6. After(t, n, used) \in [Reg -> Word]
  BY <1>1, <1>4, <1>5 DEF After
<1>. QED BY <1>2, <1>6 DEF After

\* Context h is what the n-th instruction of its function makes of the context g of
\* thread t.
Moved(t, n, g, h) ==
    /\ g.regs["PC"] = Pc(t, n)
    /\ h.regs["PC"] = Pc(t, IF n = 8 THEN 2 ELSE n + 1)
    /\ Len(h.words) = IF n = 1 THEN Len(g.words) + FrameWords ELSE Len(g.words)
    /\ n = 6 => h.regs["R0"] = Argument(Delay)
    /\ n = 7 => h.regs["R0"] = g.regs["R0"]

\* The thread that executes is where Place says, and no other.
LEMMA WhoExecutes ==
    ASSUME CoreTypeOK, NEW t \in Thread, NEW n, NEW i, Executes(t, n, i),
           NEW g \in Context, Holds(core, Place(t), t, g)
    PROVE  /\ cpu = t /\ ThreadMode /\ Code[t][n] = i
           /\ Here(core, t, g) /\ g.regs["PC"] = Pc(t, n)
<1>1. cpu = t /\ ThreadMode /\ core.regs["PC"] = Pc(t, n) /\ Code[t][n] = i
  BY DEF Executes
<1>2. Place(t) = "here"
  BY <1>1 DEF Place
<1>3. Here(core, t, g)
  BY <1>2 DEF Holds
<1>4. core.regs["PC"] = g.regs["PC"]
  BY <1>3, AllRegisters DEF Here
<1>. QED BY <1>1, <1>3, <1>4

\* An instruction that raises no call changes where nobody's context is.
LEMMA PlacesStay ==
    ASSUME UNCHANGED vars, NEW t \in Thread
    PROVE  Place(t)' = Place(t)
BY DEF vars, kernelVars, Place, ThreadMode

\* What others have saved stays.
LEMMA OthersStay ==
    ASSUME NEW t \in Thread, cpu = t, cpu' = t, OnlyOf(t, core, core'),
           NEW u \in Thread \ {t}, NEW g, Holds(core, Place(u), u, g)
    PROVE  Holds(core', Place(u)', u, g)
<1>1. Place(u) = "away" /\ Place(u)' = "away"
  BY DEF Place
<1>2. Saved(core, u, g)
  BY <1>1 DEF Holds
<1>3. Saved(core', u, g)
  BY <1>2, SavedStays
<1>. QED BY <1>1, <1>3 DEF Holds

\* Instructions by their place in the function.
LEMMA OpOf == \A op, led : Do(op, led).op = op
BY DEF Do

\* Likewise their LEDs.
LEMMA LedOf == \A op, led : Do(op, led).led = led
BY DEF Do

\* There is one instruction of each kind, but for the three that put LEDs out.
LEMMA WhichInstruction ==
    ASSUME NEW t \in Thread \ {Idle}, NEW n \in 1..Len(Code[t])
    PROVE  /\ n \in 1..8
           /\ Code[t][n].op = "ENTER" => n = 1
           /\ Code[t][n].op = "SET" => n = 2
           /\ Code[t][n].op = "RESET" => n \in 3..5
           /\ Code[t][n].op = "ARGUMENT" => n = 6
           /\ Code[t][n].op = "OS_DELAY" => n = 7
           /\ Code[t][n].op = "JUMP" => n = 8
<1>1. n \in 1..8
  BY CodeShape
<1>2. /\ Code[t][1].op = "ENTER" /\ Code[t][2].op = "SET"
      /\ Code[t][6].op = "ARGUMENT" /\ Code[t][7].op = "OS_DELAY" /\ Code[t][8].op = "JUMP"
  BY CodeShape, OpOf
<1>3. \A i \in 1..3 : Code[t][i + 2].op = "RESET"
  BY CodeShape, OpOf
<1>4. Code[t][3].op = "RESET" /\ Code[t][4].op = "RESET" /\ Code[t][5].op = "RESET"
  <2>1. Code[t][1 + 2].op = "RESET" /\ Code[t][2 + 2].op = "RESET" /\ Code[t][3 + 2].op = "RESET"
    BY <1>3
  <2>. QED BY <2>1
<1>5. n = 1 \/ n = 2 \/ n = 3 \/ n = 4 \/ n = 5 \/ n = 6 \/ n = 7 \/ n = 8
  BY <1>1
<1>6. Code[t][n].op = "ENTER" => n = 1
  BY <1>2, <1>4, <1>5
<1>7. Code[t][n].op = "SET" => n = 2
  BY <1>2, <1>4, <1>5
<1>8. Code[t][n].op = "RESET" => n \in 3..5
  BY <1>2, <1>5
<1>9. Code[t][n].op = "ARGUMENT" => n = 6
  BY <1>2, <1>4, <1>5
<1>10. Code[t][n].op = "OS_DELAY" => n = 7
  BY <1>2, <1>4, <1>5
<1>11. Code[t][n].op = "JUMP" => n = 8
  BY <1>2, <1>4, <1>5
<1>. QED BY <1>1, <1>6, <1>7, <1>8, <1>9, <1>10, <1>11

\* Each instruction of a thread moves its own context on and leaves the others.
LEMMA InstructionKeeps ==
    ASSUME FramesHeld, NEW t \in Thread \ {Idle}, NEW n \in 1..Len(Code[t]),
           Enter(t, n) \/ WritePin(t, n) \/ PassDelay(t, n) \/ CallDelay(t, n) \/ LoopBack(t, n),
           NEW g \in Context, Holds(core, Place(t), t, g)
    PROVE  /\ core' \in Core /\ cpu = t /\ cpu' = t /\ OnlyOf(t, core, core')
           /\ \E h \in Context : Holds(core', Place(t)', t, h) /\ Moved(t, n, g, h)
<1>1. core \in Core /\ CoreTypeOK /\ n \in 1..8 /\ "R0" \in Reg /\ "PC" \in Reg
  BY WhichInstruction, AllRegisters DEF FramesHeld, CoreTypeOK, Core
<1>2. ASSUME UNCHANGED vars, cpu = t, ThreadMode
      PROVE  cpu' = t /\ Place(t)' = "here"
  <2>1. Place(t) = "here" /\ cpu' = cpu
    BY <1>2 DEF Place, vars, kernelVars
  <2>. QED BY <1>2, <2>1, PlacesStay
<1>3. CASE Enter(t, n)
  <2> DEFINE regs == After(t, n, DOMAIN SwOffset)
  <2>1. /\ cpu = t /\ ThreadMode /\ Code[t][n] = Do("ENTER", "none")
        /\ Here(core, t, g) /\ g.regs["PC"] = Pc(t, n)
    BY <1>1, <1>3, WhoExecutes DEF Enter
  <2>2. n = 1
    BY <2>1, WhichInstruction DEF Do
  <2>3. regs \in [Reg -> Word] /\ regs["PC"] = Pc(t, n + 1)
    BY <1>1, AfterIsRegisters
  <2>4. core' = [core EXCEPT
                  !.stack[t] = SubSeq(@, 1, core.psp.used) \o [i \in 1..FrameWords |-> <<"own", t, "SP">>],
                  !.psp.used = @ + FrameWords,
                  !.regs = regs]
        /\ UNCHANGED vars
    BY <1>3 DEF Enter
  <2> HIDE DEF regs
  <2>5. <<"own", t, "SP">> \in Word /\ FrameWords \in Nat
    BY AppAssumption DEF Word
  <2>6. Grown(core, core', t, g, regs, FrameWords)
    <3>1. PICK x \in Word : x = <<"own", t, "SP">>
      BY <2>5
    <3>2. core' = [core EXCEPT
                    !.stack[t] = SubSeq(@, 1, core.psp.used) \o [i \in 1..FrameWords |-> x],
                    !.psp.used = @ + FrameWords,
                    !.regs = regs]
      BY <2>4, <3>1
    <3>3. t \in Thread /\ FrameWords \in Nat
      BY <2>5
    <3>4. core \in Core /\ g \in Context /\ Here(core, t, g) /\ regs \in [Reg -> Word]
      BY <1>1, <2>1, <2>3
    <3>. QED BY <3>1, <3>2, <3>3, <3>4, WordsPushed
  <2>7. cpu' = t /\ Place(t)' = "here"
    BY <1>2, <2>1, <2>4
  <2>8. PICK h \in Context : /\ Here(core', t, h) /\ h.regs = regs
                             /\ Len(h.words) = Len(g.words) + FrameWords
    BY <2>6 DEF Grown
  <2>9. Moved(t, n, g, h)
    BY <2>1, <2>2, <2>3, <2>8 DEF Moved
  <2>10. Holds(core', Place(t)', t, h)
    BY <2>7, <2>8 DEF Holds
  <2>. QED BY <2>1, <2>6, <2>7, <2>9, <2>10 DEF Grown
<1>4. ASSUME NEW regs \in [Reg -> Word], NEW i, Executes(t, n, i),
             core' = [core EXCEPT !.regs = regs], UNCHANGED vars,
             NEW h, h = [regs |-> regs, words |-> g.words]
      PROVE  /\ core' \in Core /\ cpu = t /\ cpu' = t /\ OnlyOf(t, core, core')
             /\ h \in Context /\ Holds(core', Place(t)', t, h)
             /\ Code[t][n] = i /\ g.regs["PC"] = Pc(t, n) /\ Here(core, t, g)
  <2>1. /\ cpu = t /\ ThreadMode /\ Code[t][n] = i
        /\ Here(core, t, g) /\ g.regs["PC"] = Pc(t, n)
    BY <1>1, <1>4, WhoExecutes
  <2>2. core' \in Core /\ h \in Context /\ Here(core', t, h) /\ OnlyOf(t, core, core')
    BY <1>1, <1>4, <2>1, RegistersChange
  <2>3. cpu' = t /\ Place(t)' = "here"
    BY <1>2, <1>4, <2>1
  <2>4. Holds(core', Place(t)', t, h)
    BY <2>2, <2>3 DEF Holds
  <2>. QED BY <2>1, <2>2, <2>3, <2>4
<1>5. CASE WritePin(t, n)
  <2> DEFINE regs == After(t, n, DOMAIN HwOffset \ {"xPSR"})
             h == [regs |-> regs, words |-> g.words]
  <2>1. regs \in [Reg -> Word] /\ regs["PC"] = Pc(t, n + 1)
    BY <1>1, AfterIsRegisters
  <2>2. core' = [core EXCEPT !.regs = regs] /\ UNCHANGED vars
    BY <1>5 DEF WritePin
  <2>3. PICK led \in Leds : Executes(t, n, Do("SET", led)) \/ Executes(t, n, Do("RESET", led))
    BY <1>5 DEF WritePin
  <2>4. PICK i : Executes(t, n, i) /\ i.op \in {"SET", "RESET"}
    BY <2>3 DEF Do
  <2> HIDE DEF regs
  <2>5. /\ core' \in Core /\ cpu = t /\ cpu' = t /\ OnlyOf(t, core, core')
        /\ h \in Context /\ Holds(core', Place(t)', t, h)
        /\ Code[t][n] = i /\ g.regs["PC"] = Pc(t, n) /\ Here(core, t, g)
    BY <1>4, <2>1, <2>2, <2>4
  <2>6. n \in 2..5
    BY <2>4, <2>5, WhichInstruction
  <2>7. Moved(t, n, g, h)
    BY <2>1, <2>5, <2>6 DEF Moved
  <2>. QED BY <2>5, <2>7
<1>6. CASE PassDelay(t, n)
  <2> DEFINE after == After(t, n, {})
             regs == [after EXCEPT !["R0"] = Argument(Delay)]
             h == [regs |-> regs, words |-> g.words]
             i == Do("ARGUMENT", "none")
  <2>1. after \in [Reg -> Word] /\ after["PC"] = Pc(t, n + 1)
    BY <1>1, AfterIsRegisters
  <2>2. core' = [core EXCEPT !.regs = regs] /\ UNCHANGED vars /\ Executes(t, n, i)
    BY <1>6 DEF PassDelay
  <2> HIDE DEF after
  <2>3. Argument(Delay) \in Word
    BY AppAssumption DEF Word
  <2>4. regs \in [Reg -> Word] /\ regs["PC"] = Pc(t, n + 1) /\ regs["R0"] = Argument(Delay)
    BY <1>1, <2>1, <2>3
  <2> HIDE DEF regs
  <2>5. /\ core' \in Core /\ cpu = t /\ cpu' = t /\ OnlyOf(t, core, core')
        /\ h \in Context /\ Holds(core', Place(t)', t, h)
        /\ Code[t][n] = i /\ g.regs["PC"] = Pc(t, n) /\ Here(core, t, g)
    BY <1>4, <2>2, <2>4
  <2>6. n = 6
    BY <2>5, WhichInstruction DEF Do
  <2>7. Moved(t, n, g, h)
    BY <2>4, <2>5, <2>6 DEF Moved
  <2>. QED BY <2>5, <2>7
<1>7. CASE CallDelay(t, n)
  <2> DEFINE regs == After(t, n, {})
             d == [core EXCEPT !.regs = regs]
             h == [regs |-> regs, words |-> g.words]
             i == Do("OS_DELAY", "none")
  <2>1. /\ regs \in [Reg -> Word] /\ regs["PC"] = Pc(t, n + 1)
        /\ regs["R0"] = core.regs["R0"]
    BY <1>1, AfterIsRegisters
  <2>2. core' = Entered(d) /\ Executes(t, n, i) /\ Raise([op |-> "OS_DELAY", arg |-> Delay])
    BY <1>7 DEF CallDelay
  <2>3. /\ cpu = t /\ ThreadMode /\ Code[t][n] = i
        /\ Here(core, t, g) /\ g.regs["PC"] = Pc(t, n)
    BY <1>1, <2>2, WhoExecutes
  <2> HIDE DEF regs
  <2>4. d \in Core /\ h \in Context /\ Here(d, t, h) /\ OnlyOf(t, core, d)
    BY <1>1, <2>1, <2>3, RegistersChange
  <2>5. cpu' = cpu /\ ~ThreadMode'
    BY <2>2 DEF Raise, kernelVars, ThreadMode, NoCall
  <2>6. cpu # Main
    BY <2>3, KernelAssumption
  <2> HIDE DEF d
  <2>7. core' = Stacked(d)
    BY <2>2, <2>3, <2>5, <2>6 DEF Entered
  <2>8. core' \in Core /\ Interrupted(core', t, h) /\ OnlyOf(t, d, core')
    BY <2>4, <2>7, EntryKeeps
  <2>9. Place(t)' = "served"
    BY <2>3, <2>5 DEF Place
  <2>10. Holds(core', Place(t)', t, h)
    BY <2>8, <2>9 DEF Holds
  <2>11. OnlyOf(t, core, core')
    BY <2>4, <2>8 DEF OnlyOf
  <2>12. n = 7
    BY <2>3, WhichInstruction DEF Do
  <2>13. core.regs["R0"] = g.regs["R0"]
    BY <1>1, <2>3 DEF Here
  <2>14. Moved(t, n, g, h)
    BY <2>1, <2>3, <2>12, <2>13 DEF Moved
  <2>. QED BY <2>3, <2>4, <2>5, <2>8, <2>10, <2>11, <2>14
<1>8. CASE LoopBack(t, n)
  <2> DEFINE regs == [core.regs EXCEPT !["PC"] = Pc(t, 2)]
             h == [regs |-> regs, words |-> g.words]
             i == Do("JUMP", "none")
  <2>1. regs \in [Reg -> Word] /\ regs["PC"] = Pc(t, 2)
    <3>1. Pc(t, 2) \in Word
      BY DEF Word
    <3>2. core.regs \in [Reg -> Word]
      BY <1>1 DEF CoreTypeOK
    <3>. QED BY <1>1, <3>1, <3>2
  <2>2. core' = [core EXCEPT !.regs = regs] /\ UNCHANGED vars /\ Executes(t, n, i)
    BY <1>8 DEF LoopBack
  <2> HIDE DEF regs
  <2>3. /\ core' \in Core /\ cpu = t /\ cpu' = t /\ OnlyOf(t, core, core')
        /\ h \in Context /\ Holds(core', Place(t)', t, h)
        /\ Code[t][n] = i /\ g.regs["PC"] = Pc(t, n) /\ Here(core, t, g)
    BY <1>4, <2>1, <2>2
  <2>4. n = 8
    BY <2>3, WhichInstruction DEF Do
  <2>5. Moved(t, n, g, h)
    BY <2>1, <2>3, <2>4 DEF Moved
  <2>. QED BY <2>3, <2>5
<1>. QED BY <1>3, <1>5, <1>6, <1>7, <1>8

----------------------------------------------------------------------------
(* The steps of the example. *)

\* xrt_app_init creates each of its threads.
LEMMA NextCreated ==
    ASSUME IInv, CreateNext
    PROVE  \E t \in Thread : Create(t) /\ UNCHANGED lit
<1> DEFINE k == Cardinality(Created)
<1>1. IsFiniteSet(Thread)
  <2>1. AppThreads \in Seq(Thread) /\ Len(AppThreads) \in Nat
    BY AppAssumption
  <2>2. IsFiniteSet(1..Len(AppThreads))
    BY <2>1, FS_Interval
  <2>3. AppThreads \in Surjection(1..Len(AppThreads), ToSet(AppThreads))
    BY <2>1 DEF Surjection, ToSet
  <2>4. IsFiniteSet(ToSet(AppThreads))
    BY <2>2, <2>3, FS_Surjection
  <2>5. Thread = ToSet(AppThreads) \cup {Idle}
    BY AppAssumption, KernelAssumption
  <2>. QED BY <2>4, <2>5, FS_AddElement
<1>2. IsFiniteSet(Created) /\ Idle \in Created
  <2>1. Created \subseteq Thread
    BY DEF Created
  <2>2. Idle \in Created
    BY KernelAssumption DEF Created, IInv, IdleRunnable, NoList
  <2>. QED BY <1>1, <2>1, <2>2, FS_Subset
<1>3. k \in Nat /\ k # 0
  BY <1>2, FS_CardinalityType, FS_EmptySet
<1>4. k <= Len(AppThreads) /\ Create(AppThreads[k]) /\ UNCHANGED lit
  BY DEF CreateNext
<1> HIDE DEF k
<1>5. AppThreads[k] \in Thread
  BY <1>3, <1>4, AppAssumption
<1>. QED BY <1>4, <1>5

\* What main and the handlers do is the kernel's.
LEMMA KernelIsNext ==
    ASSUME Kernel
    PROVE  Next
<1>1. KernelStep \/ Dispatch
  BY DEF Kernel, Handle, FirstSwitch, Switch, KernelStep, SwitchStep
<1>. QED BY <1>1 DEF Next

\* Every step of the example is one the kernel's specification allows.
LEMMA AppStepIsNext ==
    ASSUME IInv, [AppNext]_appVars
    PROVE  [Next]_vars
<1>1. CASE CreateNext
  <2>1. PICK t \in Thread : Create(t)
    BY <1>1, NextCreated
  <2>2. KernelStep
    BY <2>1 DEF Create, KernelStep
  <2>. QED BY <2>2 DEF Next
<1>2. CASE Kernel
  BY <1>2, KernelIsNext
<1>3. CASE \E t \in Thread \ {Idle} : Instruction(t)
  <2>0. PICK t \in Thread \ {Idle} : Instruction(t)
    BY <1>3
  <2>1. PICK n \in 1..Len(Code[t]) :
           Enter(t, n) \/ WritePin(t, n) \/ PassDelay(t, n) \/ CallDelay(t, n) \/ LoopBack(t, n)
    BY <2>0 DEF Instruction
  <2>2. CASE CallDelay(t, n)
    <3>1. Raise([op |-> "OS_DELAY", arg |-> Delay])
      BY <2>2 DEF CallDelay
    <3>2. [op |-> "OS_DELAY", arg |-> Delay] \in Calls
      BY AppAssumption DEF Calls
    <3>. QED BY <3>1, <3>2 DEF Next
  <2>. QED BY <2>1, <2>2 DEF Enter, WritePin, PassDelay, LoopBack
<1>4. CASE UNCHANGED appVars
  BY <1>4 DEF appVars
<1>. QED BY <1>1, <1>2, <1>3, <1>4 DEF AppNext

\* Where a thread goes on, and whether it is in its function, are matters of its
\* context.
InFunction(t, g) ==
    \E n \in 1..Len(Code[t]) :
       /\ g.regs["PC"] = Pc(t, n)
       /\ Len(g.words) = IF n = 1 THEN 0 ELSE FrameWords
       /\ Code[t][n].op \in {"OS_DELAY", "JUMP"} => g.regs["R0"] = Argument(Delay)

\* What InItsFunction and GoesOnAt say of a context, now ...
LEMMA InFunctionNow ==
    ASSUME CoreTypeOK, NEW t \in Thread, FramesOn(t)
    PROVE  /\ InItsFunction(t) <=> InFunction(t, ContextOf(t))
           /\ \A n : GoesOnAt(t, n) <=> ContextOf(t).regs["PC"] = Pc(t, n)
<1>1. "PC" \in Reg /\ "R0" \in Reg
  BY AllRegisters
<1>. QED BY <1>1, ContextHeld DEF InItsFunction, InFunction, GoesOnAt

\* ... and after a step.
LEMMA InFunctionNext ==
    ASSUME core' \in Core, NEW t \in Thread, NEW g \in Context, Holds(core', Place(t)', t, g)
    PROVE  /\ InItsFunction(t)' <=> InFunction(t, g)
           /\ \A n : GoesOnAt(t, n)' <=> g.regs["PC"] = Pc(t, n)
<1>1. "PC" \in Reg /\ "R0" \in Reg
  BY AllRegisters
<1>2. /\ Depth(t)' = Len(g.words)
      /\ RegisterOf(t, "PC")' = g.regs["PC"] /\ RegisterOf(t, "R0")' = g.regs["R0"]
  BY <1>1, ContextHeldPrime
<1>. QED BY <1>2 DEF InItsFunction, InFunction, GoesOnAt

\* A thread whose context stays goes on as before.
LEMMA ThreadKept ==
    ASSUME CoreTypeOK, core' \in Core, NEW t \in Thread, FramesOn(t),
           \A g \in Context : Holds(core, Place(t), t, g) => Holds(core', Place(t)', t, g)
    PROVE  /\ FramesOn(t)' /\ ContextOf(t)' = ContextOf(t)
           /\ InItsFunction(t) => InItsFunction(t)'
           /\ \A n : GoesOnAt(t, n)' <=> GoesOnAt(t, n)
<1>1. ContextOf(t) \in Context /\ Holds(core, Place(t), t, ContextOf(t))
  BY ContextHeld
<1>2. PICK g \in Context : g = ContextOf(t) /\ Holds(core', Place(t)', t, g)
  BY <1>1
<1>3. FramesOn(t)' /\ ContextOf(t)' = g
  BY <1>2, ContextHeldPrime
<1>4. /\ InItsFunction(t) <=> InFunction(t, g)
      /\ \A n : GoesOnAt(t, n) <=> g.regs["PC"] = Pc(t, n)
  BY <1>2, InFunctionNow
<1>5. /\ InItsFunction(t)' <=> InFunction(t, g)
      /\ \A n : GoesOnAt(t, n)' <=> g.regs["PC"] = Pc(t, n)
  BY <1>2, InFunctionNext
<1>. QED BY <1>2, <1>3, <1>4, <1>5

\* A thread that stays where it is has the same LEDs to put out.
LEMMA StillPutsOutStays ==
    ASSUME NEW t \in Thread, t \in Created => t \in Created',
           \A n : GoesOnAt(t, n)' <=> GoesOnAt(t, n), NEW led, StillPutsOut(t, led)
    PROVE  StillPutsOut(t, led)'
BY DEF StillPutsOut

\* A thread is at one place only.
LEMMA OnePlace ==
    ASSUME NEW t, NEW n, NEW m, GoesOnAt(t, n), GoesOnAt(t, m)
    PROVE  n = m
BY DEF GoesOnAt, Pc

\* A thread comes in at the first instruction of its function.
LEMMA CreateKeepsApp ==
    ASSUME AppIInv, IInv', NEW t \in Thread, Create(t), UNCHANGED lit
    PROVE  AppIInv' /\ \A u \in Created : ContextOf(u)' = ContextOf(u)
<1>1. FramesHeld /\ CoreTypeOK /\ \A u \in Created : InItsFunction(u)
  BY DEF AppIInv, FramesHeld
<1>2. /\ core' \in Core
      /\ Created' = Created \cup {t} /\ t \notin Created
      /\ \A u \in Thread \ {t} : \A g \in Context :
            Holds(core, Place(u), u, g) => Holds(core', Place(u)', u, g)
  BY <1>1, CreateKeepsContexts
<1>3. PICK g \in Context : /\ g.words = <<>> /\ g.regs["PC"] = Pc(t, 1)
                           /\ Holds(core', Place(t)', t, g)
  BY <1>1, CreateKeepsContexts
<1>4. \A u \in Created : /\ u \in Thread \ {t} /\ FramesOn(u)
                         /\ u \in Created'
  BY <1>1, <1>2 DEF FramesHeld, Created
<1>5. ASSUME NEW u \in Created
      PROVE  /\ FramesOn(u)' /\ InItsFunction(u)' /\ ContextOf(u)' = ContextOf(u)
             /\ \A n : GoesOnAt(u, n)' <=> GoesOnAt(u, n)
  BY <1>1, <1>2, <1>4, ThreadKept
<1>6. FramesOn(t)' /\ InItsFunction(t)'
  <2>1. FramesOn(t)'
    BY <1>2, <1>3, ContextHeldPrime
  <2>2. 1 \in 1..Len(Code[t]) /\ Code[t][1].op \in {"LOOP", "ENTER"}
    <3>1. CASE t = Idle
      BY <3>1, CodeShape, OpOf
    <3>2. CASE t # Idle
      BY <3>2, CodeShape, OpOf
    <3>. QED BY <3>1, <3>2
  <2>3. InFunction(t, g)
    BY <1>3, <2>2 DEF InFunction
  <2>4. InItsFunction(t)'
    BY <1>2, <1>3, <2>3, InFunctionNext
  <2>. QED BY <2>1, <2>4
<1>7. \A u \in Created' : FramesOn(u)' /\ InItsFunction(u)'
  BY <1>2, <1>5, <1>6
<1>8. CallMade'
  <2>1. svc' = NoCall
    BY <1>1, BeforeStart DEF FramesHeld, Create, ThreadCreate
  <2>. QED BY <2>1 DEF CallMade, NoCall
<1>9. LastStays'
  <2>1. PICK last \in Leds : \A led \in lit \ {last} : \E u \in Thread : StillPutsOut(u, led)
    BY DEF AppIInv, LastStays
  <2>2. ASSUME NEW led, NEW u \in Thread, StillPutsOut(u, led)
        PROVE  StillPutsOut(u, led)'
    <3>1. u \in Created
      BY <2>2 DEF StillPutsOut
    <3>. QED BY <1>4, <1>5, <2>2, <3>1, StillPutsOutStays
  <2>3. lit' = lit /\ lit \subseteq Leds
    BY DEF AppIInv, LastStays
  <2>4. \A led \in lit' \ {last} : \E u \in Thread : StillPutsOut(u, led)'
    BY <2>1, <2>2, <2>3
  <2>. QED BY <2>3, <2>4 DEF LastStays
<1>10. CoreTypeOK'
  BY <1>2 DEF CoreTypeOK, Core
<1>. QED BY <1>5, <1>7, <1>8, <1>9, <1>10 DEF AppIInv

\* A thread that was created stays in some list.
LEMMA NobodyVanishes ==
    ASSUME IInv, Next
    PROVE  Created \subseteq Created'
<1>. SUFFICES ASSUME NEW u \in Thread, loc[u] # NoList PROVE loc'[u] # NoList
  BY DEF Created
<1>0. /\ loc \in [Thread -> ListName \cup {NoList}] /\ svc \in Calls \cup {NoCall}
      /\ {"ready", "running", "stopped"} \subseteq ListName
      /\ Semaphore \subseteq ListName /\ Mutex \subseteq ListName
      /\ NoList \notin ListName
  BY KernelLists DEF IInv, TypeOK, KernelTypeOK
<1>1. ASSUME \E t, l \in ListName : loc' = [loc EXCEPT ![t] = l] PROVE loc'[u] # NoList
  BY <1>0, <1>1
<1>2. ASSUME NEW ls, NEW t, NEW pr, WakeThread(ls, t, pr) PROVE loc'[u] # NoList
  <2>1. loc' = [loc EXCEPT ![t] = "ready"]
    BY <1>2 DEF WakeThread
  <2>. QED BY <1>0, <2>1
<1>3. ASSUME NEW t, NEW l \in ListName, NEW why, BlockThread(t, l, why) PROVE loc'[u] # NoList
  <2>1. loc' = [loc EXCEPT ![t] = l]
    BY <1>3 DEF BlockThread
  <2>. QED BY <1>0, <2>1
<1>4. ASSUME NEW s, SignalLocked(s, value) PROVE loc'[u] # NoList
  BY <1>2, <1>4 DEF SignalLocked, placement
<1>5. CASE KernelStep
  <2>1. CASE \E t \in Thread : ThreadCreate(t)
    <3>1. PICK t \in Thread : loc' = [loc EXCEPT ![t] = "ready"]
      BY <2>1 DEF ThreadCreate
    <3>. QED BY <1>0, <3>1
  <2>2. CASE StartPick
    <3>1. loc' = [loc EXCEPT ![Head(lists["ready"])] = "running"]
      BY <2>2 DEF StartPick
    <3>. QED BY <1>0, <3>1
  <2>3. CASE TickVisit
    <3>1. loc' = loc \/ loc' = [loc EXCEPT ![Head(scan)] = "ready"]
      BY <2>3 DEF TickVisit, placement
    <3>. QED BY <1>0, <3>1
  <2>4. CASE PendSVSwitch
    <3>1. CASE KeepsCpu
      BY <2>4, <3>1 DEF PendSVSwitch, Schedule
    <3>2. CASE ~KeepsCpu
      <4> DEFINE dst == IF state[Running] = "BLOCKED" THEN loc[Running] ELSE "ready"
      <4>1. loc' = [loc EXCEPT ![Running] = dst, ![Head(lists["ready"])] = "running"]
        BY <2>4, <3>2 DEF PendSVSwitch, Schedule
      <4>2. loc'[u] = IF u = Head(lists["ready"]) THEN "running"
                      ELSE IF u = Running THEN dst ELSE loc[u]
        BY <1>0, <4>1
      <4>. QED BY <1>0, <4>2
    <3>. QED BY <3>1, <3>2
  <2>. QED BY <1>5, <2>1, <2>2, <2>3, <2>4
       DEF KernelStep, StartStep, StartArmFirstSwitch, StartGo, StartRequestSwitch, TickBegin,
           TickEnd, PendSVEnter, SwitchStep, PendSVFirst, placement
<1>6. CASE Dispatch
  <2>1. CASE LockCall(Running)
    <3>1. svc.arg \in ListName
      BY <1>0, <2>1 DEF LockCall, Calls, NoCall
    <3>2. \/ UNCHANGED loc
          \/ BlockThread(Running, svc.arg, "BLOCK_MUTEX")
      BY <2>1 DEF LockCall, MutexLockFromSvc, placement
    <3>. QED BY <1>3, <3>1, <3>2
  <2>2. CASE UnlockCall(Running)
    BY <1>2, <2>2 DEF UnlockCall, MutexUnlockFromSvc, HandOver, placement
  <2>3. CASE TakeCall(Running)
    <3>1. svc.arg \in ListName
      BY <1>0, <2>3 DEF TakeCall, Calls, NoCall
    <3>2. \/ UNCHANGED loc
          \/ BlockThread(Running, svc.arg, "BLOCK_SEMAPHORE")
      BY <2>3 DEF TakeCall, TakeFromSvc, placement
    <3>. QED BY <1>3, <3>1, <3>2
  <2>4. CASE ReleaseCall
    BY <1>4, <2>4 DEF ReleaseCall
  <2>5. CASE YieldCall
    BY <2>5 DEF YieldCall, placement
  <2>6. CASE DelayCall(Running)
    <3>1. BlockThread(Running, "stopped", "OS_DELAY") /\ "stopped" \in ListName
      BY <1>0, <2>6 DEF DelayCall
    <3>. QED BY <1>3, <3>1
  <2>. QED BY <1>6, <2>1, <2>2, <2>3, <2>4, <2>5, <2>6 DEF Dispatch
<1>7. CASE \E c \in Calls : Raise(c)
  BY <1>7 DEF Raise, kernelVars
<1>8. CASE \E s \in IsrSemaphore : IsrRelease(s)
  BY <1>4, <1>8 DEF IsrRelease
<1>. QED BY <1>5, <1>6, <1>7, <1>8 DEF Next

\* A step of the kernel leaves every thread where it is.
LEMMA KernelKeepsApp ==
    ASSUME AppIInv, IInv', Kernel
    PROVE  AppIInv' /\ \A u \in Created : ContextOf(u)' = ContextOf(u)
<1>1. FramesHeld /\ CoreTypeOK /\ \A u \in Created : InItsFunction(u)
  BY DEF AppIInv, FramesHeld
<1>2. Created = Thread /\ Created' \subseteq Thread /\ UNCHANGED lit
  BY DEF Kernel, Created
<1>3. \A u \in Thread : \A g \in Context :
         Holds(core, Place(u), u, g) => core' \in Core /\ Holds(core', Place(u)', u, g)
  BY <1>1, KernelKeeps
<1>4. core' \in Core
  <2>1. FramesOn(Idle)
    BY <1>1, <1>2, KernelAssumption DEF FramesHeld
  <2>2. ContextOf(Idle) \in Context /\ Holds(core, Place(Idle), Idle, ContextOf(Idle))
    BY <1>1, <2>1, KernelAssumption, ContextHeld
  <2>. QED BY <1>3, <2>2, KernelAssumption
<1>5. ASSUME NEW u \in Thread
      PROVE  /\ FramesOn(u)' /\ InItsFunction(u)' /\ ContextOf(u)' = ContextOf(u)
             /\ \A n : GoesOnAt(u, n)' <=> GoesOnAt(u, n)
  <2>1. FramesOn(u) /\ InItsFunction(u)
    BY <1>1, <1>2 DEF FramesHeld
  <2>. QED BY <1>1, <1>3, <1>4, <2>1, ThreadKept
<1>6. \A u \in Created' : FramesOn(u)' /\ InItsFunction(u)'
  BY <1>2, <1>5
<1>7. CallMade'
  <2>1. CASE svc' = NoCall
    BY <2>1 DEF CallMade, NoCall
  <2>2. CASE svc' # NoCall
    <3>1. svc' = svc
      BY <2>2 DEF Kernel, Handle, FirstSwitch, Switch, Dispatch
    <3>2. ~switching /\ cpu \in Thread
      BY <1>1, <2>2, <3>1, CallerRuns DEF FramesHeld
    <3>3. cpu' = cpu
      BY <3>2 DEF Kernel, Handle, FirstSwitch, Switch, PendSVFirst, PendSVSwitch,
         StartStep, StartPick, StartArmFirstSwitch, StartGo, StartRequestSwitch,
         TickBegin, TickVisit, TickEnd, PendSVEnter, Dispatch
    <3>4. PICK u \in Thread : u = cpu
      BY <3>2
    <3>5. /\ svc = [op |-> "OS_DELAY", arg |-> Delay]
          /\ \E n \in 1..Len(Code[u]) : GoesOnAt(u, n) /\ Code[u][n].op = "JUMP"
      BY <2>2, <3>1, <3>4 DEF AppIInv, CallMade
    <3>6. \E n \in 1..Len(Code[u]) : GoesOnAt(u, n)' /\ Code[u][n].op = "JUMP"
      BY <1>5, <3>5
    <3>7. \E n \in 1..Len(Code[cpu']) : GoesOnAt(cpu, n)' /\ Code[cpu'][n].op = "JUMP"
      BY <3>3, <3>4, <3>6 DEF GoesOnAt, RegisterOf
    <3>. QED BY <3>1, <3>5, <3>7 DEF CallMade
  <2>. QED BY <2>1, <2>2
<1>8. LastStays'
  <2>1. PICK last \in Leds : \A led \in lit \ {last} : \E u \in Thread : StillPutsOut(u, led)
    BY DEF AppIInv, LastStays
  <2>2. Created' = Thread
    <3>1. Next
      BY <1>1, KernelIsNext DEF FramesHeld
    <3>2. Created \subseteq Created'
      BY <1>1, <3>1, NobodyVanishes DEF FramesHeld
    <3>. QED BY <1>2, <3>2
  <2>3. ASSUME NEW led, NEW u \in Thread, StillPutsOut(u, led)
        PROVE  StillPutsOut(u, led)'
    BY <1>5, <2>2, <2>3, StillPutsOutStays
  <2>4. lit' = lit /\ lit \subseteq Leds
    BY <1>2 DEF AppIInv, LastStays
  <2>5. \A led \in lit' \ {last} : \E u \in Thread : StillPutsOut(u, led)'
    BY <2>1, <2>3, <2>4
  <2>. QED BY <2>4, <2>5 DEF LastStays
<1>9. CoreTypeOK'
  BY <1>4 DEF CoreTypeOK, Core
<1>. QED BY <1>5, <1>6, <1>7, <1>8, <1>9 DEF AppIInv, Created

\* An instruction of thread t moves t on and leaves the others where they are.
LEMMA InstructionKeepsFrames ==
    ASSUME AppIInv, NEW t \in Thread \ {Idle}, NEW n \in 1..Len(Code[t]),
           Enter(t, n) \/ WritePin(t, n) \/ PassDelay(t, n) \/ CallDelay(t, n) \/ LoopBack(t, n)
    PROVE  /\ core' \in Core /\ cpu = t /\ cpu' = t /\ ThreadMode /\ t \in Created
           /\ Created' = Created /\ UNCHANGED <<kernelVars, primitives>>
           /\ GoesOnAt(t, n) /\ GoesOnAt(t, IF n = 8 THEN 2 ELSE n + 1)'
           /\ FramesOn(t)' /\ InItsFunction(t)'
           /\ \A u \in Created \ {t} :
                 /\ FramesOn(u)' /\ InItsFunction(u)' /\ ContextOf(u)' = ContextOf(u)
                 /\ \A k : GoesOnAt(u, k)' <=> GoesOnAt(u, k)
<1>1. FramesHeld /\ CoreTypeOK /\ \A u \in Created : FramesOn(u) /\ InItsFunction(u)
  BY DEF AppIInv, FramesHeld
<1>2. cpu = t /\ ThreadMode /\ UNCHANGED <<kernelVars, primitives>>
  BY DEF Enter, WritePin, PassDelay, CallDelay, LoopBack, Executes, Raise, vars, primitives
<1>3. t \in Created /\ t \in Thread
  BY <1>1, <1>2, OnCpu, KernelAssumption DEF FramesHeld
<1>4. Created' = Created
  BY <1>2 DEF Created, kernelVars
<1>5. PICK g \in Context : g = ContextOf(t) /\ Holds(core, Place(t), t, g)
  BY <1>1, <1>3, ContextHeld
<1>6. /\ core' \in Core /\ cpu' = t /\ OnlyOf(t, core, core')
      /\ \E h \in Context : Holds(core', Place(t)', t, h) /\ Moved(t, n, g, h)
  BY <1>1, <1>5, InstructionKeeps
<1>7. PICK h \in Context : Holds(core', Place(t)', t, h) /\ Moved(t, n, g, h)
  BY <1>6
<1>8. ASSUME NEW u \in Created \ {t}
      PROVE  /\ FramesOn(u)' /\ InItsFunction(u)' /\ ContextOf(u)' = ContextOf(u)
             /\ \A k : GoesOnAt(u, k)' <=> GoesOnAt(u, k)
  <2>1. u \in Thread \ {t} /\ FramesOn(u) /\ InItsFunction(u)
    BY <1>1 DEF Created
  <2>2. \A f \in Context : Holds(core, Place(u), u, f) => Holds(core', Place(u)', u, f)
    BY <1>2, <1>3, <1>6, <2>1, OthersStay
  <2>. QED BY <1>1, <1>6, <2>1, <2>2, ThreadKept
<1>9. /\ InFunction(t, g)
      /\ \A k : GoesOnAt(t, k) <=> g.regs["PC"] = Pc(t, k)
  BY <1>1, <1>3, <1>5, InFunctionNow
<1>10. /\ FramesOn(t)'
       /\ InItsFunction(t)' <=> InFunction(t, h)
       /\ \A k : GoesOnAt(t, k)' <=> h.regs["PC"] = Pc(t, k)
  BY <1>3, <1>6, <1>7, ContextHeldPrime, InFunctionNext
<1>11. GoesOnAt(t, n) /\ GoesOnAt(t, IF n = 8 THEN 2 ELSE n + 1)'
  BY <1>7, <1>9, <1>10 DEF Moved
<1>12. InFunction(t, h)
  <2> DEFINE k == IF n = 8 THEN 2 ELSE n + 1
  <2>1. PICK j \in 1..Len(Code[t]) :
           /\ g.regs["PC"] = Pc(t, j)
           /\ Len(g.words) = IF j = 1 THEN 0 ELSE FrameWords
           /\ Code[t][j].op \in {"OS_DELAY", "JUMP"} => g.regs["R0"] = Argument(Delay)
    BY <1>9 DEF InFunction
  <2>2. j = n
    BY <1>7, <2>1 DEF Moved, Pc
  <2>3. n \in 1..8 /\ Len(Code[t]) = 8
    BY CodeShape
  <2>4. k \in 2..8 /\ k \in 1..Len(Code[t]) /\ h.regs["PC"] = Pc(t, k)
    BY <1>7, <2>3 DEF Moved
  <2>5. Len(h.words) = FrameWords
    <3>1. FrameWords \in Nat
      BY AppAssumption
    <3>. QED BY <1>7, <2>1, <2>2, <3>1 DEF Moved
  <2>6. ASSUME Code[t][k].op \in {"OS_DELAY", "JUMP"} PROVE h.regs["R0"] = Argument(Delay)
    <3>1. k = 7 \/ k = 8
      BY <2>4, <2>6, WhichInstruction
    <3>2. n = 6 \/ n = 7
      BY <2>3, <3>1
    <3>3. n = 7 => Code[t][n].op = "OS_DELAY"
      BY CodeShape, OpOf
    <3>. QED BY <1>7, <2>1, <2>2, <3>2, <3>3 DEF Moved
  <2> HIDE DEF k
  <2>7. k # 1
    BY <2>4
  <2>. QED BY <2>4, <2>5, <2>6, <2>7 DEF InFunction
<1>. QED BY <1>2, <1>3, <1>4, <1>6, <1>8, <1>10, <1>11, <1>12

\* An instruction keeps the invariant.
LEMMA InstructionKeepsApp ==
    ASSUME AppIInv, IInv', NEW t \in Thread \ {Idle}, NEW n \in 1..Len(Code[t]),
           Enter(t, n) \/ WritePin(t, n) \/ PassDelay(t, n) \/ CallDelay(t, n) \/ LoopBack(t, n)
    PROVE  AppIInv'
<1> DEFINE next == IF n = 8 THEN 2 ELSE n + 1
<1>1. /\ core' \in Core /\ cpu = t /\ cpu' = t /\ ThreadMode /\ t \in Created
      /\ Created' = Created
      /\ GoesOnAt(t, n) /\ GoesOnAt(t, next)'
      /\ FramesOn(t)' /\ InItsFunction(t)'
      /\ \A u \in Created \ {t} :
            /\ FramesOn(u)' /\ InItsFunction(u)'
            /\ \A k : GoesOnAt(u, k)' <=> GoesOnAt(u, k)
  BY InstructionKeepsFrames
<1>2. n \in 1..8 /\ Len(Code[t]) = 8 /\ Created \subseteq Thread
  BY CodeShape DEF Created
<1>3. \A u \in Created' : FramesOn(u)' /\ InItsFunction(u)'
  BY <1>1
<1>4. CoreTypeOK'
  BY <1>1 DEF CoreTypeOK, Core
<1>5. CallMade'
  <2>1. CASE svc' = NoCall
    BY <2>1 DEF CallMade, NoCall
  <2>2. CASE svc' # NoCall
    <3>1. svc = NoCall
      BY <1>1 DEF ThreadMode
    <3>2. CallDelay(t, n)
      BY <2>2, <3>1 DEF Enter, WritePin, PassDelay, LoopBack, vars
    <3>3. svc' = [op |-> "OS_DELAY", arg |-> Delay] /\ Code[t][n] = Do("OS_DELAY", "none")
      BY <3>2 DEF CallDelay, Raise, Executes
    <3>4. n = 7
      BY <3>3, WhichInstruction, OpOf
    <3>5. GoesOnAt(t, 8)' /\ 8 \in 1..Len(Code[t]) /\ Code[t][8].op = "JUMP"
      BY <1>1, <1>2, <3>4, CodeShape, OpOf
    <3>6. GoesOnAt(cpu, 8)' /\ 8 \in 1..Len(Code[cpu']) /\ Code[cpu'][8].op = "JUMP"
      BY <1>1, <3>5 DEF GoesOnAt, RegisterOf
    <3>. QED BY <3>3, <3>6 DEF CallMade
  <2>. QED BY <2>1, <2>2
<1>6. LastStays'
  <2>1. lit \subseteq Leds
    BY DEF AppIInv, LastStays
  <2>2. PICK last \in Leds : \A led \in lit \ {last} : \E u \in Thread : StillPutsOut(u, led)
    BY DEF AppIInv, LastStays
  <2>3. ASSUME NEW led, NEW u \in Thread \ {t}, StillPutsOut(u, led)
        PROVE  StillPutsOut(u, led)'
    <3>1. u \in Created
      BY <2>3 DEF StillPutsOut
    <3>. QED BY <1>1, <2>3, <3>1, StillPutsOutStays
  <2>4. ASSUME NEW led, StillPutsOut(t, led)
        PROVE  /\ n \in 3..5
               /\ \E k \in 1..Len(Code[t]) : n <= k /\ Code[t][k] = Do("RESET", led)
    <3>1. PICK m \in 1..Len(Code[t]), k \in 1..Len(Code[t]) :
             /\ GoesOnAt(t, m) /\ m <= k
             /\ Code[t][m].op = "RESET" /\ Code[t][k] = Do("RESET", led)
      BY <2>4 DEF StillPutsOut
    <3>2. m = n
      BY <1>1, <3>1, OnePlace
    <3>. QED BY <3>1, <3>2, WhichInstruction
  <2>5. CASE Enter(t, n) \/ PassDelay(t, n) \/ CallDelay(t, n) \/ LoopBack(t, n)
    <3>1. lit' = lit
      BY <2>5 DEF Enter, PassDelay, CallDelay, LoopBack
    <3>2. Code[t][n].op \in {"ENTER", "ARGUMENT", "OS_DELAY", "JUMP"}
      BY <2>5, OpOf DEF Enter, PassDelay, CallDelay, LoopBack, Executes
    <3>3. n \notin 3..5
      BY <3>2, WhichInstruction
    <3>4. \A led \in lit' \ {last} : \E u \in Thread : StillPutsOut(u, led)'
      BY <2>2, <2>3, <2>4, <3>1, <3>3
    <3>. QED BY <2>1, <3>1, <3>4 DEF LastStays
  <2>6. CASE WritePin(t, n)
    <3>1. PICK led \in Leds :
             \/ Executes(t, n, Do("SET", led)) /\ lit' = lit \cup {led}
             \/ Executes(t, n, Do("RESET", led)) /\ lit' = lit \ {led}
      BY <2>6 DEF WritePin
    <3>2. CASE Executes(t, n, Do("SET", led)) /\ lit' = lit \cup {led}
      <4> DEFINE f == Function[t]
      <4>1. Code[t][n] = Do("SET", led)
        BY <3>2 DEF Executes
      <4>2. n = 2
        BY <4>1, WhichInstruction, OpOf
      <4>3. led = OwnLed[f] /\ f \in 1..5
        <5>1. Do("SET", led) = Do("SET", OwnLed[f])
          BY <4>1, <4>2, CodeShape
        <5>2. led = OwnLed[f]
          BY <5>1, LedOf, Zenon
        <5>3. f \in 1..5
          BY AppAssumption
        <5>. QED BY <5>2, <5>3
      <4>4. ASSUME NEW other \in lit' \ {led} PROVE StillPutsOut(t, other)'
        <5>1. other \in Leds
          BY <2>1, <3>2, <4>4
        <5>2. PICK i \in 1..3 : OtherLeds[f][i] = other
          BY <4>3, <4>4, <5>1, LedsOfFunction
        <5>3. ASSUME NEW j \in 1..3 PROVE Code[t][j + 2] = Do("RESET", OtherLeds[f][j])
          BY <5>3, CodeShape
        <5>4. Code[t][i + 2] = Do("RESET", other)
          BY <5>2, <5>3
        <5>5. i + 2 \in 1..8 /\ 3 <= i + 2 /\ 3 \in 1..8 /\ 1 \in 1..3 /\ 3 = 1 + 2
          OBVIOUS
        <5>6. Code[t][3].op = "RESET"
          BY <5>3, <5>5, OpOf
        <5>7. GoesOnAt(t, 3)'
          BY <1>1, <4>2
        <5>. QED BY <1>1, <1>2, <5>4, <5>5, <5>6, <5>7 DEF StillPutsOut
      <4>5. \A other \in lit' \ {led} : \E u \in Thread : StillPutsOut(u, other)'
        BY <4>4
      <4>. QED BY <2>1, <3>1, <3>2, <4>5 DEF LastStays
    <3>3. CASE Executes(t, n, Do("RESET", led)) /\ lit' = lit \ {led}
      <4>1. Code[t][n] = Do("RESET", led)
        BY <3>3 DEF Executes
      <4>2. n \in 3..5
        BY <4>1, WhichInstruction, OpOf
      <4>3. ASSUME NEW other \in lit' \ {last} PROVE \E u \in Thread : StillPutsOut(u, other)'
        <5>1. other \in lit \ {last} /\ other # led
          BY <3>3, <4>3
        <5>2. PICK u \in Thread : StillPutsOut(u, other)
          BY <2>2, <5>1
        <5>3. CASE u # t
          BY <2>3, <5>2, <5>3
        <5>4. CASE u = t
          <6>1. PICK k \in 1..Len(Code[t]) : n <= k /\ Code[t][k] = Do("RESET", other)
            BY <2>4, <5>2, <5>4
          <6>2. k # n
            BY <4>1, <5>1, <6>1 DEF Do
          <6>3. k \in 3..5
            BY <6>1, WhichInstruction, OpOf
          <6>4. n + 1 \in 3..5 /\ n + 1 <= k
            BY <4>2, <6>1, <6>2, <6>3
          <6>5. Code[t][n + 1].op = "RESET"
            <7>1. Code[t][(n - 1) + 2] = Do("RESET", OtherLeds[Function[t]][n - 1])
              BY <4>2, <6>4, CodeShape
            <7>. QED BY <4>2, <7>1, OpOf
          <6>6. GoesOnAt(t, n + 1)'
            BY <1>1, <4>2
          <6>7. StillPutsOut(t, other)'
            BY <1>1, <1>2, <6>1, <6>4, <6>5, <6>6 DEF StillPutsOut
          <6>. QED BY <6>7
        <5>. QED BY <5>3, <5>4
      <4>. QED BY <2>1, <2>2, <3>3, <4>3 DEF LastStays
    <3>. QED BY <3>1, <3>2, <3>3
  <2>. QED BY <2>5, <2>6
<1>. QED BY <1>3, <1>4, <1>5, <1>6 DEF AppIInv
\* The stacks when main enables the interrupts: only the idle thread has a context.
LEMMA InitAppIInv == AppInit => AppIInv
<1>. SUFFICES ASSUME AppInit PROVE AppIInv
  OBVIOUS
<1>1. /\ IInv /\ lit = {} /\ svc = NoCall /\ cpu = Main
      /\ Created = {Idle} /\ core = Prepared(NoContext, Idle)
  <2>1. Created = {Idle}
    BY KernelAssumption DEF AppInit, Init, KernelInit, Created, NoList, ListName
  <2>. QED BY <2>1, InitIInv DEF AppInit, Init, KernelInit, ContextInit
<1>2. NoContext \in Core
  BY DEF NoContext, Core, Pointers, Pointer, Word
<1>3. core \in Core
  BY <1>1, <1>2, PreparedKeeps, KernelAssumption
<1>4. PICK g \in Context : /\ g.words = <<>> /\ g.regs["PC"] = Pc(Idle, 1)
                           /\ Saved(core, Idle, g)
  BY <1>1, <1>2, PreparedKeeps, KernelAssumption
<1>5. Place(Idle) = "away"
  BY <1>1, KernelAssumption DEF Place
<1>6. Holds(core, Place(Idle), Idle, g) /\ Place(Idle) \in Places
  BY <1>4, <1>5 DEF Holds, Places
<1>7. FramesOn(Idle) /\ ContextOf(Idle) = g
  <2>1. FramesAt(core, Place(Idle), Idle) /\ ContextAt(core, Place(Idle), Idle) = g
    BY <1>3, <1>6, KernelAssumption, HeldIs
  <2>. QED BY <2>1, PlaceMeans, KernelAssumption
<1>8. InItsFunction(Idle)
  <2>1. 1 \in 1..Len(Code[Idle]) /\ Code[Idle][1].op = "LOOP"
    BY CodeShape, OpOf
  <2>2. InFunction(Idle, g)
    BY <1>4, <2>1 DEF InFunction
  <2>3. CoreTypeOK
    BY <1>3 DEF CoreTypeOK, Core
  <2>. QED BY <1>7, <2>2, <2>3, InFunctionNow, KernelAssumption
<1>9. CallMade
  BY <1>1 DEF CallMade
<1>10. LastStays
  BY <1>1 DEF LastStays, Leds
<1>. QED BY <1>1, <1>3, <1>7, <1>8, <1>9, <1>10 DEF AppIInv, CoreTypeOK, Core

\* A step of nobody's keeps it.
LEMMA QuietKeepsApp ==
    ASSUME AppIInv, IInv', UNCHANGED appVars
    PROVE  AppIInv' /\ \A t \in Created : ContextOf(t)' = ContextOf(t)
<1>1. /\ core' = core /\ lit' = lit /\ cpu' = cpu /\ svc' = svc
      /\ Created' = Created /\ ThreadMode' = ThreadMode
  BY DEF appVars, vars, kernelVars, Created, ThreadMode
<1>2. CoreTypeOK'
  BY <1>1 DEF AppIInv, CoreTypeOK
<1>3. ASSUME NEW t
      PROVE  /\ FramesOn(t)' = FramesOn(t) /\ Depth(t)' = Depth(t)
             /\ \A r : RegisterOf(t, r)' = RegisterOf(t, r)
             /\ \A n : GoesOnAt(t, n)' = GoesOnAt(t, n)
  BY <1>1 DEF FramesOn, Depth, RegisterOf, GoesOnAt, WordAt
<1>4. \A t : ContextOf(t)' = ContextOf(t)
  BY <1>1, <1>3 DEF ContextOf
<1>5. \A t : InItsFunction(t) => InItsFunction(t)'
  BY <1>1, <1>3 DEF InItsFunction
<1>6. CallMade'
  BY <1>1, <1>3 DEF AppIInv, CallMade
<1>7. \A t, led : StillPutsOut(t, led) => StillPutsOut(t, led)'
  BY <1>1, <1>3 DEF StillPutsOut
<1>8. LastStays'
  BY <1>1, <1>7 DEF AppIInv, LastStays
<1>. QED BY <1>1, <1>2, <1>3, <1>4, <1>5, <1>6, <1>8 DEF AppIInv

\* What a step of the example is: of main, of the kernel, of a thread, or none.
LEMMA AppStepIs ==
    ASSUME [AppNext]_appVars
    PROVE  \/ CreateNext \/ Kernel \/ UNCHANGED appVars
           \/ \E t \in Thread \ {Idle} : \E n \in 1..Len(Code[t]) :
                 Enter(t, n) \/ WritePin(t, n) \/ PassDelay(t, n) \/ CallDelay(t, n) \/ LoopBack(t, n)
BY DEF AppNext, Instruction

\* Every step keeps the invariant, and every context but the one of the thread
\* whose instruction it is.
LEMMA AppStepKeeps ==
    ASSUME AppIInv, [AppNext]_appVars
    PROVE  /\ AppIInv'
           /\ \A t \in Created :
                 \/ ContextOf(t)' = ContextOf(t)
                 \/ cpu = t /\ ThreadMode /\ UNCHANGED <<kernelVars, primitives>>
<1>1. IInv /\ IInv'
  BY AppStepIsNext, StepKeeps DEF AppIInv
<1>2. CASE CreateNext
  <2>1. PICK t \in Thread : Create(t) /\ UNCHANGED lit
    BY <1>1, <1>2, NextCreated
  <2>. QED BY <1>1, <2>1, CreateKeepsApp
<1>3. CASE Kernel
  BY <1>1, <1>3, KernelKeepsApp
<1>4. ASSUME NEW t \in Thread \ {Idle}, NEW n \in 1..Len(Code[t]),
             Enter(t, n) \/ WritePin(t, n) \/ PassDelay(t, n) \/ CallDelay(t, n) \/ LoopBack(t, n)
      PROVE  /\ AppIInv'
             /\ cpu = t /\ ThreadMode /\ UNCHANGED <<kernelVars, primitives>>
             /\ \A u \in Created \ {t} : ContextOf(u)' = ContextOf(u)
  BY <1>1, <1>4, InstructionKeepsApp, InstructionKeepsFrames
<1>5. CASE UNCHANGED appVars
  BY <1>1, <1>5, QuietKeepsApp
<1>. QED BY <1>2, <1>3, <1>4, <1>5, AppStepIs

----------------------------------------------------------------------------
(* The theorems. *)

\* The registers, the stacks, the pending call and the LEDs stay consistent in
\* every interleaving of the threads' instructions with ticks, calls and switches.
THEOREM AppInvariance == AppSpec => []AppIInv
<1>1. AppInit => AppIInv
  BY InitAppIInv
<1>2. AppIInv /\ [AppNext]_appVars => AppIInv'
  BY AppStepKeeps
<1>. QED BY <1>1, <1>2, PTL DEF AppSpec

\* The example is a client of the kernel: whatever was proved of Spec holds of it.
THEOREM AppIsClient == AppSpec => Spec
<1>1. AppInit => Init
  BY DEF AppInit
<1>2. AppIInv /\ [AppNext]_appVars => [Next]_vars
  BY AppStepIsNext DEF AppIInv
<1>. QED BY <1>1, <1>2, AppInvariance, PTL DEF AppSpec, Spec

\* Every thread finds its sixteen registers and its stack as it left them: only its
\* own instructions change its context (PendSV_Handler, SVC_Handler,
\* xrt_thread_store_context, xrt_load_context).
THEOREM ContextsKept == AppSpec => ContextKept
<1>1. AppIInv /\ [AppNext]_appVars =>
        [\A t \in Created :
            \/ ContextOf(t)' = ContextOf(t)
            \/ cpu = t /\ ThreadMode /\ UNCHANGED <<kernelVars, primitives>>]_<<vars, core>>
  BY AppStepKeeps
<1>. QED BY <1>1, AppInvariance, PTL DEF AppSpec, ContextKept

\* SVC_Handler reads the call the thread raised, with its argument, from the
\* frame PSP points to.
THEOREM CallsDecoded == AppSpec => []CallDecoded
<1>1. AppIInv => CallDecoded
  <2>. SUFFICES ASSUME AppIInv, svc # NoCall
                PROVE  DecodedNumber(core) = svc.op /\ DecodedArgument(core) = Argument(svc.arg)
    BY DEF CallDecoded
  <2>1. cpu \in Thread \ {Idle} /\ ~ThreadMode
    BY CallerRuns DEF AppIInv, ThreadMode
  <2>2. PICK t \in Thread \ {Idle} : t = cpu
    BY <2>1
  <2>3. svc = [op |-> "OS_DELAY", arg |-> Delay]
    BY DEF AppIInv, CallMade
  <2>4. PICK n \in 1..Len(Code[t]) : GoesOnAt(t, n) /\ Code[t][n].op = "JUMP"
    BY <2>2 DEF AppIInv, CallMade
  <2>5. RegisterOf(t, "R0") = Argument(Delay)
    <3>1. t \in Created
      BY <2>2, OnCpu, KernelAssumption DEF AppIInv
    <3>2. PICK m \in 1..Len(Code[t]) :
             /\ GoesOnAt(t, m)
             /\ Code[t][m].op \in {"OS_DELAY", "JUMP"} => RegisterOf(t, "R0") = Argument(Delay)
      BY <3>1 DEF AppIInv, InItsFunction
    <3>3. m = n
      BY <2>4, <3>2, OnePlace
    <3>. QED BY <2>4, <3>2, <3>3
  <2>6. n = 8 /\ Code[t][7].op = "OS_DELAY"
    BY <2>4, WhichInstruction, CodeShape, OpOf
  <2>7. /\ HwOffset["PC"] = 6 /\ HwOffset["R0"] = 0
        /\ "PC" \notin DOMAIN SwOffset /\ "R0" \notin DOMAIN SwOffset
    <3>1. HwOffset["PC"] \in 0..7 /\ HwFrame[8 - HwOffset["PC"]] = "PC"
          /\ HwOffset["R0"] \in 0..7 /\ HwFrame[8 - HwOffset["R0"]] = "R0"
      BY HwRegisters, AllRegisters
    <3>2. HwOffset["PC"] = 6 /\ HwOffset["R0"] = 0
      BY <3>1 DEF HwFrame
    <3>. QED BY <3>2, AllRegisters
  <2>8. CalledAt(core) = Pc(t, 8) /\ DecodedArgument(core) = Argument(Delay)
    <3>1. RegisterOf(t, "PC") = WordAt(core, core.psp, 6)
      BY <2>1, <2>2, <2>7 DEF RegisterOf
    <3>2. RegisterOf(t, "R0") = WordAt(core, core.psp, 0)
      BY <2>1, <2>2, <2>7 DEF RegisterOf
    <3>3. RegisterOf(t, "PC") = Pc(t, 8)
      BY <2>4, <2>6 DEF GoesOnAt
    <3>. QED BY <2>5, <3>1, <3>2, <3>3 DEF CalledAt, DecodedArgument
  <2>9. DecodedNumber(core) = Code[t][8 - 1].op
    <3>1. Pc(t, 8)[1] = "pc" /\ Pc(t, 8)[2] = t /\ Pc(t, 8)[3] = 8
      BY DEF Pc
    <3>. QED BY <2>8, <3>1 DEF DecodedNumber
  <2>. QED BY <2>3, <2>6, <2>8, <2>9
<1>. QED BY <1>1, AppInvariance, PTL

\* Whenever no thread is putting LEDs out, at most one is lit, in whatever order the
\* threads' rounds overlapped.
THEOREM AtMostOneLed == AppSpec => []OneLed
<1>1. AppIInv => OneLed
  <2>. SUFFICES ASSUME AppIInv, \A t \in Thread : ~At(t, "RESET")
                PROVE  Cardinality(lit) <= 1
    BY DEF OneLed
  <2>1. PICK last \in Leds : \A led \in lit \ {last} : \E t \in Thread : StillPutsOut(t, led)
    BY DEF AppIInv, LastStays
  <2>2. ASSUME NEW t \in Thread, NEW led, StillPutsOut(t, led) PROVE FALSE
    <3>1. t \in Created
      BY <2>2 DEF StillPutsOut
    <3>2. PICK n \in 1..Len(Code[t]) : GoesOnAt(t, n) /\ Code[t][n].op = "RESET"
      BY <2>2 DEF StillPutsOut
    <3>3. Pc(t, n)[2] = t /\ Pc(t, n)[3] = n
      BY DEF Pc
    <3>. QED BY <3>1, <3>2, <3>3 DEF At, GoesOnAt
  <2>3. lit \subseteq {last}
    BY <2>1, <2>2
  <2>4. IsFiniteSet({last}) /\ Cardinality({last}) = 1
    BY FS_Singleton
  <2>. QED BY <2>3, <2>4, FS_Subset
<1>. QED BY <1>1, AppInvariance, PTL

\* Stacks do not mix, and with functions that push no more words than the two frames
\* leave of the smallest stack, none is ever overrun.
THEOREM StacksStayApart ==
    FrameWords <= MinStackWords - HW - SW => (AppSpec => []StacksApart)
<1>. SUFFICES ASSUME FrameWords <= MinStackWords - HW - SW PROVE AppSpec => []StacksApart
  OBVIOUS
<1>1. AppIInv => StacksApart
  <2>. SUFFICES ASSUME AppIInv PROVE StacksApart
    OBVIOUS
  <2>1. cpu # Main => core.psp.of = cpu
    BY OnCpu DEF AppIInv, FramesOn
  <2>2. ASSUME NEW t \in Created
        PROVE  core.sp[t].of = t /\ Depth(t) \in 0..(MinStackWords - HW - SW)
    <3>1. core.sp[t].of = t /\ (Depth(t) = 0 \/ Depth(t) = FrameWords)
      BY DEF AppIInv, FramesOn, InItsFunction
    <3>2. HW = 8 /\ SW = 8 /\ MinStackWords = 32 /\ FrameWords \in Nat
      BY HwRegisters, SwRegisters, AppAssumption DEF MinStackWords
    <3>. QED BY <3>1, <3>2
  <2>. QED BY <2>1, <2>2 DEF StacksApart
<1>. QED BY <1>1, AppInvariance, PTL
=============================================================================
