------------------------- MODULE XrtListHeapProofs -------------------------
(***************************************************************************)
(* The links of xrt_list.c implement sequences, for any number of lists    *)
(* and nodes, up to 255 nodes in one list.                                 *)
(***************************************************************************)
EXTENDS XrtListHeap, XrtThreadListsProofs

----------------------------------------------------------------------------
(* Walks. *)

\* A walk that is as long as the sequence, begins and goes on like it, is it.
LEMMA WalkIs ==
    ASSUME NEW h \in Heap, NEW l \in List, NEW w \in Seq(Node), Ring(h, w),
           h.head[l] = IF w = <<>> THEN NULL ELSE w[1], h.size[l] = Len(w)
    PROVE  Walk(h, l) = w
<1>0. Node \subseteq Cell /\ NULL \notin Cell
  BY HeapAssumption
<1>1. CASE w = <<>>
  BY <1>1 DEF Walk
<1>2. CASE w # <<>>
  <2> DEFINE m == Len(w)
             F(f) == [i \in 1..h.size[l] |-> IF i = 1 THEN h.head[l] ELSE h.next[f[i - 1]]]
             step == CHOOSE f : f = F(f)
  <2>1. h.head[l] # NULL /\ h.head[l] = w[1] /\ m \in Nat /\ m > 0
    BY <1>0, <1>2
  <2>2. w = F(w)
    <3>1. ASSUME NEW i \in 1..m, i # 1 PROVE w[i] = h.next[w[i - 1]]
      <4>1. i - 1 \in 1..Len(w) /\ Around(w, i - 1) = i
        BY <2>1, <3>1 DEF Around
      <4>. QED BY <4>1 DEF Ring
    <3>2. w = [i \in 1..m |-> w[i]]
      OBVIOUS
    <3>3. F(w) = [i \in 1..m |-> IF i = 1 THEN h.head[l] ELSE h.next[w[i - 1]]]
      OBVIOUS
    <3>4. \A i \in 1..m : w[i] = IF i = 1 THEN h.head[l] ELSE h.next[w[i - 1]]
      BY <2>1, <3>1
    <3>. QED BY <3>2, <3>3, <3>4
  <2>3. step = F(step)
    BY <2>2
  <2> HIDE DEF step
  <2>4. step = w
    <3>1. DOMAIN step = 1..m /\ step = [i \in 1..m |-> step[i]]
      BY <2>3
    <3>2. ASSUME NEW i \in 1..m PROVE step[i] = IF i = 1 THEN h.head[l] ELSE h.next[step[i - 1]]
      BY <2>3
    <3> DEFINE Bad == {i \in 1..m : step[i] # w[i]}
    <3>3. Bad = {}
      <4>. SUFFICES ASSUME Bad # {} PROVE FALSE
        OBVIOUS
      <4>0. Bad \in SUBSET Nat
        BY <2>1
      <4>1. PICK i \in Bad : \A k \in Bad : i <= k
        <5> HIDE DEF Bad
        <5>. QED BY <4>0, SmallestExists
      <4>2. i \in 1..m /\ step[i] # w[i] /\ i # 1
        BY <2>1, <3>2, <4>1
      <4>3. i - 1 \in 1..m /\ i - 1 \notin Bad
        BY <2>1, <4>1, <4>2
      <4>4. step[i - 1] = w[i - 1]
        BY <4>3
      <4>5. w[i] = h.next[w[i - 1]]
        <5>1. i - 1 \in 1..Len(w) /\ Around(w, i - 1) = i
          BY <2>1, <4>2 DEF Around
        <5>. QED BY <5>1 DEF Ring
      <4>. QED BY <3>2, <4>2, <4>4, <4>5
    <3>4. \A i \in 1..m : step[i] = w[i]
      BY <3>3
    <3>5. w = [i \in 1..m |-> w[i]]
      OBVIOUS
    <3>. QED BY <3>1, <3>4, <3>5
  <2>5. Walk(h, l) = step
    BY <2>1 DEF Walk, step
  <2>. QED BY <2>4, <2>5
<1>. QED BY <1>1, <1>2

----------------------------------------------------------------------------
(* What an insertion and a removal do to one ring. *)

\* The position before the i-th in a ring.
Back(w, i) == IF i = 1 THEN Len(w) ELSE i - 1

\* The sequence v is w with n as its i-th element ...
Inserted(v, w, i, n) ==
    /\ Len(v) = Len(w) + 1
    /\ \A j \in 1..Len(w) + 1 : v[j] = IF j < i THEN w[j] ELSE IF j = i THEN n ELSE w[j - 1]

\* ... and without its i-th element.
Removed(v, w, i) ==
    /\ Len(v) = Len(w) - 1
    /\ \A j \in 1..Len(w) - 1 : v[j] = IF j < i THEN w[j] ELSE w[j + 1]

\* Node n is linked in front of the node old, which came after the node before.
LinkedIn(h, g, before, n, old) ==
    \A c \in Cell :
       /\ g.next[c] = IF c = before THEN n ELSE IF c = n THEN old ELSE h.next[c]
       /\ g.prev[c] = IF c = old THEN n ELSE IF c = n THEN before ELSE h.prev[c]

\* Node n is linked out from between two nodes.
LinkedOut(h, g, before, n, after) ==
    \A c \in Cell :
       /\ g.next[c] = IF c = n THEN n ELSE IF c = before THEN after ELSE h.next[c]
       /\ g.prev[c] = IF c = n THEN n ELSE IF c = after THEN before ELSE h.prev[c]

\* In a ring with a new element everybody has the right neighbours.
LEMMA RingGrows ==
    ASSUME NEW h, NEW g, NEW w \in Seq(Node), Ring(h, w), IsInjective(w), w # <<>>,
           NEW n \in Node, n \notin ToSet(w), NEW i \in 1..Len(w) + 1,
           NEW v \in Seq(Node), Inserted(v, w, i, n),
           LinkedIn(h, g, w[Back(w, i)], n, w[IF i = Len(w) + 1 THEN 1 ELSE i])
    PROVE  Ring(g, v)
<1> DEFINE m == Len(w)
           p == Back(w, i)
           o == IF i = m + 1 THEN 1 ELSE i
<1>1. m \in Nat /\ m > 0 /\ Len(v) = m + 1 /\ Node \subseteq Cell
  BY HeapAssumption DEF Inserted
<1>2. p \in 1..m /\ o \in 1..m
  BY <1>1 DEF Back
<1>3. \A j \in 1..m : w[j] \in Node /\ w[j] # n
  BY <1>1 DEF ToSet
<1>4. \A a, b \in 1..m : w[a] = w[b] => a = b
  BY DEF IsInjective
<1>5. \A j \in 1..m + 1 : v[j] = IF j < i THEN w[j] ELSE IF j = i THEN n ELSE w[j - 1]
  BY DEF Inserted
<1>6. ASSUME NEW a \in 1..m
      PROVE  /\ g.next[w[a]] = IF a = p THEN n ELSE h.next[w[a]]
             /\ g.prev[w[a]] = IF a = o THEN n ELSE h.prev[w[a]]
  <2>1. w[a] \in Cell /\ w[a] # n /\ (w[a] = w[p] => a = p) /\ (w[a] = w[o] => a = o)
    BY <1>1, <1>2, <1>3, <1>4
  <2>. QED BY <2>1 DEF LinkedIn
<1>7. g.next[n] = w[o] /\ g.prev[n] = w[p]
  <2>1. n \in Cell /\ n # w[o] /\ n # w[p]
    BY <1>1, <1>2, <1>3
  <2>. QED BY <2>1 DEF LinkedIn
<1>. SUFFICES ASSUME NEW j \in 1..m + 1, NEW k, k = Around(v, j)
              PROVE  g.next[v[j]] = v[k] /\ g.prev[v[k]] = v[j]
  BY <1>1 DEF Ring
<1>8. k = (IF j = m + 1 THEN 1 ELSE j + 1) /\ k \in 1..m + 1
  BY <1>1 DEF Around
<1>9. i \in 1..m + 1 /\ p = (IF i = 1 THEN m ELSE i - 1)
  BY DEF Back
<1> HIDE DEF m, p
<1>10. CASE j = i
  <2>1. v[j] = n /\ v[k] = w[o]
    <3>1. CASE i = m + 1
      BY <1>1, <1>5, <1>8, <1>9, <1>10, <3>1
    <3>2. CASE i # m + 1
      <4>1. k = i + 1 /\ ~(k < i) /\ k # i /\ k - 1 = i /\ ~(j < i)
        BY <1>8, <1>9, <1>10, <3>2
      <4>. QED BY <1>5, <1>8, <1>10, <3>2, <4>1
    <3>. QED BY <3>1, <3>2
  <2>. QED BY <1>2, <1>6, <1>7, <2>1
<1>11. CASE k = i
  <2>1. v[k] = n /\ v[j] = w[p]
    <3>1. CASE i = 1
      <4>1. j = m + 1 /\ p = m
        BY <1>1, <1>8, <1>9, <1>11, <3>1
      <4>. QED BY <1>1, <1>5, <1>8, <1>11, <3>1, <4>1
    <3>2. CASE i # 1
      <4>1. j = i - 1 /\ j < i /\ p = j /\ ~(k < i)
        BY <1>1, <1>8, <1>9, <1>11, <3>2
      <4>. QED BY <1>5, <1>8, <1>11, <4>1
    <3>. QED BY <3>1, <3>2
  <2>. QED BY <1>2, <1>6, <1>7, <2>1
<1>12. CASE j # i /\ k # i
  <2> DEFINE a == IF j < i THEN j ELSE j - 1
             b == IF k < i THEN k ELSE k - 1
  <2>1. a \in 1..m /\ b \in 1..m /\ b = Around(w, a) /\ a # p /\ b # o
    BY <1>1, <1>8, <1>9, <1>12 DEF Around, m
  <2>2. v[j] = w[a] /\ v[k] = w[b]
    BY <1>5, <1>8, <1>12
  <2> HIDE DEF a, b, o
  <2>3. h.next[w[a]] = w[b] /\ h.prev[w[b]] = w[a]
    BY <2>1 DEF Ring, m
  <2>. QED BY <1>6, <2>1, <2>2, <2>3
<1>. QED BY <1>10, <1>11, <1>12

\* Likewise in a ring that is left by one of several elements.
LEMMA RingShrinks ==
    ASSUME NEW h, NEW g, NEW w \in Seq(Node), Ring(h, w), IsInjective(w),
           NEW i \in 1..Len(w), Len(w) # 1,
           NEW v \in Seq(Node), Removed(v, w, i),
           LinkedOut(h, g, w[Back(w, i)], w[i], w[Around(w, i)])
    PROVE  Ring(g, v)
<1> DEFINE m == Len(w)
           p == Back(w, i)
           o == Around(w, i)
<1>1. m \in Nat /\ m > 1 /\ Len(v) = m - 1 /\ Node \subseteq Cell
  BY HeapAssumption DEF Removed
<1>2. p \in 1..m /\ o \in 1..m /\ p # i /\ o # i
  BY <1>1 DEF Back, Around
<1>3. \A j \in 1..m : w[j] \in Cell
  BY <1>1
<1>4. \A a, b \in 1..m : w[a] = w[b] => a = b
  BY DEF IsInjective
<1>5. \A j \in 1..m - 1 : v[j] = IF j < i THEN w[j] ELSE w[j + 1]
  BY DEF Removed
<1>6. ASSUME NEW a \in 1..m, a # i
      PROVE  /\ g.next[w[a]] = IF a = p THEN w[o] ELSE h.next[w[a]]
             /\ g.prev[w[a]] = IF a = o THEN w[p] ELSE h.prev[w[a]]
  <2>1. w[a] \in Cell /\ w[a] # w[i] /\ (w[a] = w[p] => a = p) /\ (w[a] = w[o] => a = o)
    BY <1>2, <1>3, <1>4, <1>6
  <2>. QED BY <2>1 DEF LinkedOut
<1>. SUFFICES ASSUME NEW j \in 1..m - 1, NEW k, k = Around(v, j)
              PROVE  g.next[v[j]] = v[k] /\ g.prev[v[k]] = v[j]
  BY <1>1 DEF Ring
<1>7. k = (IF j = m - 1 THEN 1 ELSE j + 1) /\ k \in 1..m - 1
  BY <1>1 DEF Around
<1>8. i \in 1..m /\ p = (IF i = 1 THEN m ELSE i - 1) /\ o = (IF i = m THEN 1 ELSE i + 1)
  BY DEF Back, Around
<1> HIDE DEF m, p, o
<1> DEFINE a == IF j < i THEN j ELSE j + 1
           b == IF k < i THEN k ELSE k + 1
<1>9. v[j] = w[a] /\ v[k] = w[b] /\ a \in 1..m /\ b \in 1..m /\ a # i /\ b # i
  <2>1. a \in 1..m /\ b \in 1..m /\ a # i /\ b # i
    BY <1>1, <1>7
  <2>2. v[j] = w[a]
    BY <1>5
  <2>3. v[k] = w[b]
    BY <1>5, <1>7
  <2>. QED BY <2>1, <2>2, <2>3
<1>10. \/ a = p /\ b = o
       \/ a # p /\ b # o /\ b = Around(w, a)
  BY <1>1, <1>7, <1>8 DEF Around, m
<1> HIDE DEF a, b
<1>11. CASE a = p /\ b = o
  BY <1>6, <1>9, <1>11
<1>12. CASE a # p /\ b # o /\ b = Around(w, a)
  <2>1. h.next[w[a]] = w[b] /\ h.prev[w[b]] = w[a]
    BY <1>9, <1>12 DEF Ring, m
  <2>. QED BY <1>6, <1>9, <1>12, <2>1
<1>. QED BY <1>10, <1>11, <1>12

----------------------------------------------------------------------------
(* The functions of xrt_list.c. *)

\* From h to g the sequence w of list l becomes v, and nothing else is written.
OneRingChanged(h, g, s, l, w, v) ==
    /\ w = s[l] /\ IsInjective(v) /\ Ring(g, v)
    /\ \A k \in List \ {l} : ToSet(v) \cap ToSet(s[k]) = {}
    /\ g.head[l] = (IF v = <<>> THEN NULL ELSE v[1]) /\ g.size[l] = Len(v)
    /\ \A k \in List \ {l} : g.head[k] = h.head[k] /\ g.size[k] = h.size[k]
    /\ \A c \in Cell \ (ToSet(w) \cup ToSet(v)) :
          g.next[c] = h.next[c] /\ g.prev[c] = h.prev[c]
    /\ \A c \in ToSet(w) \ ToSet(v) : g.next[c] = c /\ g.prev[c] = c

\* A function that changes one ring leaves the others as they were.
LEMMA RingsChange ==
    ASSUME NEW h, NEW g, NEW s \in [List -> Seq(Node)], Rings(h, s), NEW l \in List,
           NEW w, NEW v \in Seq(Node), OneRingChanged(h, g, s, l, w, v)
    PROVE  Rings(g, [s EXCEPT ![l] = v])
<1> DEFINE t == [s EXCEPT ![l] = v]
<1>0. /\ \A k \in List \ {l} : ToSet(v) \cap ToSet(s[k]) = {}
      /\ g.head[l] = (IF v = <<>> THEN NULL ELSE v[1]) /\ g.size[l] = Len(v)
      /\ IsInjective(v) /\ Ring(g, v)
      /\ \A k \in List \ {l} : g.head[k] = h.head[k] /\ g.size[k] = h.size[k]
      /\ \A c \in Cell \ (ToSet(s[l]) \cup ToSet(v)) :
            g.next[c] = h.next[c] /\ g.prev[c] = h.prev[c]
      /\ \A c \in ToSet(s[l]) \ ToSet(v) : g.next[c] = c /\ g.prev[c] = c
  BY DEF OneRingChanged
<1>1. t[l] = v /\ \A k \in List \ {l} : t[k] = s[k]
  OBVIOUS
<1>2. ToSet(v) \subseteq Node /\ Node \subseteq Cell
  BY HeapAssumption DEF ToSet
<1> HIDE DEF t
<1>3. ASSUME NEW k \in List \ {l}
      PROVE  /\ g.head[k] = IF t[k] = <<>> THEN NULL ELSE t[k][1]
             /\ g.size[k] = Len(t[k])
             /\ IsInjective(t[k]) /\ ToSet(t[k]) \subseteq Node
             /\ Ring(g, t[k])
  <2>1. Ring(h, s[k]) /\ ToSet(s[k]) \cap ToSet(s[l]) = {} /\ ToSet(s[k]) \subseteq Node
    BY DEF Rings
  <2>2. Ring(g, s[k])
    <3>. SUFFICES ASSUME NEW i \in 1..Len(s[k])
                  PROVE  /\ g.next[s[k][i]] = s[k][Around(s[k], i)]
                         /\ g.prev[s[k][Around(s[k], i)]] = s[k][i]
      BY DEF Ring
    <3>1. s[k] \in Seq(Node) /\ Len(s[k]) \in Nat
      OBVIOUS
    <3>2. Around(s[k], i) \in 1..Len(s[k])
      BY <3>1 DEF Around
    <3>3. \A j \in 1..Len(s[k]) : s[k][j] \in ToSet(s[k])
      BY DEF ToSet
    <3>4. \A j \in 1..Len(s[k]) :
             g.next[s[k][j]] = h.next[s[k][j]] /\ g.prev[s[k][j]] = h.prev[s[k][j]]
      BY <1>0, <1>2, <2>1, <3>3
    <3>. QED BY <2>1, <3>2, <3>4 DEF Ring
  <2>3. /\ h.head[k] = (IF s[k] = <<>> THEN NULL ELSE s[k][1]) /\ h.size[k] = Len(s[k])
        /\ IsInjective(s[k])
    BY DEF Rings
  <2>4. t[k] = s[k]
    BY <1>1
  <2>. QED BY <1>0, <2>1, <2>2, <2>3, <2>4
<1>4. \A j, k \in List : j # k => ToSet(t[j]) \cap ToSet(t[k]) = {}
  BY <1>0, <1>1 DEF Rings
<1>5. ASSUME NEW n \in Node, \A k \in List : n \notin ToSet(t[k])
      PROVE  g.next[n] = n /\ g.prev[n] = n
  <2>1. CASE n \in ToSet(s[l])
    BY <1>0, <1>1, <1>5, <2>1
  <2>2. CASE n \notin ToSet(s[l])
    <3>1. \A k \in List : n \notin ToSet(s[k])
      BY <1>1, <1>5, <2>2
    <3>2. h.next[n] = n /\ h.prev[n] = n
      BY <3>1 DEF Rings
    <3>. QED BY <1>0, <1>1, <1>2, <1>5, <2>2, <3>2
  <2>. QED BY <2>1, <2>2
<1>6. /\ g.head[l] = IF t[l] = <<>> THEN NULL ELSE t[l][1]
      /\ g.size[l] = Len(t[l])
      /\ IsInjective(t[l]) /\ ToSet(t[l]) \subseteq Node
      /\ Ring(g, t[l])
  BY <1>0, <1>1, <1>2
<1>. QED BY <1>3, <1>4, <1>5, <1>6 DEF Rings, t

\* A heap g that came from h: its links are those of s, and what is no list node
\* is as it was.
Becomes(h, g, s) ==
    /\ g \in Heap /\ Rings(g, s)
    /\ \A c \in Cell \ Node : g.next[c] = h.next[c] /\ g.prev[c] = h.prev[c]

\* The 8-bit size does not wrap below its largest value.
LEMMA OneMore ==
    ASSUME NEW h, NEW l, h.size[l] \in Nat, h.size[l] < UINT8_MAX
    PROVE  Incremented(h, l) = h.size[l] + 1 /\ h.size[l] + 1 \in 0..UINT8_MAX
<1>1. UINT8_MAX \in Nat
  BY DEF UINT8_MAX
<1>2. \A a, b \in Nat : a < b => a % b = a
  OBVIOUS
<1> DEFINE a == h.size[l] + 1
           b == UINT8_MAX + 1
<1>3. a \in Nat /\ b \in Nat /\ a < b /\ a \in 0..UINT8_MAX
  BY <1>1
<1> HIDE DEF a, b
<1>4. a % b = a
  BY <1>2, <1>3
<1>. QED BY <1>3, <1>4 DEF Incremented, a, b

\* Two writes leave links where there were links.
LEMMA TwoWrites ==
    ASSUME NEW C, NEW x, NEW f \in [C -> C \cup {x}],
           NEW a \in C, NEW b \in C, NEW y \in C, NEW z \in C
    PROVE  [[f EXCEPT ![a] = y] EXCEPT ![b] = z] \in [C -> C \cup {x}]
OBVIOUS

\* The heap g has these parts.
Parts(g, head, size, next, prev) ==
    g = [head |-> head, size |-> size, next |-> next, prev |-> prev]

\* A node that is linked into a list that is not empty becomes its i-th.
LEMMA SpliceKeeps ==
    ASSUME NEW h \in Heap, NEW s \in [List -> Seq(Node)], Rings(h, s),
           NEW l \in List, h.size[l] < UINT8_MAX,
           NEW w, w = s[l], w # <<>>, NEW i \in 1..Len(w) + 1,
           NEW n \in Node, \A k \in List : n \notin ToSet(s[k]),
           NEW v \in Seq(Node), Inserted(v, w, i, n),
           IsInjective(v), ToSet(v) = ToSet(w) \cup {n},
           NEW before, before = w[Back(w, i)],
           NEW old, old = w[IF i = Len(w) + 1 THEN 1 ELSE i],
           NEW g,
           Parts(g, [h.head EXCEPT ![l] = v[1]], [h.size EXCEPT ![l] = Incremented(h, l)],
                 [[h.next EXCEPT ![n] = old] EXCEPT ![before] = n],
                 [[h.prev EXCEPT ![n] = before] EXCEPT ![old] = n])
    PROVE  Becomes(h, g, [s EXCEPT ![l] = v])
<1>1. w \in Seq(Node) /\ Len(w) \in Nat /\ Len(w) > 0 /\ Node \subseteq Cell
  BY HeapAssumption
<1>2. Ring(h, w) /\ IsInjective(w) /\ h.size[l] = Len(w) /\ n \notin ToSet(w)
  BY DEF Rings
<1>3. before \in ToSet(w) /\ old \in ToSet(w)
  <2>1. Back(w, i) \in 1..Len(w) /\ (IF i = Len(w) + 1 THEN 1 ELSE i) \in 1..Len(w)
    BY <1>1 DEF Back
  <2>. QED BY <2>1 DEF ToSet
<1>4. n \in Cell /\ old \in Cell /\ before \in Cell /\ n # old /\ n # before
      /\ old \in Node /\ before \in Node
  BY <1>1, <1>2, <1>3 DEF ToSet
<1>5. /\ h.head \in [List -> Cell \cup {NULL}] /\ h.size \in [List -> 0..UINT8_MAX]
      /\ h.next \in [Cell -> Cell \cup {NULL}] /\ h.prev \in [Cell -> Cell \cup {NULL}]
  BY DEF Heap
<1>6. /\ g.next = [[h.next EXCEPT ![n] = old] EXCEPT ![before] = n]
      /\ g.prev = [[h.prev EXCEPT ![n] = before] EXCEPT ![old] = n]
      /\ g.head = [h.head EXCEPT ![l] = v[1]]
      /\ g.size = [h.size EXCEPT ![l] = Incremented(h, l)]
      /\ g = [head |-> g.head, size |-> g.size, next |-> g.next, prev |-> g.prev]
  BY DEF Parts
<1>7. Incremented(h, l) = Len(w) + 1 /\ Len(w) + 1 \in 0..UINT8_MAX
  BY <1>1, <1>2, OneMore
<1>8. Len(v) = Len(w) + 1 /\ v # <<>> /\ v[1] \in Cell
  BY <1>1 DEF Inserted
<1>9. g \in Heap
  <2>1. [[h.next EXCEPT ![n] = old] EXCEPT ![before] = n] \in [Cell -> Cell \cup {NULL}]
    BY <1>4, <1>5, TwoWrites, Zenon
  <2>2. [[h.prev EXCEPT ![n] = before] EXCEPT ![old] = n] \in [Cell -> Cell \cup {NULL}]
    BY <1>4, <1>5, TwoWrites, Zenon
  <2>3. g.next \in [Cell -> Cell \cup {NULL}] /\ g.prev \in [Cell -> Cell \cup {NULL}]
    BY <1>6, <2>1, <2>2, Zenon
  <2>4. g.head \in [List -> Cell \cup {NULL}]
    BY <1>5, <1>6, <1>8
  <2>5. g.size \in [List -> 0..UINT8_MAX]
    BY <1>5, <1>6, <1>7
  <2>. QED BY <1>6, <2>3, <2>4, <2>5 DEF Heap
<1>10. LinkedIn(h, g, before, n, old)
  BY <1>4, <1>5, <1>6 DEF LinkedIn
<1>11. Ring(g, v)
  BY <1>1, <1>2, <1>10, RingGrows
<1>12. g.head[l] = (IF v = <<>> THEN NULL ELSE v[1]) /\ g.size[l] = Len(v)
  BY <1>5, <1>6, <1>7, <1>8
<1>13. \A k \in List \ {l} : g.head[k] = h.head[k] /\ g.size[k] = h.size[k]
  BY <1>5, <1>6
<1>14. \A c \in Cell \ (ToSet(w) \cup ToSet(v)) : g.next[c] = h.next[c] /\ g.prev[c] = h.prev[c]
  BY <1>3, <1>10 DEF LinkedIn
<1>15. \A k \in List \ {l} : ToSet(v) \cap ToSet(s[k]) = {}
  BY DEF Rings
<1>16. Rings(g, [s EXCEPT ![l] = v])
  <2>1. OneRingChanged(h, g, s, l, w, v)
    BY <1>11, <1>12, <1>13, <1>14, <1>15 DEF OneRingChanged
  <2>. QED BY <2>1, RingsChange
<1>17. \A c \in Cell \ Node : g.next[c] = h.next[c] /\ g.prev[c] = h.prev[c]
  BY <1>4, <1>10 DEF LinkedIn
<1>. QED BY <1>9, <1>16, <1>17 DEF Becomes

\* cdll_insert_node_before puts the node where the other was.
LEMMA InsertNodeBeforeKeeps ==
    ASSUME NEW h \in Heap, NEW s \in [List -> Seq(Node)], Rings(h, s),
           NEW l \in List, h.size[l] < UINT8_MAX, NEW i \in 1..Len(s[l]),
           NEW n \in Node, \A k \in List : n \notin ToSet(s[k])
    PROVE  Becomes(h, InsertNodeBefore(h, l, s[l][i], n), [s EXCEPT ![l] = InsertAt(@, i, n)])
<1> DEFINE w == s[l]
           v == InsertAt(w, i, n)
           old == w[i]
           before == w[Back(w, i)]
           g == InsertNodeBefore(h, l, old, n)
<1>1. w \in Seq(Node) /\ Len(w) \in Nat /\ w # <<>>
  OBVIOUS
<1>2. Back(w, i) \in 1..Len(w) /\ Around(w, Back(w, i)) = i
  BY <1>1 DEF Back, Around
<1>3. Ring(h, w) /\ IsInjective(w) /\ h.head[l] = w[1] /\ n \notin ToSet(w)
  BY <1>1 DEF Rings
<1>4. h.prev[old] = before
  BY <1>2, <1>3 DEF Ring
<1>5. v \in Seq(Node) /\ Inserted(v, w, i, n)
  BY <1>1, InsertAtShape DEF Inserted
<1>6. IsInjective(v) /\ ToSet(v) = ToSet(w) \cup {n}
  BY <1>1, <1>3, InsertAtGains DEF Gains
<1>7. v[1] = (IF i = 1 THEN n ELSE w[1]) /\ (w[1] = w[i] => i = 1)
  BY <1>1, <1>3, <1>5 DEF Inserted, IsInjective
<1>8. i \in 1..Len(w) + 1 /\ old = w[IF i = Len(w) + 1 THEN 1 ELSE i]
  BY <1>1
<1>9. (IF h.head[l] = old THEN n ELSE h.head[l]) = v[1]
  BY <1>3, <1>7
<1> HIDE DEF w, v, old, before
<1>10. g = [h EXCEPT !.next[n] = old, !.prev[n] = before,
                     !.next[before] = n, !.prev[old] = n,
                     !.head[l] = IF @ = old THEN n ELSE @,
                     !.size[l] = Incremented(h, l)]
  BY <1>4 DEF InsertNodeBefore
<1>11. Parts(g, [h.head EXCEPT ![l] = IF @ = old THEN n ELSE @],
             [h.size EXCEPT ![l] = Incremented(h, l)],
             [[h.next EXCEPT ![n] = old] EXCEPT ![before] = n],
             [[h.prev EXCEPT ![n] = before] EXCEPT ![old] = n])
  BY <1>10 DEF Parts, Heap
<1>12. [h.head EXCEPT ![l] = IF @ = old THEN n ELSE @] = [h.head EXCEPT ![l] = v[1]]
  BY <1>9
<1> HIDE DEF g
<1>13. Parts(g, [h.head EXCEPT ![l] = v[1]],
             [h.size EXCEPT ![l] = Incremented(h, l)],
             [[h.next EXCEPT ![n] = old] EXCEPT ![before] = n],
             [[h.prev EXCEPT ![n] = before] EXCEPT ![old] = n])
  BY <1>11, <1>12, Zenon
<1>14. Becomes(h, g, [s EXCEPT ![l] = v])
  BY <1>1, <1>5, <1>6, <1>8, <1>13, SpliceKeeps DEF before, w
<1>15. [s EXCEPT ![l] = InsertAt(@, i, n)] = [s EXCEPT ![l] = v]
  BY DEF v, w
<1>. QED BY <1>14, <1>15 DEF g, old, w

\* cdll_insert_node_to_tail makes it the last.
LEMMA InsertNodeToTailKeeps ==
    ASSUME NEW h \in Heap, NEW s \in [List -> Seq(Node)], Rings(h, s),
           NEW l \in List, h.size[l] < UINT8_MAX,
           NEW n \in Node, \A k \in List : n \notin ToSet(s[k])
    PROVE  Becomes(h, InsertNodeToTail(h, l, n), [s EXCEPT ![l] = Append(@, n)])
<1> DEFINE w == s[l]
           v == Append(w, n)
           g == InsertNodeToTail(h, l, n)
<1>1. w \in Seq(Node) /\ Len(w) \in Nat /\ Node \subseteq Cell /\ NULL \notin Cell
  BY HeapAssumption
<1>2. /\ Ring(h, w) /\ IsInjective(w) /\ h.size[l] = Len(w) /\ n \notin ToSet(w)
      /\ h.head[l] = IF w = <<>> THEN NULL ELSE w[1]
  BY DEF Rings
<1>3. v \in Seq(Node) /\ Inserted(v, w, Len(w) + 1, n) /\ Len(v) = Len(w) + 1 /\ v # <<>>
  BY <1>1 DEF Inserted
<1>4. IsInjective(v) /\ ToSet(v) = ToSet(w) \cup {n}
  BY <1>1, <1>2, AppendGains DEF Gains
<1>5. /\ h.head \in [List -> Cell \cup {NULL}] /\ h.size \in [List -> 0..UINT8_MAX]
      /\ h.next \in [Cell -> Cell \cup {NULL}] /\ h.prev \in [Cell -> Cell \cup {NULL}]
  BY DEF Heap
<1>6. Becomes(h, g, [s EXCEPT ![l] = v])
  <2>1. CASE w # <<>>
    <3> DEFINE old == w[1]
               before == w[Len(w)]
    <3>1. 1 \in 1..Len(w) /\ Len(w) \in 1..Len(w) /\ Around(w, Len(w)) = 1
          /\ Back(w, Len(w) + 1) = Len(w)
      BY <1>1, <2>1 DEF Around, Back
    <3>2. h.prev[old] = before /\ h.head[l] = old /\ old # NULL
      BY <1>1, <1>2, <2>1, <3>1 DEF Ring
    <3>3. v[1] = h.head[l]
      BY <1>1, <3>1, <3>2
    <3>4. old = w[IF Len(w) + 1 = Len(w) + 1 THEN 1 ELSE Len(w) + 1]
          /\ Len(w) + 1 \in 1..Len(w) + 1 /\ before = w[Back(w, Len(w) + 1)]
      BY <1>1, <3>1
    <3> HIDE DEF w, v, old, before
    <3>5. g = [[h EXCEPT !.size[l] = Incremented(h, l)]
                 EXCEPT !.next[n] = old, !.prev[n] = before,
                        !.next[before] = n, !.prev[old] = n]
      BY <3>2 DEF InsertNodeToTail
    <3>6. Parts(g, h.head, [h.size EXCEPT ![l] = Incremented(h, l)],
                [[h.next EXCEPT ![n] = old] EXCEPT ![before] = n],
                [[h.prev EXCEPT ![n] = before] EXCEPT ![old] = n])
      BY <3>5 DEF Parts, Heap
    <3>7. h.head = [h.head EXCEPT ![l] = v[1]]
      BY <1>5, <3>3
    <3> HIDE DEF g
    <3>8. Parts(g, [h.head EXCEPT ![l] = v[1]], [h.size EXCEPT ![l] = Incremented(h, l)],
                [[h.next EXCEPT ![n] = old] EXCEPT ![before] = n],
                [[h.prev EXCEPT ![n] = before] EXCEPT ![old] = n])
      BY <3>6, <3>7, Zenon
    <3>. QED BY <1>3, <1>4, <2>1, <3>4, <3>8, SpliceKeeps DEF w
  <2>2. CASE w = <<>>
    <3>1. v = <<n>> /\ Len(v) = 1 /\ v[1] = n /\ h.head[l] = NULL /\ ToSet(v) = {n}
      BY <1>2, <1>4, <2>2, ShortLists
    <3> HIDE DEF v
    <3>2. g = [[h EXCEPT !.size[l] = Incremented(h, l)]
                 EXCEPT !.head[l] = n, !.prev[n] = n, !.next[n] = n]
      BY <3>1 DEF InsertNodeToTail
    <3>3. Parts(g, [h.head EXCEPT ![l] = n], [h.size EXCEPT ![l] = Incremented(h, l)],
                [h.next EXCEPT ![n] = n], [h.prev EXCEPT ![n] = n])
      BY <3>2 DEF Parts, Heap
    <3> HIDE DEF g, w
    <3>4. /\ g.head = [h.head EXCEPT ![l] = n] /\ g.size = [h.size EXCEPT ![l] = Incremented(h, l)]
          /\ g.next = [h.next EXCEPT ![n] = n] /\ g.prev = [h.prev EXCEPT ![n] = n]
          /\ g = [head |-> g.head, size |-> g.size, next |-> g.next, prev |-> g.prev]
      BY <3>3 DEF Parts
    <3>5. Incremented(h, l) = Len(w) + 1 /\ Len(w) + 1 \in 0..UINT8_MAX /\ n \in Cell
      BY <1>1, <1>2, OneMore
    <3>6. g \in Heap
      <4>1. g.next \in [Cell -> Cell \cup {NULL}] /\ g.prev \in [Cell -> Cell \cup {NULL}]
        BY <1>5, <3>4, <3>5
      <4>2. g.head \in [List -> Cell \cup {NULL}]
        BY <1>5, <3>4, <3>5
      <4>3. g.size \in [List -> 0..UINT8_MAX]
        BY <1>5, <3>4, <3>5
      <4>. QED BY <3>4, <4>1, <4>2, <4>3 DEF Heap
    <3>7. Ring(g, v)
      BY <1>5, <3>1, <3>4, <3>5 DEF Ring, Around
    <3>8. g.head[l] = (IF v = <<>> THEN NULL ELSE v[1]) /\ g.size[l] = Len(v)
      BY <1>3, <1>5, <3>1, <3>4, <3>5
    <3>9. \A k \in List \ {l} : g.head[k] = h.head[k] /\ g.size[k] = h.size[k]
      BY <1>5, <3>4
    <3>10. \A c \in Cell \ {n} : g.next[c] = h.next[c] /\ g.prev[c] = h.prev[c]
      BY <1>5, <3>4
    <3>11. \A k \in List \ {l} : ToSet(v) \cap ToSet(s[k]) = {}
      BY <3>1
    <3>12. ToSet(s[l]) = {}
      BY <2>2, ShortLists DEF w
    <3>13. Rings(g, [s EXCEPT ![l] = v])
      <4>1. \A c \in Cell \ (ToSet(w) \cup ToSet(v)) :
               g.next[c] = h.next[c] /\ g.prev[c] = h.prev[c]
        BY <3>1, <3>10
      <4>2. \A c \in ToSet(w) \ ToSet(v) : g.next[c] = c /\ g.prev[c] = c
        BY <3>12 DEF w
      <4>3. OneRingChanged(h, g, s, l, w, v)
        BY <1>4, <3>7, <3>8, <3>9, <3>11, <4>1, <4>2 DEF OneRingChanged, w
      <4>. QED BY <1>3, <4>3, RingsChange
    <3>. QED BY <1>1, <3>6, <3>10, <3>13 DEF Becomes
  <2>. QED BY <2>1, <2>2
<1>7. [s EXCEPT ![l] = Append(@, n)] = [s EXCEPT ![l] = v]
  OBVIOUS
<1>. QED BY <1>6, <1>7

\* cdll_remove_known_node_from_list takes the node out, and links it to itself.
LEMMA RemoveKnownNodeKeeps ==
    ASSUME NEW h \in Heap, NEW s \in [List -> Seq(Node)], Rings(h, s),
           NEW l \in List, NEW i \in 1..Len(s[l])
    PROVE  Becomes(h, RemoveKnownNode(h, l, s[l][i]), [s EXCEPT ![l] = RemoveAt(@, i)])
<1> DEFINE w == s[l]
           v == RemoveAt(w, i)
           n == w[i]
           after == w[Around(w, i)]
           before == w[Back(w, i)]
           g == RemoveKnownNode(h, l, n)
<1>1. w \in Seq(Node) /\ Len(w) \in Nat /\ Len(w) > 0 /\ Node \subseteq Cell /\ NULL \notin Cell
  BY HeapAssumption
<1>2. /\ Ring(h, w) /\ IsInjective(w) /\ h.size[l] = Len(w) /\ h.head[l] = w[1]
      /\ \A k \in List \ {l} : ToSet(w) \cap ToSet(s[k]) = {}
  BY <1>1 DEF Rings
<1>3. /\ Back(w, i) \in 1..Len(w) /\ Around(w, Back(w, i)) = i /\ Around(w, i) \in 1..Len(w)
      /\ Len(w) # 1 => Back(w, i) # i /\ Around(w, i) # i
  <2> DEFINE m == Len(w)
  <2>1. m \in Nat /\ i \in 1..m
    BY <1>1
  <2>2. Back(w, i) = (IF i = 1 THEN m ELSE i - 1)
        /\ \A j : Around(w, j) = (IF j = m THEN 1 ELSE j + 1)
    BY DEF Back, Around
  <2> HIDE DEF w, m
  <2>3. /\ Back(w, i) \in 1..m /\ Around(w, Back(w, i)) = i /\ Around(w, i) \in 1..m
        /\ m # 1 => Back(w, i) # i /\ Around(w, i) # i
    BY <2>1, <2>2
  <2>. QED BY <2>3 DEF m
<1>4. h.prev[n] = before /\ h.next[n] = after
  BY <1>2, <1>3 DEF Ring
<1>5. /\ n \in Node /\ after \in Node /\ before \in Node
      /\ n \in ToSet(w) /\ after \in ToSet(w) /\ before \in ToSet(w)
      /\ Len(w) # 1 => n # after /\ n # before
  <2>1. n \in Node /\ after \in Node /\ before \in Node
    BY <1>1, <1>3
  <2>2. n \in ToSet(w) /\ after \in ToSet(w) /\ before \in ToSet(w)
    BY <1>1, <1>3 DEF ToSet
  <2>3. Len(w) # 1 => n # after /\ n # before
    BY <1>2, <1>3 DEF IsInjective
  <2>. QED BY <2>1, <2>2, <2>3
<1>6. v \in Seq(Node) /\ Removed(v, w, i) /\ Len(v) = Len(w) - 1
  BY <1>1, RemoveAtShape DEF Removed
<1>7. IsInjective(v) /\ ToSet(v) = ToSet(w) \ {n}
  BY <1>1, <1>2, RemoveAtLoses DEF Loses
<1>8. /\ h.head \in [List -> Cell \cup {NULL}] /\ h.size \in [List -> 0..UINT8_MAX]
      /\ h.next \in [Cell -> Cell \cup {NULL}] /\ h.prev \in [Cell -> Cell \cup {NULL}]
  BY DEF Heap
<1>9. /\ \A k \in List \ {l} : ToSet(v) \cap ToSet(s[k]) = {}
      /\ ToSet(s[l]) \ ToSet(v) = {n}
  BY <1>2, <1>5, <1>7
<1>10. ASSUME Len(w) # 1 PROVE Becomes(h, g, [s EXCEPT ![l] = v])
  <2>1. v # <<>> /\ v[1] = (IF i = 1 THEN after ELSE w[1]) /\ (w[1] = w[i] => i = 1)
    <3>1. Len(v) >= 1 /\ 1 \in 1..Len(w) - 1 /\ (i = 1 => Around(w, i) = 2)
      BY <1>1, <1>6, <1>10 DEF Around
    <3>2. v[1] = IF 1 < i THEN w[1] ELSE w[1 + 1]
      BY <1>6, <3>1 DEF Removed
    <3>3. w[1] = w[i] => i = 1
      BY <1>1, <1>2 DEF IsInjective
    <3>. QED BY <3>1, <3>2, <3>3
  <2>2. (IF h.head[l] = n THEN after ELSE h.head[l]) = v[1]
    BY <1>2, <2>1
  <2>3. Decremented(h, l) = Len(v) /\ Len(v) \in 0..UINT8_MAX
    <3>1. Decremented(h, l) = Len(w) - 1
      BY <1>1, <1>2 DEF Decremented
    <3>2. h.size[l] \in 0..UINT8_MAX /\ UINT8_MAX \in Nat
      BY <1>8 DEF UINT8_MAX
    <3>3. \A a \in Nat : \A b \in 0..a : b > 0 => b - 1 \in 0..a
      OBVIOUS
    <3>4. Len(w) - 1 \in 0..UINT8_MAX
      BY <1>1, <1>2, <3>2, <3>3
    <3>. QED BY <1>6, <3>1, <3>4
  <2> HIDE DEF w, v, n, after, before
  <2>4. g = [h EXCEPT !.prev[after] = before, !.next[before] = after,
                      !.head[l] = IF @ = n THEN after ELSE @,
                      !.next[n] = n, !.prev[n] = n,
                      !.size[l] = Decremented(h, l)]
    BY <1>2, <1>4, <1>10 DEF RemoveKnownNode
  <2>5. Parts(g, [h.head EXCEPT ![l] = IF @ = n THEN after ELSE @],
              [h.size EXCEPT ![l] = Decremented(h, l)],
              [[h.next EXCEPT ![before] = after] EXCEPT ![n] = n],
              [[h.prev EXCEPT ![after] = before] EXCEPT ![n] = n])
    BY <2>4 DEF Parts, Heap
  <2> HIDE DEF g
  <2>6. /\ g.head = [h.head EXCEPT ![l] = v[1]]
        /\ g.size = [h.size EXCEPT ![l] = Len(v)]
        /\ g.next = [[h.next EXCEPT ![before] = after] EXCEPT ![n] = n]
        /\ g.prev = [[h.prev EXCEPT ![after] = before] EXCEPT ![n] = n]
        /\ g = [head |-> g.head, size |-> g.size, next |-> g.next, prev |-> g.prev]
    BY <2>2, <2>3, <2>5 DEF Parts
  <2>7. n \in Cell /\ after \in Cell /\ before \in Cell /\ v[1] \in Cell
    BY <1>1, <1>5, <1>6, <2>1
  <2>8. g \in Heap
    <3>1. [[h.next EXCEPT ![before] = after] EXCEPT ![n] = n] \in [Cell -> Cell \cup {NULL}]
      BY <1>8, <2>7, TwoWrites, Zenon
    <3>2. [[h.prev EXCEPT ![after] = before] EXCEPT ![n] = n] \in [Cell -> Cell \cup {NULL}]
      BY <1>8, <2>7, TwoWrites, Zenon
    <3>3. g.next \in [Cell -> Cell \cup {NULL}] /\ g.prev \in [Cell -> Cell \cup {NULL}]
      BY <2>6, <3>1, <3>2, Zenon
    <3>4. g.head \in [List -> Cell \cup {NULL}]
      BY <1>8, <2>6, <2>7
    <3>5. g.size \in [List -> 0..UINT8_MAX]
      BY <1>8, <2>3, <2>6
    <3>. QED BY <2>6, <3>3, <3>4, <3>5 DEF Heap
  <2>9. LinkedOut(h, g, before, n, after)
    BY <1>8, <2>6, <2>7 DEF LinkedOut
  <2>10. Ring(g, v)
    BY <1>1, <1>2, <1>6, <1>10, <2>9, RingShrinks DEF w, n, before, after
  <2>11. g.head[l] = (IF v = <<>> THEN NULL ELSE v[1]) /\ g.size[l] = Len(v)
    BY <1>8, <2>1, <2>6
  <2>12. \A k \in List \ {l} : g.head[k] = h.head[k] /\ g.size[k] = h.size[k]
    BY <1>8, <2>6
  <2>13. \A c \in Cell \ ToSet(w) : g.next[c] = h.next[c] /\ g.prev[c] = h.prev[c]
    BY <1>5, <2>9 DEF LinkedOut
  <2>14. g.next[n] = n /\ g.prev[n] = n
    BY <2>7, <2>9 DEF LinkedOut
  <2>15. Rings(g, [s EXCEPT ![l] = v])
    <3>1. \A c \in Cell \ (ToSet(w) \cup ToSet(v)) :
             g.next[c] = h.next[c] /\ g.prev[c] = h.prev[c]
      BY <2>13
    <3>2. \A c \in ToSet(w) \ ToSet(v) : g.next[c] = c /\ g.prev[c] = c
      BY <1>9, <2>14 DEF w
    <3>3. OneRingChanged(h, g, s, l, w, v)
      BY <1>7, <1>9, <2>10, <2>11, <2>12, <3>1, <3>2 DEF OneRingChanged, w
    <3>. QED BY <1>6, <3>3, RingsChange
  <2>16. \A c \in Cell \ Node : g.next[c] = h.next[c] /\ g.prev[c] = h.prev[c]
    BY <1>5, <2>9 DEF LinkedOut
  <2>. QED BY <2>8, <2>15, <2>16 DEF Becomes
<1>11. ASSUME Len(w) = 1 PROVE Becomes(h, g, [s EXCEPT ![l] = v])
  <2>1. v = <<>> /\ i = 1 /\ ToSet(w) = {n}
    <3>1. i = 1 /\ Len(v) = 0
      BY <1>1, <1>6, <1>11
    <3>2. \A j \in 1..Len(w) : w[j] = n
      BY <1>11, <3>1
    <3>. QED BY <1>5, <1>6, <3>1, <3>2 DEF ToSet
  <2> HIDE DEF w, v, n
  <2>2. g = [h EXCEPT !.size[l] = 0, !.head[l] = NULL, !.next[n] = n, !.prev[n] = n]
    BY <1>2, <1>11 DEF RemoveKnownNode
  <2>3. Parts(g, [h.head EXCEPT ![l] = NULL], [h.size EXCEPT ![l] = 0],
              [h.next EXCEPT ![n] = n], [h.prev EXCEPT ![n] = n])
    BY <2>2 DEF Parts, Heap
  <2> HIDE DEF g
  <2>4. /\ g.head = [h.head EXCEPT ![l] = NULL] /\ g.size = [h.size EXCEPT ![l] = 0]
        /\ g.next = [h.next EXCEPT ![n] = n] /\ g.prev = [h.prev EXCEPT ![n] = n]
        /\ g = [head |-> g.head, size |-> g.size, next |-> g.next, prev |-> g.prev]
    BY <2>3 DEF Parts
  <2>5. n \in Cell /\ 0 \in 0..UINT8_MAX
    BY <1>1, <1>5 DEF UINT8_MAX
  <2>6. g \in Heap
    <3>1. g.next \in [Cell -> Cell \cup {NULL}] /\ g.prev \in [Cell -> Cell \cup {NULL}]
      BY <1>8, <2>4, <2>5
    <3>2. g.head \in [List -> Cell \cup {NULL}]
      BY <1>8, <2>4
    <3>3. g.size \in [List -> 0..UINT8_MAX]
      BY <1>8, <2>4, <2>5
    <3>. QED BY <2>4, <3>1, <3>2, <3>3 DEF Heap
  <2>7. Ring(g, v)
    BY <2>1 DEF Ring
  <2>8. g.head[l] = (IF v = <<>> THEN NULL ELSE v[1]) /\ g.size[l] = Len(v)
    BY <1>8, <2>1, <2>4
  <2>9. \A k \in List \ {l} : g.head[k] = h.head[k] /\ g.size[k] = h.size[k]
    BY <1>8, <2>4
  <2>10. \A c \in Cell \ {n} : g.next[c] = h.next[c] /\ g.prev[c] = h.prev[c]
    BY <1>8, <2>4
  <2>11. g.next[n] = n /\ g.prev[n] = n
    BY <1>8, <2>4, <2>5
  <2>12. Rings(g, [s EXCEPT ![l] = v])
    <3>1. \A c \in Cell \ (ToSet(w) \cup ToSet(v)) :
             g.next[c] = h.next[c] /\ g.prev[c] = h.prev[c]
      BY <2>1, <2>10
    <3>2. \A c \in ToSet(w) \ ToSet(v) : g.next[c] = c /\ g.prev[c] = c
      BY <1>9, <2>11 DEF w
    <3>3. OneRingChanged(h, g, s, l, w, v)
      BY <1>7, <1>9, <2>7, <2>8, <2>9, <3>1, <3>2 DEF OneRingChanged, w
    <3>. QED BY <1>6, <3>3, RingsChange
  <2>. QED BY <1>5, <2>6, <2>10, <2>12 DEF Becomes
<1>12. [s EXCEPT ![l] = RemoveAt(@, i)] = [s EXCEPT ![l] = v]
  OBVIOUS
<1> HIDE DEF g, v
<1>13. Becomes(h, g, [s EXCEPT ![l] = v])
  BY <1>10, <1>11
<1>. QED BY <1>12, <1>13 DEF g, v

----------------------------------------------------------------------------
(* A client that keeps to the headers. *)

\* The walks of a heap are the only sequences its links can be.
LEMMA WalksAre ==
    ASSUME NEW h \in Heap, NEW s \in [List -> Seq(Node)], Rings(h, s)
    PROVE  Walks(h) = s
<1>1. ASSUME NEW l \in List PROVE Walk(h, l) = s[l]
  <2> DEFINE w == s[l]
  <2>1. w \in Seq(Node)
    OBVIOUS
  <2>2. Ring(h, w) /\ h.head[l] = (IF w = <<>> THEN NULL ELSE w[1]) /\ h.size[l] = Len(w)
    BY DEF Rings
  <2> HIDE DEF w
  <2>3. Walk(h, l) = w
    BY <2>1, <2>2, WalkIs
  <2>. QED BY <2>3 DEF w
<1>. QED BY <1>1 DEF Walks

\* A heap that has the links of some sequences is a heap of closed rings.
LEMMA RingsSuffice ==
    ASSUME NEW h \in Heap, NEW g, NEW s \in [List -> Seq(Node)], NEW l \in List,
           NEW v \in Seq(Node), Becomes(h, g, [s EXCEPT ![l] = v])
    PROVE  /\ g \in Heap /\ Walks(g) = [s EXCEPT ![l] = v]
           /\ Walks(g) \in [List -> Seq(Node)] /\ Rings(g, Walks(g))
<1> DEFINE t == [s EXCEPT ![l] = v]
<1>1. t \in [List -> Seq(Node)] /\ g \in Heap /\ Rings(g, t)
  BY DEF Becomes
<1> HIDE DEF t
<1>2. Walks(g) = t
  BY <1>1, WalksAre
<1>. QED BY <1>1, <1>2 DEF t

\* The empty lists are rings.
LEMMA ListInitRings == ListInit => RingsClosed /\ AsSequences!Init
<1>. SUFFICES ASSUME ListInit PROVE RingsClosed /\ AsSequences!Init
  OBVIOUS
<1> DEFINE s == [l \in List |-> <<>>]
<1>1. s \in [List -> Seq(Node)] /\ \A l \in List : s[l] = <<>>
  OBVIOUS
<1>2. /\ heap.head = [l \in List |-> NULL] /\ heap.size = [l \in List |-> 0]
      /\ heap.next = [c \in Cell |-> c] /\ heap.prev = [c \in Cell |-> c]
      /\ heap = [head |-> heap.head, size |-> heap.size, next |-> heap.next, prev |-> heap.prev]
  BY DEF ListInit
<1> HIDE DEF s
<1>3. heap \in Heap
  <2>1. 0 \in 0..UINT8_MAX
    BY DEF UINT8_MAX
  <2>2. /\ heap.head \in [List -> Cell \cup {NULL}] /\ heap.size \in [List -> 0..UINT8_MAX]
        /\ heap.next \in [Cell -> Cell \cup {NULL}] /\ heap.prev \in [Cell -> Cell \cup {NULL}]
    BY <1>2, <2>1
  <2>. QED BY <1>2, <2>2 DEF Heap
<1>4. Rings(heap, s)
  <2>1. ToSet(<<>>) = {} /\ IsInjective(<<>>) /\ Len(<<>>) = 0
    BY ShortLists DEF IsInjective
  <2>2. Ring(heap, <<>>)
    BY <2>1 DEF Ring
  <2>3. \A l \in List : heap.head[l] = NULL /\ heap.size[l] = 0
    BY <1>2
  <2>4. \A n \in Node : heap.next[n] = n /\ heap.prev[n] = n
    BY <1>2, HeapAssumption
  <2>. QED BY <1>1, <2>1, <2>2, <2>3, <2>4 DEF Rings
<1>5. Walks(heap) = s
  BY <1>1, <1>3, <1>4, WalksAre
<1>. QED BY <1>1, <1>3, <1>4, <1>5 DEF RingsClosed, AsSequences!Init, s

\* A step of the client changes one ring as the abstract list asks.
LEMMA ListStepKeeps ==
    RingsClosed /\ [ListNext]_heap =>
       RingsClosed' /\ [AsSequences!Next]_(Walks(heap)) /\ [DoneAsCalled]_heap
<1>. SUFFICES ASSUME RingsClosed, [ListNext]_heap
              PROVE  RingsClosed' /\ [AsSequences!Next]_(Walks(heap)) /\ [DoneAsCalled]_heap
  OBVIOUS
<1> DEFINE s == Walks(heap)
<1>1. heap \in Heap /\ s \in [List -> Seq(Node)] /\ Rings(heap, s)
  BY DEF RingsClosed
<1>2. \A l \in List : s[l] = Walk(heap, l)
  BY DEF Walks
<1>3. ASSUME NEW n \in Node, ~Linked(heap, n) PROVE \A k \in List : n \notin ToSet(s[k])
  BY <1>2, <1>3 DEF Linked
<1> HIDE DEF s
<1>4. ASSUME NEW l \in List, NEW n \in Node, InsertLast(l, n)
      PROVE  RingsClosed' /\ AsSequences!AddLast(l, n)
  <2>1. heap' = InsertNodeToTail(heap, l, n) /\ \A k \in List : n \notin ToSet(s[k])
    BY <1>3, <1>4 DEF InsertLast
  <2>2. Becomes(heap, heap', [s EXCEPT ![l] = Append(s[l], n)])
    BY <1>1, <1>4, <2>1, InsertNodeToTailKeeps DEF InsertLast
  <2>3. Append(s[l], n) \in Seq(Node)
    BY <1>1
  <2>4. /\ heap' \in Heap /\ Walks(heap') = [s EXCEPT ![l] = Append(s[l], n)]
        /\ Walks(heap') \in [List -> Seq(Node)] /\ Rings(heap', Walks(heap'))
    BY <1>1, <2>2, <2>3, RingsSuffice
  <2>5. AsSequences!AddLast(l, n)
    <3>1. Walks(heap)' = [Walks(heap) EXCEPT ![l] = Append(@, n)]
      BY <2>4 DEF s
    <3>2. AsSequences!Unlisted(n)
      BY <2>1 DEF AsSequences!Unlisted, AsSequences!ToSet, ToSet, s
    <3>. QED BY <3>1, <3>2 DEF AsSequences!AddLast
  <2>. QED BY <2>4, <2>5 DEF RingsClosed
<1>5. ASSUME NEW l \in List, NEW n \in Node, NEW existing \in Node,
             InsertBefore(l, existing, n)
      PROVE  RingsClosed' /\ AsSequences!AddBefore(l, existing, n)
  <2>1. heap' = InsertNodeBefore(heap, l, existing, n) /\ \A k \in List : n \notin ToSet(s[k])
    BY <1>3, <1>5 DEF InsertBefore
  <2>2. existing \in ToSet(s[l])
    BY <1>2, <1>5 DEF InsertBefore
  <2>3. PICK i \in 1..Len(s[l]) : s[l][i] = existing
    BY <1>1, <2>2 DEF ToSet
  <2>4. Becomes(heap, heap', [s EXCEPT ![l] = InsertAt(s[l], i, n)])
    <3>1. heap.size[l] < UINT8_MAX
      BY <1>5 DEF InsertBefore
    <3>2. Becomes(heap, InsertNodeBefore(heap, l, s[l][i], n), [s EXCEPT ![l] = InsertAt(@, i, n)])
      BY <1>1, <2>1, <3>1, InsertNodeBeforeKeeps
    <3>. QED BY <2>1, <2>3, <3>2
  <2>5. InsertAt(s[l], i, n) \in Seq(Node)
    <3>1. s[l] \in Seq(Node)
      BY <1>1
    <3>. QED BY <3>1, InsertAtShape
  <2>6. /\ heap' \in Heap /\ Walks(heap') = [s EXCEPT ![l] = InsertAt(s[l], i, n)]
        /\ Walks(heap') \in [List -> Seq(Node)] /\ Rings(heap', Walks(heap'))
    BY <1>1, <2>4, <2>5, RingsSuffice
  <2>7. AsSequences!AddBefore(l, existing, n)
    <3>1. Walks(heap)' = [Walks(heap) EXCEPT ![l] = InsertAt(@, i, n)]
      BY <2>6 DEF s
    <3>2. AsSequences!Unlisted(n)
      BY <2>1 DEF AsSequences!Unlisted, AsSequences!ToSet, ToSet, s
    <3>3. i \in 1..Len(Walks(heap)[l]) /\ Walks(heap)[l][i] = existing
      BY <2>3 DEF s
    <3>. QED BY <3>1, <3>2, <3>3 DEF AsSequences!AddBefore, AsSequences!InsertAt, InsertAt
  <2>. QED BY <2>6, <2>7 DEF RingsClosed
<1>6. ASSUME NEW l \in List, NEW n \in Node, Take(l, n)
      PROVE  RingsClosed' /\ AsSequences!TakeOut(l, n)
  <2>1. heap' = RemoveKnownNode(heap, l, n) /\ n \in ToSet(s[l])
    BY <1>2, <1>6 DEF Take
  <2>2. PICK i \in 1..Len(s[l]) : s[l][i] = n
    BY <1>1, <2>1 DEF ToSet
  <2>3. Becomes(heap, heap', [s EXCEPT ![l] = RemoveAt(s[l], i)])
    BY <1>1, <2>1, <2>2, RemoveKnownNodeKeeps
  <2>4. RemoveAt(s[l], i) \in Seq(Node)
    <3>1. s[l] \in Seq(Node)
      BY <1>1
    <3>. QED BY <3>1, RemoveAtShape
  <2>5. /\ heap' \in Heap /\ Walks(heap') = [s EXCEPT ![l] = RemoveAt(s[l], i)]
        /\ Walks(heap') \in [List -> Seq(Node)] /\ Rings(heap', Walks(heap'))
    BY <1>1, <2>3, <2>4, RingsSuffice
  <2>6. AsSequences!TakeOut(l, n)
    <3>1. Walks(heap)' = [Walks(heap) EXCEPT ![l] = RemoveAt(@, i)]
      BY <2>5 DEF s
    <3>2. i \in 1..Len(Walks(heap)[l]) /\ Walks(heap)[l][i] = n
      BY <2>2 DEF s
    <3>. QED BY <3>1, <3>2 DEF AsSequences!TakeOut, AsSequences!RemoveAt, RemoveAt
  <2>. QED BY <2>5, <2>6 DEF RingsClosed
<1>7. ASSUME UNCHANGED heap PROVE RingsClosed' /\ UNCHANGED Walks(heap)
  BY <1>7 DEF RingsClosed
<1>8. DoneAsCalled
  BY <1>4, <1>5, <1>6 DEF DoneAsCalled
<1>9. ASSUME ListNext PROVE RingsClosed' /\ AsSequences!Next
  BY <1>4, <1>5, <1>6, <1>9 DEF ListNext, AsSequences!Next
<1>. QED BY <1>7, <1>8, <1>9

\* The rings of a client that inserts a node only when it is in no list, and
\* removes it from the list it is in, stay closed: prev undoes next, a node is in
\* one list once, and a node in no list is linked to itself.
THEOREM ListsStayRings == ListSpec => []RingsClosed
<1>1. ListInit => RingsClosed
  BY ListInitRings
<1>2. RingsClosed /\ [ListNext]_heap => RingsClosed'
  BY ListStepKeeps
<1>. QED BY <1>1, <1>2, PTL DEF ListSpec

\* The pointer surgery of xrt_list.c does to the walks, call by call, what
\* ListContract says of that call's arguments: the new node is the last of its list
\* or stands right before the existing one, the node that is named is the one
\* removed, and the others stay as they were.
THEOREM LinksAreSequences == ListSpec => ImplementsSequences
<1>1. ListInit => AsSequences!Init
  BY ListInitRings
<1>2. RingsClosed /\ [ListNext]_heap =>
         [AsSequences!Next]_(Walks(heap)) /\ [DoneAsCalled]_heap
  BY ListStepKeeps
<1>. QED BY <1>1, <1>2, ListsStayRings, PTL DEF ListSpec, ImplementsSequences, AsSequences!Spec
=============================================================================
