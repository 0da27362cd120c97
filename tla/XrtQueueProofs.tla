--------------------------- MODULE XrtQueueProofs ---------------------------
(***************************************************************************)
(* A queue of any size, with any blocks, threads and interrupts, loses no  *)
(* slot and no block: tokens are conserved, and with them the kernel's     *)
(* invariant holds under the queue's client too.                           *)
(***************************************************************************)
EXTENDS XrtQueue, XrtContractProofs, FiniteSetTheorems

\* The queue's semaphores are semaphores, and its number of blocks a 16-bit number.
LEMMA QueueFacts ==
    /\ WriteAccess \in Semaphore /\ ReadAccess \in Semaphore /\ ReadAccess # WriteAccess
    /\ WriteAccess \in Primitive /\ ReadAccess \in Primitive
    /\ WriteAccess \notin IsrSemaphore
    /\ BlockCount \in Nat \ {0} /\ BlockCount <= UINT16_MAX
    /\ MaxValue[WriteAccess] = BlockCount /\ MaxValue[ReadAccess] = BlockCount
    /\ InitialValue[WriteAccess] = BlockCount /\ InitialValue[ReadAccess] = 0
<1>1. UINT16_MAX \in Nat
  BY Width
<1>2. MaxValue[WriteAccess] \in 1..UINT16_MAX
  BY QueueAssumption, SemaphoreAssumption DEF Accepted
<1>3. BlockCount \in 1..UINT16_MAX
  BY <1>2, QueueAssumption DEF TokensSetUp
<1>4. BlockCount \in Nat \ {0} /\ BlockCount <= UINT16_MAX
  BY <1>1, <1>3
<1>. QED BY <1>4, QueueAssumption DEF Accepted, TokensSetUp, Primitive

----------------------------------------------------------------------------
(* The kernel under this client. *)

\* A token taken leaves a 16-bit number.
LEMMA TakenTyped ==
    ASSUME IInv, NEW s \in Semaphore, value[s] > 0
    PROVE  Taken(s) \in [Semaphore -> 0..UINT16_MAX]
<1>1. UINT16_MAX \in Nat /\ value \in [Semaphore -> 0..UINT16_MAX]
  BY Width DEF IInv, TypeOK, SemaphoreTypeOK
<1>2. value[s] - 1 \in 0..UINT16_MAX
  BY <1>1
<1>. QED BY <1>1, <1>2 DEF Taken

\* The calls of the queue's functions are calls of the kernel's.
LEMMA QueueCalls ==
    \A s \in Semaphore : Take(s) \in Calls /\ Release(s) \in Calls
                         /\ Take(s) # NoCall /\ Release(s) # NoCall /\ Take(s) # Release(s)
BY DEF Take, Release, Calls, NoCall

\* Whatever is not the interrupt handler's send is a step of the kernel.
LEMMA QueueStepIsKernelStep ==
    ASSUME [QueueNext]_allVars
    PROVE  [Next]_vars \/ \E b \in Block : IsrSend(b)
<1>1. CASE Elsewhere
  BY <1>1 DEF Elsewhere, OtherCall, Next
<1>2. CASE \E t \in Thread \ {Idle} : SendStep(t) \/ ReceiveStep(t)
  BY <1>2, QueueCalls, QueueFacts
     DEF SendStep, ReceiveStep, SendCall, SendCopy, SendDone, ReceiveCall, ReceiveCopy, ReceiveDone,
         Next
<1>3. CASE UNCHANGED allVars
  BY <1>3 DEF allVars
<1>. QED BY <1>1, <1>2, <1>3 DEF QueueNext

\* The kernel's invariant survives the queue.
LEMMA QueueStepKeeps ==
    ASSUME IInv, [QueueNext]_allVars
    PROVE  IInv'
<1>1. CASE [Next]_vars
  BY <1>1, StepKeeps
<1>2. ASSUME NEW b \in Block, IsrSend(b) PROVE IInv'
  <2>1. Taken(WriteAccess) \in [Semaphore -> 0..UINT16_MAX]
    BY <1>2, QueueFacts, TakenTyped DEF IsrSend
  <2>. QED BY <1>2, <2>1, QueueFacts, SignalKeeps DEF IsrSend
<1>. QED BY <1>1, <1>2, QueueStepIsKernelStep

\* Lists, TCBs, owners and the switch stay consistent under clients that use a
\* queue, one with an interrupt handler that takes tokens included.
THEOREM QueueKeepsKernel == QueueSpec => []IInv
BY InitIInv, QueueStepKeeps, PTL DEF QueueSpec

----------------------------------------------------------------------------
(* Tokens, for one side of the queue at a time: semaphore s, job `asks' of   *)
(* who takes its tokens, job `done' of who is about to release one.          *)

\* Who asks for a token, or waits for one, is in its queue function.
Asks(s, asks) ==
    /\ \A t \in WaitersOf(s) : job[t] = asks
    /\ svc = Take(s) => job[cpu] = asks

JobsOK == job \in [Thread -> {"none", "sending", "sent", "receiving", "received"}]

\* Nothing happens to the tokens of s: no count, no waiter, no call.
Calm(s) ==
    /\ Rests(s)
    /\ svc' = Release(s) <=> svc = Release(s)
    /\ svc' = Take(s) <=> svc = Take(s)
    /\ svc = Take(s) => cpu' = cpu

\* What a step of the kernel or of other calls does to the tokens of s.
LEMMA ElsewhereChange ==
    ASSUME IInv, Elsewhere, NEW s \in {WriteAccess, ReadAccess}
    PROVE  \/ Calm(s)
           \/ svc = Take(s) /\ svc' = NoCall /\ (TakesToken(s) \/ StartsWaiting(s))
           \/ svc = Release(s) /\ svc' = NoCall /\ (AddsToken(s) \/ ServesBest(s))
<1>1. s \in Semaphore /\ s \in Primitive
  BY QueueFacts
<1>2. CASE KernelStep
  <2>1. Rests(s) /\ svc' = svc
    BY <1>1, <1>2, KernelWaiters DEF KernelStep, primitives, Rests
  <2>2. svc = NoCall \/ cpu' = cpu
    <3>1. svc # NoCall => ~switching
      BY DEF IInv, CallPending
    <3>. QED BY <1>2, <3>1 DEF KernelStep, ThreadCreate, StartStep, StartPick, StartArmFirstSwitch,
                StartGo, StartRequestSwitch, TickBegin, TickVisit, TickEnd, PendSVEnter,
                SwitchStep, PendSVFirst, PendSVSwitch
  <2>. QED BY <1>1, <2>1, <2>2, QueueCalls DEF Calm
<1>3. CASE OtherCall
  <2>1. PICK c \in Calls : c \notin {Take(s), Release(s)} /\ Raise(c)
    BY <1>3 DEF OtherCall
  <2>2. svc = NoCall /\ svc' = c /\ value' = value /\ loc' = loc
    BY <2>1 DEF Raise, kernelVars, primitives
  <2>. QED BY <1>1, <2>1, <2>2, QueueCalls DEF Calm, Rests, WaitersOf
<1>4. CASE \E r \in IsrSemaphore \ {ReadAccess} : IsrRelease(r)
  <2>1. PICK r \in IsrSemaphore \ {ReadAccess} :
           SignalLocked(r, value) /\ svc' = svc /\ cpu' = cpu
    BY <1>4 DEF IsrRelease
  <2>2. r \in Semaphore /\ s # r /\ value \in [Semaphore -> 0..UINT16_MAX]
    BY QueueFacts, SystemAssumption DEF IInv, TypeOK, SemaphoreTypeOK
  <2>3. WaitersOf(s)' = WaitersOf(s)
    BY <1>1, <2>1, <2>2, SignalLeavesOthers
  <2>4. value'[s] = value[s]
    BY <1>1, <2>1, <2>2 DEF SignalLocked
  <2>. QED BY <2>1, <2>3, <2>4 DEF Calm, Rests
<1>5. CASE Dispatch
  <2>1. svc # NoCall /\ svc \in Calls /\ svc' = NoCall /\ cpu' = cpu
    BY <1>5 DEF Dispatch, IInv, TypeOK
  <2>2. CASE TakeCall(Running)
    <3>1. svc.op = "SEMAPHORE_TAKE" /\ svc = [op |-> svc.op, arg |-> svc.arg]
      BY <2>1, <2>2 DEF TakeCall, Calls
    <3>2. \/ svc.arg = s /\ (TakesToken(s) \/ StartsWaiting(s))
          \/ svc.arg # s /\ Rests(s)
      BY <1>1, <2>1, <2>2, TakeChanges
    <3>3. svc.arg = s => svc = Take(s)
      BY <3>1 DEF Take
    <3>4. svc.arg # s => svc \notin {Take(s), Release(s)}
      BY DEF Take, Release
    <3>. QED BY <1>1, <2>1, <3>2, <3>3, <3>4, QueueCalls DEF Calm
  <2>3. CASE ReleaseCall
    <3>1. svc.op = "SEMAPHORE_RELEASE" /\ svc = [op |-> svc.op, arg |-> svc.arg]
      BY <2>1, <2>3 DEF ReleaseCall, Calls
    <3>2. \/ svc.arg = s /\ (AddsToken(s) \/ ServesBest(s))
          \/ svc.arg # s /\ Rests(s)
      BY <1>1, <2>1, <2>3, ReleaseChanges
    <3>3. svc.arg = s => svc = Release(s)
      BY <3>1 DEF Release
    <3>4. svc.arg # s => svc \notin {Take(s), Release(s)}
      BY DEF Take, Release
    <3>. QED BY <1>1, <2>1, <3>2, <3>3, <3>4, QueueCalls DEF Calm
  <2>4. CASE LockCall(Running) \/ UnlockCall(Running) \/ YieldCall \/ DelayCall(Running)
    <3>1. svc \notin {Take(s), Release(s)}
      BY <2>4 DEF LockCall, UnlockCall, YieldCall, DelayCall, Take, Release
    <3>2. Rests(s)
      BY <1>1, <2>1, <2>4, OtherCallsRest
    <3>. QED BY <1>1, <2>1, <3>1, <3>2, QueueCalls DEF Calm
  <2>. QED BY <1>5, <2>2, <2>3, <2>4 DEF Dispatch
<1>. QED BY <1>2, <1>3, <1>4, <1>5 DEF Elsewhere

\* The counts are numbers.
LEMMA TokenTypes ==
    ASSUME IInv, NEW s \in Semaphore, NEW asks, NEW done
    PROVE  /\ value[s] \in Nat /\ InTransit(s) \in {0, 1}
           /\ IsFiniteSet(Holders(s, asks, done))
           /\ Cardinality(Holders(s, asks, done)) \in Nat
           /\ Tokens(s, asks, done) \in Nat
           /\ value[s] + InTransit(s) <= Tokens(s, asks, done)
<1>1. value[s] \in Nat /\ InTransit(s) \in {0, 1}
  BY CounterFacts DEF IInv, InTransit
<1>2. Holders(s, asks, done) \in SUBSET Thread
  BY DEF Holders
<1>3. IsFiniteSet(Holders(s, asks, done)) /\ Cardinality(Holders(s, asks, done)) \in Nat
  BY <1>2, QueueAssumption, FS_Subset, FS_CardinalityType
<1>. QED BY <1>1, <1>3 DEF Tokens

\* A release below the ceiling counts.
LEMMA CountsUp ==
    ASSUME IInv, NEW s \in {WriteAccess, ReadAccess}, value[s] < BlockCount
    PROVE  Incremented(s) = value[s] + 1
<1>1. /\ UINT16_MAX \in Nat /\ value[s] \in Nat
      /\ BlockCount \in Nat /\ BlockCount <= UINT16_MAX /\ MaxValue[s] = BlockCount
  BY QueueFacts, CounterFacts DEF IInv
<1>2. \A a, b \in Nat : a < b => a % b = a
  OBVIOUS
<1>3. (value[s] + 1) % (UINT16_MAX + 1) = value[s] + 1
  BY <1>1, <1>2
<1>. QED BY <1>1, <1>3 DEF Incremented

\* A step from elsewhere moves tokens between the counter, the call on its way and
\* their holders, and loses none.
LEMMA ElsewhereConserves ==
    ASSUME IInv, JobsOK, Elsewhere, NEW s \in {WriteAccess, ReadAccess}, NEW asks, NEW done,
           asks # done, Asks(s, asks), Tokens(s, asks, done) <= BlockCount
    PROVE  Tokens(s, asks, done)' = Tokens(s, asks, done) /\ Asks(s, asks)'
<1> DEFINE H == Holders(s, asks, done)
<1>1. /\ s \in Semaphore /\ value[s] \in Nat /\ InTransit(s) \in {0, 1} /\ IsFiniteSet(H)
      /\ Cardinality(H) \in Nat /\ value[s] + InTransit(s) <= Tokens(s, asks, done)
      /\ Tokens(s, asks, done) \in Nat /\ BlockCount \in Nat
  BY QueueFacts, TokenTypes
<1>2. job' = job
  BY DEF Elsewhere, queueVars
<1>3. Take(s) # NoCall /\ Release(s) # NoCall /\ Take(s) # Release(s)
  BY <1>1, QueueCalls
<1>4. \A t \in Thread : t \in WaitersOf(s) <=> loc[t] = s
  BY DEF WaitersOf
<1>5. \A t \in Thread : t \in WaitersOf(s)' <=> loc'[t] = s
  BY DEF WaitersOf
<1>6. \A t : t \in H <=>
               /\ t \in Thread
               /\ \/ job[t] = done
                  \/ job[t] = asks /\ t \notin WaitersOf(s) /\ ~(svc = Take(s) /\ cpu = t)
  BY <1>4 DEF Holders, Granted
<1>7. \A t : t \in H' <=>
               /\ t \in Thread
               /\ \/ job[t] = done
                  \/ job[t] = asks /\ t \notin WaitersOf(s)' /\ ~(svc' = Take(s) /\ cpu' = t)
  BY <1>2, <1>5 DEF Holders, Granted
<1>8. Tokens(s, asks, done) = value[s] + InTransit(s) + Cardinality(H)
      /\ Tokens(s, asks, done)' = value'[s] + InTransit(s)' + Cardinality(H')
  BY DEF Tokens
<1>9. /\ InTransit(s) = IF svc = Release(s) THEN 1 ELSE 0
      /\ InTransit(s)' = IF svc' = Release(s) THEN 1 ELSE 0
  BY DEF InTransit, Release
<1>10. \A t \in WaitersOf(s) : job[t] = asks /\ t \in Thread
  BY DEF Asks, WaitersOf
<1>11. svc # NoCall => cpu \in Thread /\ cpu \notin WaitersOf(s)
  BY <1>1, CallerRuns, KernelLists DEF WaitersOf
<1>12. svc = Take(s) => job[cpu] = asks
  BY DEF Asks
<1>13. Asks(s, asks)' <=> /\ \A t \in WaitersOf(s)' : job[t] = asks
                          /\ svc' = Take(s) => job[cpu'] = asks
  BY <1>2 DEF Asks, Take
<1> HIDE DEF H
<1>14. CASE Calm(s)
  <2>1. H' = H
    BY <1>6, <1>7, <1>14 DEF Calm, Rests
  <2>2. InTransit(s)' = InTransit(s) /\ value'[s] = value[s] /\ WaitersOf(s)' = WaitersOf(s)
    BY <1>9, <1>14 DEF Calm, Rests
  <2>3. svc' = Take(s) => job[cpu'] = asks
    BY <1>12, <1>14 DEF Calm
  <2>. QED BY <1>8, <1>10, <1>13, <2>1, <2>2, <2>3
<1>15. CASE svc = Take(s) /\ svc' = NoCall /\ TakesToken(s)
  <2>1. H' = H \cup {cpu} /\ cpu \notin H
    BY <1>3, <1>6, <1>7, <1>11, <1>12, <1>15 DEF TakesToken
  <2>2. Cardinality(H') = Cardinality(H) + 1
    BY <1>1, <2>1, FS_AddElement
  <2>3. InTransit(s) = 0 /\ InTransit(s)' = 0 /\ value'[s] = value[s] - 1
    BY <1>3, <1>9, <1>15 DEF TakesToken
  <2>. QED BY <1>1, <1>3, <1>8, <1>10, <1>13, <1>15, <2>2, <2>3 DEF TakesToken
<1>16. CASE svc = Take(s) /\ svc' = NoCall /\ StartsWaiting(s)
  <2>1. WaitersOf(s)' = WaitersOf(s) \cup {cpu} /\ value'[s] = value[s]
    BY <1>16 DEF StartsWaiting
  <2>2. H' = H
    BY <1>3, <1>6, <1>7, <1>11, <1>12, <1>16, <2>1
  <2>3. InTransit(s) = 0 /\ InTransit(s)' = 0
    BY <1>3, <1>9, <1>16
  <2>. QED BY <1>3, <1>8, <1>10, <1>12, <1>13, <1>16, <2>1, <2>2, <2>3
<1>17. CASE svc = Release(s) /\ svc' = NoCall /\ AddsToken(s)
  <2>1. H' = H
    BY <1>3, <1>6, <1>7, <1>17 DEF AddsToken
  <2>2. InTransit(s) = 1 /\ InTransit(s)' = 0
    BY <1>3, <1>9, <1>17
  <2>3. value[s] < BlockCount
    BY <1>1, <2>2
  <2>4. value'[s] = value[s] + 1 /\ WaitersOf(s)' = WaitersOf(s)
    BY <1>17, <2>3, CountsUp DEF AddsToken
  <2>. QED BY <1>1, <1>3, <1>8, <1>10, <1>13, <1>17, <2>1, <2>2, <2>4
<1>18. CASE svc = Release(s) /\ svc' = NoCall /\ ServesBest(s)
  <2>1. PICK w \in WaitersOf(s) : WaitersOf(s)' = WaitersOf(s) \ {w} /\ value'[s] = value[s]
    BY <1>18 DEF ServesBest
  <2>2. H' = H \cup {w} /\ w \notin H
    BY <1>3, <1>6, <1>7, <1>10, <1>18, <2>1
  <2>3. Cardinality(H') = Cardinality(H) + 1
    BY <1>1, <2>2, FS_AddElement
  <2>4. InTransit(s) = 1 /\ InTransit(s)' = 0
    BY <1>3, <1>9, <1>18
  <2>. QED BY <1>1, <1>3, <1>8, <1>10, <1>13, <1>18, <2>1, <2>3, <2>4
<1>. QED BY <1>14, <1>15, <1>16, <1>17, <1>18, ElsewhereChange

\* A step of the thread t in its queue function, from one job to the next: it is a
\* holder before and after or not, and its call may put a token on its way.
LEMMA OwnStepConserves ==
    ASSUME IInv, JobsOK, NEW t \in Thread, NEW from, NEW to, Continues(t, from, to),
           loc' = loc, cpu' = cpu, value' = value,
           NEW s \in {WriteAccess, ReadAccess}, NEW asks, NEW done,
           asks # done, Asks(s, asks), svc' = Take(s) => to = asks
    PROVE  /\ Asks(s, asks)'
           /\ Tokens(s, asks, done)' =
                 Tokens(s, asks, done) + InTransit(s)'
                   + (IF to = done \/ (to = asks /\ svc' # Take(s)) THEN 1 ELSE 0)
                   - (IF from \in {asks, done} THEN 1 ELSE 0)
<1> DEFINE H == Holders(s, asks, done)
           joins == to = done \/ (to = asks /\ svc' # Take(s))
<1>1. /\ s \in Semaphore /\ value[s] \in Nat /\ IsFiniteSet(H) /\ Cardinality(H) \in Nat
      /\ Take(s) # NoCall /\ Release(s) # NoCall
  BY QueueFacts, TokenTypes, QueueCalls
<1>2. cpu = t /\ svc = NoCall /\ job[t] = from /\ job' = [job EXCEPT ![t] = to] /\ ~SwitchDue
  BY DEF Continues, SwitchDue
<1>3. t \notin WaitersOf(s)
  <2>1. cpu = Running /\ boot # "create"
    BY <1>2, KernelAssumption DEF IInv, Phase
  <2>2. state[t] # "BLOCKED"
    BY <1>2, <2>1 DEF IInv, BlockedIsLeaving
  <2>. QED BY <1>1, <2>2, KernelLists DEF IInv, StateAgrees, WaitersOf, Created
<1>4. WaitersOf(s)' = WaitersOf(s) /\ \A u \in Thread : u \in WaitersOf(s) <=> loc[u] = s
  BY DEF WaitersOf
<1>5. \A u : u \in H <=>
               /\ u \in Thread
               /\ \/ job[u] = done
                  \/ job[u] = asks /\ u \notin WaitersOf(s)
  BY <1>1, <1>2, <1>4 DEF Holders, Granted
<1>6. \A u : u \in H' <=>
               /\ u \in Thread
               /\ \/ job'[u] = done
                  \/ job'[u] = asks /\ u \notin WaitersOf(s) /\ ~(svc' = Take(s) /\ u = t)
  BY <1>2, <1>4 DEF Holders, Granted
<1>7. job'[t] = to /\ \A u \in Thread : u # t => job'[u] = job[u]
  BY <1>2 DEF JobsOK
<1>8. (t \in H <=> from \in {asks, done}) /\ (t \in H' <=> joins)
  BY <1>2, <1>3, <1>5, <1>6, <1>7
<1>9. H' = IF joins THEN (H \ {t}) \cup {t} ELSE H \ {t}
  BY <1>5, <1>6, <1>7, <1>8
<1>10. Tokens(s, asks, done) = value[s] + InTransit(s) + Cardinality(H)
       /\ Tokens(s, asks, done)' = value[s] + InTransit(s)' + Cardinality(H')
  BY DEF Tokens
<1>11. InTransit(s) = 0 /\ InTransit(s)' \in {0, 1}
  BY <1>1, <1>2 DEF InTransit
<1>12. Asks(s, asks)'
  <2>1. \A u \in WaitersOf(s) : u \in Thread /\ u # t /\ job[u] = asks
    BY <1>3 DEF Asks, WaitersOf
  <2>. QED BY <1>2, <1>4, <1>7, <2>1 DEF Asks, Take
<1> HIDE DEF H, joins
<1>13. /\ IsFiniteSet(H \ {t}) /\ t \notin H \ {t} /\ Cardinality(H \ {t}) \in Nat
       /\ Cardinality(H \ {t}) = IF t \in H THEN Cardinality(H) - 1 ELSE Cardinality(H)
  BY <1>1, FS_RemoveElement, FS_CardinalityType
<1>14. Cardinality((H \ {t}) \cup {t}) = Cardinality(H \ {t}) + 1
  BY <1>13, FS_AddElement
<1>15. Cardinality(H') = Cardinality(H) + (IF joins THEN 1 ELSE 0) - (IF t \in H THEN 1 ELSE 0)
  BY <1>1, <1>9, <1>13, <1>14
<1>16. Tokens(s, asks, done)' = Tokens(s, asks, done) + InTransit(s)'
          + (IF joins THEN 1 ELSE 0) - (IF t \in H THEN 1 ELSE 0)
  BY <1>1, <1>10, <1>11, <1>15
<1>. QED BY <1>8, <1>12, <1>16 DEF joins

TokenInv ==
    /\ IInv /\ JobsOK /\ Asks(WriteAccess, "sending") /\ Asks(ReadAccess, "receiving")
    /\ Conserved

\* The two counts of the queue, which never exceed its size.
LEMMA SlotCounts ==
    ASSUME TokenInv
    PROVE  /\ FreeSlots = Tokens(WriteAccess, "sending", "received")
           /\ FilledSlots = Tokens(ReadAccess, "receiving", "sent")
           /\ FreeSlots \in Nat /\ FilledSlots \in Nat /\ BlockCount \in Nat
           /\ FreeSlots + FilledSlots = BlockCount
<1>1. /\ FreeSlots = Tokens(WriteAccess, "sending", "received")
      /\ FilledSlots = Tokens(ReadAccess, "receiving", "sent")
  BY DEF FreeSlots, FilledSlots
<1>2. /\ Tokens(WriteAccess, "sending", "received") \in Nat
      /\ Tokens(ReadAccess, "receiving", "sent") \in Nat
  BY QueueFacts, TokenTypes DEF TokenInv
<1>. QED BY <1>1, <1>2, QueueFacts DEF TokenInv, Conserved

\* Slots filled by a step: the free ones become fewer and the filled ones more.
Fills(n) == FreeSlots' = FreeSlots - n /\ FilledSlots' = FilledSlots + n

AskersOK == JobsOK /\ Asks(WriteAccess, "sending") /\ Asks(ReadAccess, "receiving")

\* What is not the queue's moves no slot.
LEMMA ElsewhereFills ==
    ASSUME TokenInv, Elsewhere
    PROVE  Fills(0) /\ AskersOK'
<1>1. /\ FreeSlots = Tokens(WriteAccess, "sending", "received")
      /\ FilledSlots = Tokens(ReadAccess, "receiving", "sent")
      /\ FreeSlots \in Nat /\ FilledSlots \in Nat /\ BlockCount \in Nat
      /\ FreeSlots <= BlockCount /\ FilledSlots <= BlockCount
  BY SlotCounts
<1>2. /\ Tokens(WriteAccess, "sending", "received")' = Tokens(WriteAccess, "sending", "received")
      /\ Asks(WriteAccess, "sending")'
  BY <1>1, ElsewhereConserves DEF TokenInv
<1>3. /\ Tokens(ReadAccess, "receiving", "sent")' = Tokens(ReadAccess, "receiving", "sent")
      /\ Asks(ReadAccess, "receiving")'
  BY <1>1, ElsewhereConserves DEF TokenInv
<1>4. JobsOK'
  BY DEF TokenInv, JobsOK, Elsewhere, queueVars
<1>. QED BY <1>1, <1>2, <1>3, <1>4 DEF Fills, AskersOK, FreeSlots, FilledSlots

\* The six steps of a thread in its queue function: what each means for the slots.
LEMMA OwnFills ==
    ASSUME TokenInv, NEW t \in Thread
    PROVE  /\ SendCall(t) \/ ReceiveCall(t) \/ SendDone(t) \/ ReceiveDone(t) => Fills(0) /\ AskersOK'
           /\ SendCopy(t) => Fills(1) /\ AskersOK'
           /\ ReceiveCopy(t) => Fills(-1) /\ AskersOK'
<1> DEFINE W == WriteAccess
           R == ReadAccess
<1>1. /\ FreeSlots = Tokens(W, "sending", "received") /\ FilledSlots = Tokens(R, "receiving", "sent")
      /\ FreeSlots \in Nat /\ FilledSlots \in Nat
  BY SlotCounts
<1>2. /\ Take(W) # Take(R) /\ Release(W) # Release(R)
      /\ \A s, r \in {W, R} : Take(s) # NoCall /\ Release(s) # NoCall /\ Take(s) # Release(r)
  BY QueueFacts DEF Take, Release, NoCall
<1>3. ASSUME NEW from, NEW to \in {"none", "sending", "sent", "receiving", "received"},
             Continues(t, from, to), UNCHANGED <<loc, cpu, value>>,
             svc' = Take(W) => to = "sending", svc' = Take(R) => to = "receiving"
      PROVE  /\ AskersOK'
             /\ FreeSlots' = FreeSlots + InTransit(W)'
                   + (IF to = "received" \/ (to = "sending" /\ svc' # Take(W)) THEN 1 ELSE 0)
                   - (IF from \in {"sending", "received"} THEN 1 ELSE 0)
             /\ FilledSlots' = FilledSlots + InTransit(R)'
                   + (IF to = "sent" \/ (to = "receiving" /\ svc' # Take(R)) THEN 1 ELSE 0)
                   - (IF from \in {"receiving", "sent"} THEN 1 ELSE 0)
  <2>1. JobsOK'
    BY <1>3 DEF TokenInv, JobsOK, Continues
  <2>2. /\ Asks(W, "sending")'
        /\ Tokens(W, "sending", "received")' = Tokens(W, "sending", "received") + InTransit(W)'
              + (IF to = "received" \/ (to = "sending" /\ svc' # Take(W)) THEN 1 ELSE 0)
              - (IF from \in {"sending", "received"} THEN 1 ELSE 0)
    BY <1>3, OwnStepConserves DEF TokenInv
  <2>3. /\ Asks(R, "receiving")'
        /\ Tokens(R, "receiving", "sent")' = Tokens(R, "receiving", "sent") + InTransit(R)'
              + (IF to = "sent" \/ (to = "receiving" /\ svc' # Take(R)) THEN 1 ELSE 0)
              - (IF from \in {"receiving", "sent"} THEN 1 ELSE 0)
    BY <1>3, OwnStepConserves DEF TokenInv
  <2>. QED BY <1>1, <2>1, <2>2, <2>3 DEF AskersOK, FreeSlots, FilledSlots
<1>4. /\ InTransit(W)' = IF svc' = Release(W) THEN 1 ELSE 0
      /\ InTransit(R)' = IF svc' = Release(R) THEN 1 ELSE 0
  BY DEF InTransit, Release
<1> HIDE DEF W, R
<1>5. ASSUME SendCall(t) PROVE Fills(0) /\ AskersOK'
  <2>1. Continues(t, "none", "sending") /\ UNCHANGED <<loc, cpu, value>> /\ svc' = Take(W)
    BY <1>5 DEF SendCall, Raise, kernelVars, primitives, W, R
  <2>2. InTransit(W)' = 0 /\ InTransit(R)' = 0
    BY <1>2, <1>4, <2>1 DEF W, R
  <2>3. AskersOK' /\ FreeSlots' = FreeSlots + 0 + 0 - 0 /\ FilledSlots' = FilledSlots + 0 + 0 - 0
    BY <1>1, <1>2, <1>3, <2>1, <2>2
  <2>. QED BY <1>1, <2>3 DEF Fills
<1>6. ASSUME ReceiveCall(t) PROVE Fills(0) /\ AskersOK'
  <2>1. Continues(t, "none", "receiving") /\ UNCHANGED <<loc, cpu, value>> /\ svc' = Take(R)
    BY <1>6 DEF ReceiveCall, Raise, kernelVars, primitives, W, R
  <2>2. InTransit(W)' = 0 /\ InTransit(R)' = 0
    BY <1>2, <1>4, <2>1 DEF W, R
  <2>3. AskersOK' /\ FreeSlots' = FreeSlots + 0 + 0 - 0 /\ FilledSlots' = FilledSlots + 0 + 0 - 0
    BY <1>1, <1>2, <1>3, <2>1, <2>2
  <2>. QED BY <1>1, <2>3 DEF Fills
<1>7. ASSUME SendDone(t) PROVE Fills(0) /\ AskersOK'
  <2>1. Continues(t, "sent", "none") /\ UNCHANGED <<loc, cpu, value>> /\ svc' = Release(R)
    BY <1>7 DEF SendDone, Raise, kernelVars, primitives, W, R
  <2>2. InTransit(W)' = 0 /\ InTransit(R)' = 1
    BY <1>2, <1>4, <2>1 DEF W, R
  <2>3. AskersOK' /\ FreeSlots' = FreeSlots + 0 + 0 - 0 /\ FilledSlots' = FilledSlots + 1 + 0 - 1
    BY <1>1, <1>2, <1>3, <2>1, <2>2
  <2>. QED BY <1>1, <2>3 DEF Fills
<1>8. ASSUME ReceiveDone(t) PROVE Fills(0) /\ AskersOK'
  <2>1. Continues(t, "received", "none") /\ UNCHANGED <<loc, cpu, value>> /\ svc' = Release(W)
    BY <1>8 DEF ReceiveDone, Raise, kernelVars, primitives, W, R
  <2>2. InTransit(W)' = 1 /\ InTransit(R)' = 0
    BY <1>2, <1>4, <2>1 DEF W, R
  <2>3. AskersOK' /\ FreeSlots' = FreeSlots + 1 + 0 - 1 /\ FilledSlots' = FilledSlots + 0 + 0 - 0
    BY <1>1, <1>2, <1>3, <2>1, <2>2
  <2>. QED BY <1>1, <2>3 DEF Fills
<1>9. ASSUME SendCopy(t) PROVE Fills(1) /\ AskersOK'
  <2>1. Continues(t, "sending", "sent") /\ UNCHANGED <<loc, cpu, value>> /\ svc' = NoCall
    BY <1>9 DEF SendCopy, Continues, vars, kernelVars, primitives
  <2>2. InTransit(W)' = 0 /\ InTransit(R)' = 0
    BY <1>2, <1>4, <2>1 DEF W, R
  <2>3. AskersOK' /\ FreeSlots' = FreeSlots + 0 + 0 - 1 /\ FilledSlots' = FilledSlots + 0 + 1 - 0
    BY <1>1, <1>2, <1>3, <2>1, <2>2
  <2>. QED BY <1>1, <2>3 DEF Fills
<1>10. ASSUME ReceiveCopy(t) PROVE Fills(-1) /\ AskersOK'
  <2>1. Continues(t, "receiving", "received") /\ UNCHANGED <<loc, cpu, value>> /\ svc' = NoCall
    BY <1>10 DEF ReceiveCopy, Continues, vars, kernelVars, primitives
  <2>2. InTransit(W)' = 0 /\ InTransit(R)' = 0
    BY <1>2, <1>4, <2>1 DEF W, R
  <2>3. AskersOK' /\ FreeSlots' = FreeSlots + 0 + 1 - 0 /\ FilledSlots' = FilledSlots + 0 + 0 - 1
    BY <1>1, <1>2, <1>3, <2>1, <2>2
  <2>. QED BY <1>1, <2>3 DEF Fills
<1>. QED BY <1>5, <1>6, <1>7, <1>8, <1>9, <1>10

\* The interrupt handler's send takes a free slot and fills it in one step: either
\* the head receiver gets the block's token or the counter does.
LEMMA IsrFills ==
    ASSUME TokenInv, NEW b \in Block, IsrSend(b)
    PROVE  Fills(1) /\ AskersOK'
<1>. USE DEF TokenInv
<1> DEFINE W == WriteAccess
           R == ReadAccess
           HW == Holders(W, "sending", "received")
           HR == Holders(R, "receiving", "sent")
<1>1. /\ value[W] > 0 /\ SignalLocked(R, Taken(W)) /\ cpu' = cpu /\ svc' = svc /\ job' = job
  BY DEF IsrSend
<1>2. /\ W \in Semaphore /\ R \in Semaphore /\ W # R /\ W \in Primitive /\ R \in Primitive
  BY QueueFacts
<1>3. /\ value \in [Semaphore -> 0..UINT16_MAX] /\ value[W] \in Nat /\ value[R] \in Nat
  BY <1>2, CounterFacts DEF IInv
<1>4. /\ Taken(W) \in [Semaphore -> 0..UINT16_MAX]
      /\ Taken(W)[W] = value[W] - 1 /\ Taken(W)[R] = value[R]
  BY <1>1, <1>2, <1>3, TakenTyped DEF Taken
<1>5. /\ IsFiniteSet(HR) /\ Cardinality(HR) \in Nat /\ Cardinality(HW) \in Nat
      /\ InTransit(W) \in {0, 1} /\ InTransit(R) \in {0, 1}
      /\ value[W] <= FreeSlots /\ value[R] <= FilledSlots
  BY <1>2, <1>3, TokenTypes DEF FreeSlots, FilledSlots, Tokens
<1>6. /\ FreeSlots \in Nat /\ FilledSlots \in Nat /\ FreeSlots + FilledSlots = BlockCount
  BY SlotCounts
<1>7. /\ FreeSlots = value[W] + InTransit(W) + Cardinality(HW)
      /\ FreeSlots' = value'[W] + InTransit(W)' + Cardinality(HW')
      /\ FilledSlots = value[R] + InTransit(R) + Cardinality(HR)
      /\ FilledSlots' = value'[R] + InTransit(R)' + Cardinality(HR')
  BY DEF FreeSlots, FilledSlots, Tokens
<1>8. InTransit(W)' = InTransit(W) /\ InTransit(R)' = InTransit(R)
  BY <1>1 DEF InTransit, Release
<1>9. \/ /\ lists[R] # <<>> /\ value' = Taken(W)
         /\ WaitersOf(R)' = WaitersOf(R) \ {Head(lists[R])}
      \/ /\ value' = [Taken(W) EXCEPT ![R] = Incremented(R)]
         /\ WaitersOf(R)' = WaitersOf(R)
  BY <1>1, <1>2, SignalWaiters
<1>10. WaitersOf(W)' = WaitersOf(W)
  <2>1. \/ WaitersOf(W)' = WaitersOf(W) \ (IF W = R THEN {Head(lists[R])} ELSE {})
        \/ WaitersOf(W)' = WaitersOf(W)
    BY <1>1, <1>2, SignalWaiters
  <2>. QED BY <1>2, <2>1
<1>11. \A s : \A t \in Thread : (t \in WaitersOf(s) <=> loc[t] = s) /\ (t \in WaitersOf(s)' <=> loc'[t] = s)
  BY DEF WaitersOf
<1>12. \A t : t \in HR <=>
                /\ t \in Thread
                /\ \/ job[t] = "sent"
                   \/ job[t] = "receiving" /\ t \notin WaitersOf(R) /\ ~(svc = Take(R) /\ cpu = t)
  BY <1>11 DEF Holders, Granted
<1>13. \A t : t \in HR' <=>
                /\ t \in Thread
                /\ \/ job[t] = "sent"
                   \/ job[t] = "receiving" /\ t \notin WaitersOf(R)' /\ ~(svc = Take(R) /\ cpu = t)
  BY <1>1, <1>11 DEF Holders, Granted, Take
<1>14. HW' = HW
  BY <1>1, <1>10, <1>11 DEF Holders, Granted, Take
<1>15. /\ \A t \in WaitersOf(R) : t \in Thread /\ job[t] = "receiving" /\ ~(svc = Take(R) /\ cpu = t)
  <2>1. svc = Take(R) => cpu \notin WaitersOf(R)
    BY <1>2, QueueCalls, CallerRuns, KernelLists DEF WaitersOf
  <2>. QED BY <2>1 DEF Asks, WaitersOf
<1>16. AskersOK'
  <2>1. WaitersOf(R)' \subseteq WaitersOf(R)
    BY <1>9
  <2>2. Asks(R, "receiving")'
    BY <1>1, <2>1 DEF Asks, Take
  <2>3. Asks(W, "sending")'
    BY <1>1, <1>10 DEF Asks, Take
  <2>. QED BY <1>1, <2>2, <2>3 DEF AskersOK, JobsOK
<1> HIDE DEF HW, HR, W, R
<1>17. CASE lists[R] # <<>> /\ value' = Taken(W) /\ WaitersOf(R)' = WaitersOf(R) \ {Head(lists[R])}
  <2>1. PICK w \in WaitersOf(R) : WaitersOf(R)' = WaitersOf(R) \ {w}
    BY <1>2, <1>17, HeadWaits DEF WaitersOf
  <2>2. HR' = HR \cup {w} /\ w \notin HR
    BY <1>12, <1>13, <1>15, <2>1
  <2>3. Cardinality(HR') = Cardinality(HR) + 1
    BY <1>5, <2>2, FS_AddElement
  <2>4. value'[W] = value[W] - 1 /\ value'[R] = value[R]
    BY <1>4, <1>17
  <2>. QED BY <1>3, <1>5, <1>6, <1>7, <1>8, <1>14, <1>16, <2>3, <2>4 DEF Fills
<1>18. CASE value' = [Taken(W) EXCEPT ![R] = Incremented(R)] /\ WaitersOf(R)' = WaitersOf(R)
  <2>1. HR' = HR
    BY <1>12, <1>13, <1>18
  <2>2. value[R] < BlockCount
    BY <1>1, <1>3, <1>5, <1>6
  <2>3. Incremented(R) = value[R] + 1
    BY <2>2, CountsUp DEF R
  <2>4. value'[W] = value[W] - 1 /\ value'[R] = value[R] + 1
    BY <1>2, <1>4, <1>18, <2>3
  <2>. QED BY <1>3, <1>5, <1>6, <1>7, <1>8, <1>14, <1>16, <2>1, <2>4 DEF Fills
<1>. QED BY <1>9, <1>17, <1>18

\* Every step fills a slot, empties one, or moves none.
LEMMA QueueFills ==
    ASSUME TokenInv, [QueueNext]_allVars
    PROVE  AskersOK' /\ \E n \in {-1, 0, 1} : Fills(n)
<1>1. CASE Elsewhere
  BY <1>1, ElsewhereFills
<1>2. CASE \E t \in Thread \ {Idle} : SendStep(t) \/ ReceiveStep(t)
  <2>1. PICK t \in Thread : SendStep(t) \/ ReceiveStep(t)
    BY <1>2
  <2>. QED BY <2>1, OwnFills DEF SendStep, ReceiveStep
<1>3. CASE \E b \in Block : IsrSend(b)
  BY <1>3, IsrFills
<1>4. CASE UNCHANGED allVars
  <2>1. FreeSlots' = FreeSlots /\ FilledSlots' = FilledSlots /\ AskersOK'
    BY <1>4 DEF allVars, queueVars, vars, kernelVars, primitives, FreeSlots, FilledSlots, Tokens,
       Holders, Granted, InTransit, Take, Release, AskersOK, JobsOK, Asks, WaitersOf, TokenInv
  <2>. QED BY <2>1, SlotCounts DEF Fills
<1>. QED BY <1>1, <1>2, <1>3, <1>4 DEF QueueNext

\* The token invariant is inductive.
LEMMA TokenInvStep ==
    ASSUME TokenInv, [QueueNext]_allVars
    PROVE  TokenInv'
<1>1. PICK n \in {-1, 0, 1} : Fills(n)
  BY QueueFills
<1>2. /\ FreeSlots \in Nat /\ FilledSlots \in Nat /\ FreeSlots + FilledSlots = BlockCount
      /\ BlockCount' = BlockCount
  BY SlotCounts DEF BlockCount
<1>3. Conserved'
  BY <1>1, <1>2 DEF Fills, Conserved
<1>4. IInv'
  BY QueueStepKeeps DEF TokenInv
<1>. QED BY <1>3, <1>4, QueueFills DEF TokenInv, AskersOK

\* xrt_queue_init leaves every slot free.
LEMMA TokenInvInit ==
    ASSUME Init, QueueInit
    PROVE  TokenInv
<1>1. IInv
  BY InitIInv
<1>2. /\ svc = NoCall /\ value = InitialValue /\ job = [t \in Thread |-> "none"]
      /\ \A t \in Thread : loc[t] \notin {WriteAccess, ReadAccess}
  BY QueueFacts, KernelLists, KernelAssumption
     DEF Init, KernelInit, SemaphoreInit, QueueInit, NoList
<1>3. JobsOK /\ Asks(WriteAccess, "sending") /\ Asks(ReadAccess, "receiving")
  BY <1>2, QueueCalls, QueueFacts DEF JobsOK, Asks, WaitersOf
<1>4. ASSUME NEW s \in {WriteAccess, ReadAccess}, NEW asks, NEW done,
             asks # "none", done # "none"
      PROVE  Tokens(s, asks, done) = InitialValue[s]
  <2>1. Holders(s, asks, done) = {}
    BY <1>2, <1>4 DEF Holders
  <2>2. InTransit(s) = 0
    BY <1>2, QueueCalls, QueueFacts DEF InTransit
  <2>3. InitialValue[s] \in Nat
    BY QueueFacts
  <2>. QED BY <1>2, <2>1, <2>2, <2>3, FS_EmptySet DEF Tokens
<1>5. FreeSlots = BlockCount /\ FilledSlots = 0
  BY <1>4, QueueFacts DEF FreeSlots, FilledSlots
<1>. QED BY <1>1, <1>3, <1>5, QueueFacts DEF TokenInv, Conserved

\* No interleaving of the steps of sends and receives with each other, with other
\* calls, with ticks and with sends of an interrupt handler loses a slot or makes
\* one up: of the queue's blocks each is free or filled, whatever their number.
THEOREM SlotsConserved == QueueSpec => []Conserved
<1>1. TokenInv => Conserved
  BY DEF TokenInv
<1>. QED BY <1>1, TokenInvInit, TokenInvStep, PTL DEF QueueSpec

----------------------------------------------------------------------------
(* The ring.  Offsets are multiples of the block size; the slot k blocks     *)
(* after offset p is found modulo the capacity.                              *)

Place(p, k) == (p + k * BlockSize) % QueueCapacity

Wrap(n) == IF n < BlockCount THEN n ELSE n - BlockCount

\* The capacity is a whole number of blocks.
LEMMA WholeBlocks ==
    /\ BlockCount \in Nat \ {0} /\ BlockSize \in Nat \ {0} /\ QueueCapacity \in Nat \ {0}
    /\ QueueCapacity = BlockCount * BlockSize
<1>1. \A a \in Nat, b \in Nat \ {0} : a % b = 0 => a = (a \div b) * b
  OBVIOUS
<1>. QED BY <1>1, QueueFacts, QueueAssumption DEF Accepted, BlockCount

\* Blocks of different numbers lie at different offsets, all of them in the buffer.
LEMMA Blocks ==
    /\ \A i \in 0..(BlockCount - 1) : i * BlockSize \in Offset /\ i * BlockSize \in Nat
                                      /\ i * BlockSize + BlockSize <= QueueCapacity
    /\ \A i, j \in Nat : i * BlockSize = j * BlockSize => i = j
<1>1. \A a, b, c \in Nat : a < b => a * c + c <= b * c
  OBVIOUS
<1>2. \A a, c \in Nat : a * c \in Nat
  OBVIOUS
<1>3. ASSUME NEW i \in 0..(BlockCount - 1)
      PROVE  i * BlockSize \in Offset /\ i * BlockSize \in Nat
             /\ i * BlockSize + BlockSize <= QueueCapacity
  <2>1. i \in Nat /\ i < BlockCount
    BY WholeBlocks
  <2>. QED BY <1>1, <1>2, <2>1, WholeBlocks DEF Offset
<1>4. ASSUME NEW i \in Nat, NEW j \in Nat, i < j PROVE i * BlockSize # j * BlockSize
  <2>1. i * BlockSize + BlockSize <= j * BlockSize
    BY <1>1, <1>4, WholeBlocks
  <2>. QED BY <1>2, <2>1, WholeBlocks
<1>5. \A i, j \in Nat : i * BlockSize = j * BlockSize => i = j
  <2>1. \A i, j \in Nat : i < j \/ j < i \/ i = j
    OBVIOUS
  <2>. QED BY <1>4, <2>1
<1>. QED BY <1>3, <1>5

\* The slot k blocks after block i is block i + k, or that many less a full turn.
LEMMA PlaceIs ==
    ASSUME NEW i \in 0..(BlockCount - 1), NEW k \in 0..BlockCount
    PROVE  /\ Wrap(i + k) \in 0..(BlockCount - 1)
           /\ Place(i * BlockSize, k) = Wrap(i + k) * BlockSize
<1>1. /\ BlockCount \in Nat \ {0} /\ BlockSize \in Nat \ {0} /\ QueueCapacity \in Nat \ {0}
      /\ QueueCapacity = BlockCount * BlockSize /\ i \in Nat /\ k \in Nat
  BY WholeBlocks
<1>2. Wrap(i + k) \in 0..(BlockCount - 1)
  BY <1>1 DEF Wrap
<1>3. \A a, b, c \in Nat : (a + b) * c = a * c + b * c
  OBVIOUS
<1>4. \A a, b \in Nat : a < b => a % b = a
  OBVIOUS
<1>5. \A a \in Nat, b \in Nat \ {0} : a >= b /\ a < b + b => a % b = a - b
  OBVIOUS
<1>6. Place(i * BlockSize, k) = ((i + k) * BlockSize) % QueueCapacity
  BY <1>1, <1>3 DEF Place
<1>7. CASE i + k < BlockCount
  <2>1. (i + k) * BlockSize \in Nat /\ (i + k) * BlockSize + BlockSize <= QueueCapacity
    BY <1>1, <1>7, Blocks
  <2>2. ((i + k) * BlockSize) % QueueCapacity = (i + k) * BlockSize
    BY <1>1, <1>4, <2>1
  <2>. QED BY <1>2, <1>6, <1>7, <2>2 DEF Wrap
<1>8. CASE i + k >= BlockCount
  <2> DEFINE j == i + k - BlockCount
  <2>1. j \in 0..(BlockCount - 1) /\ i + k = j + BlockCount
    BY <1>1, <1>8
  <2> HIDE DEF j
  <2>2. j * BlockSize \in Nat /\ j * BlockSize + BlockSize <= QueueCapacity /\ j \in Nat
    BY <1>1, <2>1, Blocks
  <2>3. (i + k) * BlockSize = j * BlockSize + QueueCapacity
    BY <1>1, <1>3, <2>1, <2>2
  <2>4. ((i + k) * BlockSize) % QueueCapacity = j * BlockSize
    <3>1. j * BlockSize + QueueCapacity \in Nat
      BY <1>1, <2>2
    <3>2. /\ j * BlockSize + QueueCapacity >= QueueCapacity
          /\ j * BlockSize + QueueCapacity < QueueCapacity + QueueCapacity
      BY <1>1, <2>2
    <3>3. (j * BlockSize + QueueCapacity) % QueueCapacity
             = (j * BlockSize + QueueCapacity) - QueueCapacity
      BY <1>1, <1>5, <3>1, <3>2
    <3>. QED BY <1>1, <2>2, <2>3, <3>3
  <2>5. Wrap(i + k) = j
    BY <1>1, <1>8, <2>1 DEF Wrap, j
  <2>. QED BY <1>2, <1>6, <2>4, <2>5
<1>. QED BY <1>1, <1>7, <1>8

\* The pointer that has reached the end goes back to the start.
LEMMA AdvanceIs ==
    ASSUME NEW i \in 0..(BlockCount - 1)
    PROVE  Advance(i * BlockSize) = Wrap(i + 1) * BlockSize
<1>1. /\ BlockCount \in Nat \ {0} /\ BlockSize \in Nat \ {0}
      /\ QueueCapacity = BlockCount * BlockSize /\ i \in Nat
  BY WholeBlocks
<1>2. \A a, c \in Nat : (a + 1) * c = a * c + c
  OBVIOUS
<1>3. i * BlockSize + BlockSize = (i + 1) * BlockSize
  BY <1>1, <1>2
<1>4. (i + 1) * BlockSize = QueueCapacity <=> i + 1 = BlockCount
  BY <1>1, Blocks
<1>5. CASE i + 1 = BlockCount
  <2>1. Wrap(i + 1) = 0
    BY <1>1, <1>5 DEF Wrap
  <2>. QED BY <1>1, <1>3, <1>4, <1>5, <2>1 DEF Advance
<1>6. CASE i + 1 # BlockCount
  <2>1. Wrap(i + 1) = i + 1
    BY <1>1, <1>6 DEF Wrap
  <2>. QED BY <1>1, <1>3, <1>4, <1>6, <2>1 DEF Advance
<1>. QED BY <1>5, <1>6

----------------------------------------------------------------------------
(* The FIFO.  The write pointer is as many blocks ahead of the read pointer  *)
(* as there are filled slots.                                                *)

RingInv == TokenInv /\ QueueTypeOK /\ writePtr = Place(readPtr, FilledSlots)

\* The pointers by block number, and the contents as the read pointer finds them.
LEMMA RingFacts ==
    ASSUME RingInv
    PROVE  /\ FilledSlots \in 0..BlockCount /\ FreeSlots \in Nat /\ BlockCount \in Nat \ {0}
           /\ FreeSlots + FilledSlots = BlockCount
           /\ \E r \in 0..(BlockCount - 1) : readPtr = r * BlockSize
           /\ Contents \in Seq(Block) /\ Len(Contents) = FilledSlots
           /\ \A i \in 1..FilledSlots : Contents[i] = slots[Place(readPtr, i - 1)]
<1>1. /\ FilledSlots \in 0..BlockCount /\ FilledSlots \in Nat
      /\ FreeSlots \in Nat /\ BlockCount \in Nat \ {0}
      /\ FreeSlots + FilledSlots = BlockCount
  BY SlotCounts, QueueFacts DEF RingInv
<1>2. PICK r \in 0..(BlockCount - 1) : readPtr = r * BlockSize
  BY DEF RingInv, QueueTypeOK, Offset
<1>3. ASSUME NEW i \in 1..FilledSlots PROVE slots[Place(readPtr, i - 1)] \in Block
  <2>1. i - 1 \in 0..BlockCount
    BY <1>1
  <2>2. Place(readPtr, i - 1) \in Offset
    BY <1>2, <2>1, PlaceIs, Blocks
  <2>. QED BY <2>2 DEF RingInv, QueueTypeOK
<1>4. Contents = [i \in 1..FilledSlots |-> slots[Place(readPtr, i - 1)]]
  BY DEF Contents, Place
<1>. QED BY <1>1, <1>2, <1>3, <1>4

\* The free slots are a number.
LEMMA CountsAreNat == TokenInv => FreeSlots \in Nat
BY SlotCounts

\* So are the filled ones.
LEMMA FilledIsNat == TokenInv => FilledSlots \in Nat
BY SlotCounts

\* What the contents are, whatever the state.
ContentsRead ==
    /\ Contents \in Seq(Block) /\ Len(Contents) = FilledSlots
    /\ \A i \in 1..FilledSlots : Contents[i] = slots[Place(readPtr, i - 1)]

LEMMA ContentsAreRead == RingInv => ContentsRead
BY RingFacts DEF ContentsRead

\* Writing appends a block: no filled slot is at the write pointer.
LEMMA RingPut ==
    ASSUME RingInv, TokenInv', NEW b \in Block, Write(b), Fills(1), data' \in [Thread -> Block]
    PROVE  RingInv' /\ Len(Contents) < BlockCount /\ Contents' = Append(Contents, b)
<1> DEFINE f == FilledSlots
<1>1. /\ f \in 0..BlockCount /\ FreeSlots \in Nat /\ BlockCount \in Nat \ {0}
      /\ FreeSlots + f = BlockCount
      /\ Contents \in Seq(Block) /\ Len(Contents) = f
      /\ \A i \in 1..f : Contents[i] = slots[Place(readPtr, i - 1)]
  BY RingFacts
<1>2. PICK r \in 0..(BlockCount - 1) : readPtr = r * BlockSize
  BY RingFacts
<1>3. FreeSlots' \in Nat /\ FreeSlots' = FreeSlots - 1 /\ FilledSlots' = f + 1
  <2>1. TokenInv' => (FreeSlots \in Nat)'
    BY CountsAreNat, PTL
  <2>. QED BY <2>1 DEF Fills
<1>4. f < BlockCount /\ f \in Nat /\ r \in Nat
  BY <1>1, <1>3
<1>5. /\ slots \in [Offset -> Block] /\ slots' = [slots EXCEPT ![writePtr] = b]
      /\ readPtr' = readPtr /\ writePtr' = Advance(writePtr)
      /\ writePtr = Place(readPtr, f) /\ job' \in [Thread -> {"none", "sending", "sent", "receiving", "received"}]
      /\ readPtr \in Offset
  BY DEF RingInv, QueueTypeOK, Write, TokenInv, JobsOK
<1>6. PICK w \in 0..(BlockCount - 1) : w = Wrap(r + f) /\ writePtr = w * BlockSize
  BY <1>1, <1>2, <1>5, PlaceIs
<1>7. writePtr' = Place(readPtr, f + 1)
  <2>1. writePtr' = Wrap(w + 1) * BlockSize
    BY <1>5, <1>6, AdvanceIs
  <2>2. Place(readPtr, f + 1) = Wrap(r + (f + 1)) * BlockSize
    BY <1>1, <1>2, <1>4, PlaceIs
  <2>3. Wrap(w + 1) = Wrap(r + (f + 1))
    BY <1>1, <1>4, <1>6 DEF Wrap
  <2>. QED BY <2>1, <2>2, <2>3
<1>8. /\ writePtr \in Offset /\ writePtr' \in Offset
  <2>1. Place(readPtr, f + 1) \in Offset
    <3>1. f + 1 \in 0..BlockCount
      BY <1>1, <1>4
    <3>. QED BY <1>2, <3>1, PlaceIs, Blocks
  <2>. QED BY <1>6, <1>7, <2>1, Blocks
<1>9. slots' \in [Offset -> Block] /\ slots'[writePtr] = b
      /\ \A o \in Offset : o # writePtr => slots'[o] = slots[o]
  BY <1>5, <1>8
<1>10. RingInv'
  <2>1. QueueTypeOK'
    BY <1>5, <1>8, <1>9 DEF QueueTypeOK, Offset, BlockCount
  <2>2. writePtr' = Place(readPtr, FilledSlots)'
    BY <1>3, <1>5, <1>7 DEF Place
  <2>. QED BY <2>1, <2>2 DEF RingInv
<1>11. ASSUME NEW i \in 1..f
       PROVE  slots'[Place(readPtr, i - 1)] = Contents[i]
  <2>1. i - 1 \in 0..BlockCount /\ i - 1 \in Nat /\ i - 1 < f
    BY <1>1, <1>4
  <2>2. PICK v \in 0..(BlockCount - 1) : v = Wrap(r + (i - 1)) /\ Place(readPtr, i - 1) = v * BlockSize
    BY <1>2, <2>1, PlaceIs
  <2>3. v # w
    BY <1>1, <1>4, <1>6, <2>1, <2>2 DEF Wrap
  <2>4. Place(readPtr, i - 1) # writePtr /\ Place(readPtr, i - 1) \in Offset
    BY <1>6, <2>2, <2>3, Blocks
  <2>. QED BY <1>1, <1>9, <2>4
<1>12. Contents' \in Seq(Block) /\ Len(Contents') = f + 1
       /\ \A i \in 1..(f + 1) : Contents'[i] = slots'[Place(readPtr, i - 1)]
  <2>1. RingInv' => ContentsRead'
    BY ContentsAreRead, PTL
  <2>2. \A i \in 1..(f + 1) : Place(readPtr, i - 1)' = Place(readPtr, i - 1)
    BY <1>5 DEF Place
  <2>. QED BY <1>3, <1>10, <2>1, <2>2 DEF ContentsRead
<1>13. Contents'[f + 1] = b
  BY <1>4, <1>5, <1>9, <1>12
<1> HIDE DEF f
<1>14. Contents' = Append(Contents, b)
  <2>1. \A q, u \in Seq(Block) :
           Len(u) = Len(q) + 1 /\ (\A i \in 1..Len(q) : u[i] = q[i]) /\ u[Len(q) + 1] = b
              => u = Append(q, b)
    OBVIOUS
  <2>2. \A i \in 1..f : Contents'[i] = Contents[i]
    BY <1>4, <1>11, <1>12
  <2>. QED BY <1>1, <1>12, <1>13, <2>1, <2>2
<1>. QED BY <1>1, <1>4, <1>10, <1>14

\* Reading takes the oldest block: the read pointer is where it was written.
LEMMA RingGet ==
    ASSUME RingInv, TokenInv', NEW t \in Thread, Read(t), Fills(-1)
    PROVE  /\ RingInv' /\ Contents # <<>> /\ Contents' = Tail(Contents)
           /\ data' = [data EXCEPT ![t] = Head(Contents)]
<1> DEFINE f == FilledSlots
<1>1. /\ f \in 0..BlockCount /\ FreeSlots \in Nat /\ BlockCount \in Nat \ {0}
      /\ FreeSlots + f = BlockCount
      /\ Contents \in Seq(Block) /\ Len(Contents) = f
      /\ \A i \in 1..f : Contents[i] = slots[Place(readPtr, i - 1)]
  BY RingFacts
<1>2. PICK r \in 0..(BlockCount - 1) : readPtr = r * BlockSize
  BY RingFacts
<1>3. FilledSlots' \in Nat /\ FilledSlots' = f - 1
  <2>1. TokenInv' => (FilledSlots \in Nat)'
    BY FilledIsNat, PTL
  <2>. QED BY <1>1, <2>1 DEF Fills
<1>4. f > 0 /\ f \in Nat /\ r \in Nat /\ r < BlockCount
  BY <1>1, <1>3
<1>5. /\ slots \in [Offset -> Block] /\ slots' = slots
      /\ readPtr' = Advance(readPtr) /\ writePtr' = writePtr /\ writePtr = Place(readPtr, f)
      /\ writePtr \in Offset /\ readPtr \in Offset
      /\ data \in [Thread -> Block] /\ data' = [data EXCEPT ![t] = slots[readPtr]]
      /\ job' \in [Thread -> {"none", "sending", "sent", "receiving", "received"}]
  BY DEF RingInv, QueueTypeOK, Read, TokenInv, JobsOK
<1>6. PICK n \in 0..(BlockCount - 1) : n = Wrap(r + 1) /\ readPtr' = n * BlockSize
  <2>1. 1 \in 0..BlockCount
    BY <1>1
  <2>. QED BY <1>2, <1>5, <2>1, AdvanceIs, PlaceIs
<1>7. ASSUME NEW k \in 0..(BlockCount - 1)
      PROVE  Place(readPtr', k) = Place(readPtr, k + 1)
  <2>1. k \in 0..BlockCount /\ k + 1 \in 0..BlockCount /\ k \in Nat
    BY <1>1
  <2>2. /\ Place(readPtr', k) = Wrap(n + k) * BlockSize
        /\ Place(readPtr, k + 1) = Wrap(r + (k + 1)) * BlockSize
    BY <1>2, <1>6, <2>1, PlaceIs
  <2>3. Wrap(n + k) = Wrap(r + (k + 1))
    BY <1>1, <1>4, <1>6, <2>1 DEF Wrap
  <2>. QED BY <2>2, <2>3
<1>8. RingInv'
  <2>1. readPtr' \in Offset /\ data' \in [Thread -> Block]
    BY <1>5, <1>6, Blocks
  <2>2. QueueTypeOK'
    BY <1>5, <2>1 DEF QueueTypeOK, Offset, BlockCount
  <2>3. Place(readPtr', f - 1) = Place(readPtr, f)
    <3>1. f - 1 \in 0..(BlockCount - 1) /\ (f - 1) + 1 = f
      BY <1>1, <1>4
    <3>. QED BY <1>7, <3>1
  <2>4. writePtr' = Place(readPtr, FilledSlots)'
    BY <1>3, <1>5, <2>3 DEF Place
  <2>. QED BY <2>2, <2>4 DEF RingInv
<1>9. Contents' \in Seq(Block) /\ Len(Contents') = f - 1
      /\ \A i \in 1..(f - 1) : Contents'[i] = Contents[i + 1]
  <2>1. RingInv' => ContentsRead'
    BY ContentsAreRead, PTL
  <2>2. \A i \in 1..(f - 1) : Contents'[i] = slots[Place(readPtr', i - 1)]
    BY <1>3, <1>5, <1>8, <2>1 DEF ContentsRead, Place
  <2>3. ASSUME NEW i \in 1..(f - 1) PROVE Contents'[i] = Contents[i + 1]
    <3>1. /\ i - 1 \in 0..(BlockCount - 1) /\ i + 1 \in 1..f
          /\ (i - 1) + 1 = i /\ (i + 1) - 1 = i
      BY <1>1, <1>4
    <3>2. Place(readPtr', i - 1) = Place(readPtr, i)
      BY <1>7, <3>1
    <3>. QED BY <1>1, <2>2, <3>1, <3>2
  <2>. QED BY <1>3, <1>8, <2>1, <2>3 DEF ContentsRead
<1>10. Head(Contents) = slots[readPtr]
  <2>1. Place(readPtr, 0) = readPtr
    <3>1. 0 \in 0..BlockCount /\ Wrap(r + 0) = r
      BY <1>1, <1>4 DEF Wrap
    <3>. QED BY <1>2, <3>1, PlaceIs
  <2>2. Contents[1] = slots[Place(readPtr, 0)]
    BY <1>1, <1>4
  <2>. QED BY <1>1, <1>4, <2>1, <2>2
<1> HIDE DEF f
<1>11. Contents' = Tail(Contents)
  <2>1. \A q, u \in Seq(Block) :
           Len(q) > 0 /\ Len(u) = Len(q) - 1 /\ (\A i \in 1..(Len(q) - 1) : u[i] = q[i + 1])
              => u = Tail(q)
    OBVIOUS
  <2>. QED BY <1>1, <1>4, <1>9, <2>1
<1>12. Contents # <<>>
  BY <1>1, <1>4
<1>. QED BY <1>5, <1>8, <1>10, <1>11, <1>12

\* Steps that move no slot leave the contents alone.
LEMMA RingSame ==
    ASSUME RingInv, TokenInv', Fills(0), UNCHANGED <<slots, writePtr, readPtr>>,
           data' \in [Thread -> Block]
    PROVE  RingInv' /\ Contents' = Contents
<1>1. FilledSlots' = FilledSlots
  BY RingFacts DEF Fills
<1>2. job' \in [Thread -> {"none", "sending", "sent", "receiving", "received"}]
  BY DEF TokenInv, JobsOK
<1>3. QueueTypeOK'
  BY <1>2 DEF RingInv, QueueTypeOK, Offset, BlockCount
<1>. QED BY <1>1, <1>3 DEF RingInv, Contents, Place

\* The queue as its callers see it.
FifoStep == [Fifo!Next]_<<Contents, data, job>>

\* A thread's steps are those of its call: its own block goes in, or the first
\* comes out, at its copy.
LEMMA OwnFifo ==
    ASSUME RingInv, TokenInv', NEW t \in Thread, SendStep(t) \/ ReceiveStep(t)
    PROVE  RingInv' /\ FifoStep
<1>1. TokenInv /\ data \in [Thread -> Block]
  BY DEF RingInv, QueueTypeOK
<1>2. Unread \in Block
  BY QueueAssumption DEF Unread
<1>3. CASE SendCall(t)
  <2>1. PICK b \in Block : data' = [data EXCEPT ![t] = b]
    BY <1>3 DEF SendCall
  <2>2. Fifo!Moves(t, "none", "sending")
    BY <1>3 DEF SendCall, Continues, Fifo!Moves
  <2>3. Fills(0) /\ UNCHANGED <<slots, writePtr, readPtr>>
    BY <1>1, <1>3, OwnFills DEF SendCall
  <2>4. RingInv' /\ Contents' = Contents
    BY <1>1, <2>1, <2>3, RingSame
  <2>5. Fifo!CallSend(t)
    BY <2>1, <2>2, <2>4 DEF Fifo!CallSend
  <2>. QED BY <2>4, <2>5 DEF FifoStep, Fifo!Next
<1>4. CASE ReceiveCall(t)
  <2>1. Fills(0) /\ UNCHANGED <<slots, writePtr, readPtr, data>>
    BY <1>1, <1>4, OwnFills DEF ReceiveCall
  <2>2. Fifo!Moves(t, "none", "receiving")
    BY <1>4 DEF ReceiveCall, Continues, Fifo!Moves
  <2>3. RingInv' /\ Contents' = Contents
    BY <1>1, <2>1, RingSame
  <2>4. Fifo!CallReceive(t)
    BY <2>1, <2>2, <2>3 DEF Fifo!CallReceive
  <2>. QED BY <2>3, <2>4 DEF FifoStep, Fifo!Next
<1>5. CASE SendCopy(t)
  <2>1. Fills(1) /\ Write(data[t]) /\ data' = data /\ data[t] \in Block
    BY <1>1, <1>5, OwnFills DEF SendCopy
  <2>2. Fifo!Moves(t, "sending", "sent")
    BY <1>5 DEF SendCopy, Continues, Fifo!Moves
  <2>3. RingInv' /\ Len(Contents) < BlockCount /\ Contents' = Append(Contents, data[t])
    BY <1>1, <2>1, RingPut
  <2>4. Fifo!Send(t)
    BY <2>1, <2>2, <2>3 DEF Fifo!Send, Fifo!Put
  <2>. QED BY <2>3, <2>4 DEF FifoStep, Fifo!Next
<1>6. CASE ReceiveCopy(t)
  <2>1. Fills(-1) /\ Read(t)
    BY <1>1, <1>6, OwnFills DEF ReceiveCopy
  <2>2. Fifo!Moves(t, "receiving", "received")
    BY <1>6 DEF ReceiveCopy, Continues, Fifo!Moves
  <2>3. /\ RingInv' /\ Contents # <<>> /\ Contents' = Tail(Contents)
        /\ data' = [data EXCEPT ![t] = Head(Contents)]
    BY <2>1, RingGet
  <2>4. Fifo!Receive(t)
    BY <2>2, <2>3 DEF Fifo!Receive
  <2>. QED BY <2>3, <2>4 DEF FifoStep, Fifo!Next
<1>7. CASE SendDone(t) \/ ReceiveDone(t)
  <2>1. data' = [data EXCEPT ![t] = Unread]
    BY <1>7 DEF SendDone, ReceiveDone
  <2>2. Fifo!Moves(t, "sent", "none") \/ Fifo!Moves(t, "received", "none")
    BY <1>7 DEF SendDone, ReceiveDone, Continues, Fifo!Moves
  <2>3. Fills(0) /\ UNCHANGED <<slots, writePtr, readPtr>>
    BY <1>1, <1>7, OwnFills DEF SendDone, ReceiveDone
  <2>4. RingInv' /\ Contents' = Contents
    BY <1>1, <1>2, <2>1, <2>3, RingSame
  <2>5. Fifo!Return(t)
    BY <1>2, <2>1, <2>2, <2>4 DEF Fifo!Return
  <2>. QED BY <2>4, <2>5 DEF FifoStep, Fifo!Next
<1>. QED BY <1>3, <1>4, <1>5, <1>6, <1>7 DEF SendStep, ReceiveStep

\* A handler's send puts in the handler's block.
LEMMA HandlerFifo ==
    ASSUME RingInv, TokenInv', ReadAccess \in IsrSemaphore, NEW b \in Block, IsrSend(b)
    PROVE  RingInv' /\ Fifo!SendFromInterrupt(b)
<1>1. TokenInv /\ data \in [Thread -> Block]
  BY DEF RingInv, QueueTypeOK
<1>2. Fills(1) /\ Write(b) /\ data' = data /\ job' = job
  BY <1>1, IsrFills DEF IsrSend
<1>3. RingInv' /\ Len(Contents) < BlockCount /\ Contents' = Append(Contents, b)
  BY <1>1, <1>2, RingPut
<1>. QED BY <1>2, <1>3 DEF Fifo!SendFromInterrupt, Fifo!Put

\* Every step of the system is one of the FIFO's, or changes none of it.
LEMMA RingStep ==
    ASSUME RingInv, [QueueNext]_allVars
    PROVE  RingInv' /\ FifoStep
<1>1. TokenInv /\ TokenInv' /\ data \in [Thread -> Block]
  BY TokenInvStep DEF RingInv, QueueTypeOK
<1>2. CASE Elsewhere \/ UNCHANGED allVars
  <2>1. UNCHANGED <<slots, writePtr, readPtr, data, job>>
    BY <1>2 DEF Elsewhere, allVars, queueVars
  <2>2. Fills(0)
    <3>1. CASE Elsewhere
      BY <1>1, <3>1, ElsewhereFills
    <3>2. CASE UNCHANGED allVars
      <4>1. FreeSlots' = FreeSlots /\ FilledSlots' = FilledSlots
        BY <3>2 DEF allVars, queueVars, vars, kernelVars, primitives, FreeSlots, FilledSlots,
           Tokens, Holders, Granted, InTransit, Take, Release
      <4>. QED BY <1>1, <4>1, SlotCounts DEF Fills
    <3>. QED BY <1>2, <3>1, <3>2
  <2>. QED BY <1>1, <2>1, <2>2, RingSame DEF FifoStep
<1>3. CASE \E t \in Thread \ {Idle} : SendStep(t) \/ ReceiveStep(t)
  BY <1>1, <1>3, OwnFifo
<1>4. CASE ReadAccess \in IsrSemaphore /\ \E b \in Block : IsrSend(b)
  BY <1>1, <1>4, HandlerFifo DEF FifoStep, Fifo!Next
<1>. QED BY <1>2, <1>3, <1>4 DEF QueueNext

\* Whatever else a step is: if a handler's block was sent in it, the FIFO's was.
LEMMA HandlerStep == RingInv /\ [QueueNext]_allVars => HandlerSendsItsBlock
BY TokenInvStep, HandlerFifo DEF RingInv, HandlerSendsItsBlock

\* The ring starts empty.
LEMMA RingInit ==
    ASSUME Init, QueueInit
    PROVE  RingInv /\ Fifo!Init
<1>1. TokenInv
  BY TokenInvInit
<1>2. FilledSlots = 0
  <2>1. FilledSlots = InitialValue[ReadAccess] + 0 + Cardinality({})
    <3>1. Holders(ReadAccess, "receiving", "sent") = {}
      BY DEF QueueInit, Holders
    <3>2. svc = NoCall /\ value = InitialValue
      BY DEF Init, SemaphoreInit
    <3>. QED BY <3>1, <3>2, QueueFacts, QueueCalls DEF FilledSlots, Tokens, InTransit
  <2>. QED BY <2>1, QueueFacts, FS_EmptySet
<1>3. Unread \in Block
  BY QueueAssumption DEF Unread
<1>4. 0 \in Offset /\ Place(0, 0) = 0
  <2>1. 0 \in 0..(BlockCount - 1) /\ 0 * BlockSize = 0 /\ 0 \in 0..BlockCount /\ Wrap(0 + 0) = 0
    BY WholeBlocks DEF Wrap
  <2>. QED BY <2>1, Blocks, PlaceIs
<1>5. QueueTypeOK
  BY <1>3, <1>4 DEF QueueInit, QueueTypeOK
<1>6. RingInv
  BY <1>1, <1>2, <1>4, <1>5 DEF RingInv, QueueInit
<1>7. Contents = <<>>
  BY <1>2, <1>6, RingFacts
<1>8. job = [t \in Thread |-> "none"]
  BY DEF QueueInit
<1>. QED BY <1>5, <1>6, <1>7, <1>8 DEF Fifo!Init, QueueTypeOK

\* The queue implements the bounded FIFO of QueueContract, for any number of blocks
\* of any size, any threads and any interleaving of their steps, with a handler
\* that sends between any two of them: each send puts in the block it was called
\* with, behind the others, and each receive takes the first one out.
THEOREM QueueIsFifo == QueueSpec => ImplementsFifo
<1>1. Init /\ QueueInit => RingInv /\ Fifo!Init
  BY RingInit
<1>2. RingInv /\ [QueueNext]_allVars => RingInv' /\ FifoStep
  BY RingStep
<1>3. FifoStep <=> [Fifo!Next]_<<Contents, data, job>>
  BY DEF FifoStep
<1>4. RingInv /\ [QueueNext]_allVars => [HandlerSendsItsBlock]_allVars
  BY HandlerStep
<1>. QED BY <1>1, <1>2, <1>3, <1>4, PTL DEF QueueSpec, ImplementsFifo, Fifo!Spec

\* The pointers stay in the buffer and on block boundaries.
THEOREM QueueTyped == QueueSpec => []QueueTypeOK
<1>1. Init /\ QueueInit => RingInv
  BY RingInit
<1>2. RingInv /\ [QueueNext]_allVars => RingInv'
  BY RingStep
<1>3. RingInv => QueueTypeOK
  BY DEF RingInv
<1>. QED BY <1>1, <1>2, <1>3, PTL DEF QueueSpec

----------------------------------------------------------------------------
(* What holds of every client, for threads that use a queue. *)

\* Where no handler sends, every step is one of XrtSystem.
LEMMA QueueSteps == ReadAccess \notin IsrSemaphore => ([QueueNext]_allVars => [Next]_vars)
<1>. SUFFICES ASSUME ReadAccess \notin IsrSemaphore, [QueueNext]_allVars PROVE [Next]_vars
  OBVIOUS
<1>1. CASE Elsewhere
  BY <1>1 DEF Elsewhere, OtherCall, Next
<1>2. CASE \E t \in Thread \ {Idle} : SendStep(t) \/ ReceiveStep(t)
  BY <1>2, QueueCalls, QueueFacts
     DEF SendStep, ReceiveStep, SendCall, SendCopy, SendDone, ReceiveCall, ReceiveCopy,
         ReceiveDone, Next
<1>3. CASE UNCHANGED allVars
  BY <1>3 DEF allVars
<1>. QED BY <1>1, <1>2, <1>3 DEF QueueNext

\* Where no handler sends, threads that use a queue are a client of the kernel like
\* any other: whatever is proved of Spec holds of them.
THEOREM QueueIsClient == ReadAccess \notin IsrSemaphore => (QueueSpec => Spec)
<1>. SUFFICES ASSUME ReadAccess \notin IsrSemaphore PROVE QueueSpec => Spec
  OBVIOUS
<1>1. [QueueNext]_allVars => [Next]_vars
  BY QueueSteps
<1>. QED BY <1>1, PTL DEF QueueSpec, Spec

\* A handler that sends takes a free slot; of the semaphores it changes only the
\* queue's.
LEMMA IsrSendChange ==
    ASSUME IInv, NEW b \in Block, IsrSend(b), NEW s \in Semaphore \ {ReadAccess}
    PROVE  \/ s = WriteAccess /\ TakesToken(s)
           \/ s # WriteAccess /\ Rests(s)
<1>1. /\ s \in Primitive /\ s # ReadAccess /\ ReadAccess \in Semaphore
      /\ WriteAccess \in Semaphore /\ ReadAccess # WriteAccess
      /\ value[WriteAccess] > 0 /\ SignalLocked(ReadAccess, Taken(WriteAccess))
  BY QueueFacts DEF IsrSend, Primitive
<1>2. /\ WaitersOf(s)' = WaitersOf(s)
      /\ value' = Taken(WriteAccess)
         \/ value' = [Taken(WriteAccess) EXCEPT ![ReadAccess] = Incremented(ReadAccess)]
  <2>1. \/ /\ lists[ReadAccess] # <<>> /\ value' = Taken(WriteAccess)
           /\ WaitersOf(s)' = WaitersOf(s) \ (IF s = ReadAccess THEN {Head(lists[ReadAccess])}
                                              ELSE {})
        \/ /\ lists[ReadAccess] = <<>> /\ WaitersOf(s)' = WaitersOf(s)
           /\ value' = [Taken(WriteAccess) EXCEPT ![ReadAccess] = Incremented(ReadAccess)]
    BY <1>1, SignalWaiters
  <2>. QED BY <1>1, <2>1
<1>3. /\ value \in [Semaphore -> 0..UINT16_MAX]
      /\ Taken(WriteAccess) \in [Semaphore -> 0..UINT16_MAX]
  BY <1>1, TakenTyped DEF IInv, TypeOK, SemaphoreTypeOK
<1>4. value'[s] = Taken(WriteAccess)[s]
  BY <1>1, <1>2, <1>3
<1>5. CASE s = WriteAccess
  BY <1>1, <1>2, <1>3, <1>4, <1>5 DEF Taken, TakesToken
<1>6. CASE s # WriteAccess
  BY <1>1, <1>2, <1>3, <1>4, <1>6 DEF Taken, Rests
<1>. QED BY <1>5, <1>6

\* What a step of the queue does to a semaphore that no handler releases; a handler
\* may take its tokens.
LEMMA QueueChange ==
    ASSUME IInv, [QueueNext]_allVars, NEW s \in Semaphore \ IsrSemaphore
    PROVE  SemaphoreChange(s)
<1>1. CASE [Next]_vars
  BY <1>1, SemaphoreStep, AskedChanges
<1>2. ASSUME ReadAccess \in IsrSemaphore, NEW b \in Block, IsrSend(b)
      PROVE  SemaphoreChange(s)
  BY <1>2, IsrSendChange DEF SemaphoreChange
<1>3. CASE Elsewhere
  BY <1>1, <1>3 DEF Elsewhere, OtherCall, Next
<1>4. CASE \E t \in Thread \ {Idle} : SendStep(t) \/ ReceiveStep(t)
  <2>1. [Next]_vars
    BY <1>4, QueueCalls, QueueFacts
       DEF SendStep, ReceiveStep, SendCall, SendCopy, SendDone, ReceiveCall, ReceiveCopy,
           ReceiveDone, Next
  <2>. QED BY <1>1, <2>1
<1>5. CASE UNCHANGED allVars
  BY <1>1, <1>5 DEF allVars
<1>. QED BY <1>2, <1>3, <1>4, <1>5 DEF QueueNext

\* Nobody waits beside a free slot or, where no handler sends, beside a block; nor
\* beside a token of any other semaphore that only threads release.
THEOREM QueueTokensNotIdle == QueueSpec => []NoIdleToken
<1>1. Init => NoIdleToken
  BY KernelLists DEF Init, KernelInit, NoIdleToken, WaitersOf
<1>2. IInv /\ NoIdleToken /\ [QueueNext]_allVars => NoIdleToken'
  BY QueueChange, ChangeLeavesNoneIdle DEF NoIdleToken
<1>. QED BY <1>1, <1>2, QueueKeepsKernel, PTL DEF QueueSpec

\* The queue's semaphores are never released when they are full: the token on its
\* way is one of the BlockCount there are.
LEMMA QueueHasRoom ==
    ASSUME TokenInv, NEW s \in {WriteAccess, ReadAccess}
    PROVE  DoesNotWrap(s)
<1>. SUFFICES ASSUME Asked(s, SemaphoreCalls) = "SEMAPHORE_RELEASE" PROVE value[s] < MaxValue[s]
  BY DEF DoesNotWrap
<1>1. IInv /\ s \in Semaphore /\ MaxValue[s] = BlockCount
  BY QueueFacts DEF TokenInv
<1>2. svc = Release(s)
  <2>1. svc.op = "SEMAPHORE_RELEASE" /\ svc.arg = s
    BY DEF Asked
  <2>2. svc \in Calls \cup {NoCall}
    BY <1>1 DEF IInv, TypeOK
  <2>. QED BY <2>1, <2>2 DEF Calls, NoCall, Release
<1>3. /\ InTransit(s) = 1 /\ value[s] \in Nat
      /\ value[s] + InTransit(s) <= Tokens(WriteAccess, "sending", "received")
         \/ value[s] + InTransit(s) <= Tokens(ReadAccess, "receiving", "sent")
  <2>1. InTransit(s) = 1
    BY <1>2 DEF InTransit
  <2>. QED BY <1>1, <2>1, TokenTypes
<1>. QED BY <1>1, <1>3, SlotCounts

\* Semaphores are at most as full as they may be, of those no handler releases.
Limited == \A s \in Semaphore \ IsrSemaphore : value[s] <= MaxValue[s]

\* Where no handler sends, threads that use a queue find every semaphore keeping its
\* contract, the queue's own included: those may be as large as a counter can be,
\* since they are never released when they are full.
THEOREM QueueSemaphoresKeepContract ==
    /\ ReadAccess \notin IsrSemaphore
    /\ \A s \in Semaphore \ {WriteAccess, ReadAccess} : MaxValue[s] < UINT16_MAX
    => (QueueSpec => SemaphoreContracts)
<1>. SUFFICES ASSUME /\ ReadAccess \notin IsrSemaphore
                     /\ \A s \in Semaphore \ {WriteAccess, ReadAccess} : MaxValue[s] < UINT16_MAX
     PROVE QueueSpec => SemaphoreContracts
  OBVIOUS
<1>1. Init => Limited /\ \A s \in Semaphore \ IsrSemaphore : Contract(s)!Init
  BY ContractsInit DEF Limited
<1>2. ASSUME TokenInv, Limited, [QueueNext]_allVars, NEW s \in Semaphore \ IsrSemaphore
      PROVE  ContractStep(s) /\ value'[s] <= MaxValue[s]
  <2>1. DoesNotWrap(s)
    <3>1. CASE s \in {WriteAccess, ReadAccess}
      BY <1>2, <3>1, QueueHasRoom
    <3>2. CASE s \notin {WriteAccess, ReadAccess}
      BY <3>2 DEF DoesNotWrap
    <3>. QED BY <3>1, <3>2
  <2>2. IInv /\ value[s] <= MaxValue[s]
    BY <1>2 DEF TokenInv, Limited
  <2>3. AsAsked(s)
    <3>1. [Next]_vars
      BY <1>2, QueueSteps
    <3>. QED BY <2>2, <3>1, SemaphoreStep
  <2>. QED BY <2>1, <2>2, <2>3, ChangeKeepsContract
<1>3. TokenInv /\ Limited /\ [QueueNext]_allVars =>
         /\ Limited'
         /\ [\A s \in Semaphore \ IsrSemaphore :
                [Contract(s)!Next]_<<value[s], WaitersOf(s), Asked(s, SemaphoreCalls)>>]_vars
  BY <1>2 DEF Limited, ContractStep
<1>4. Init /\ QueueInit => TokenInv
  BY TokenInvInit
<1>5. TokenInv /\ [QueueNext]_allVars => TokenInv'
  BY TokenInvStep
<1>. QED BY <1>1, <1>3, <1>4, <1>5, PTL DEF QueueSpec, SemaphoreContracts
=============================================================================
