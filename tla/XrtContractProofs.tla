------------------------- MODULE XrtContractProofs -------------------------
(***************************************************************************)
(* The kernel keeps the contracts of its semaphores and mutexes, for any   *)
(* threads, primitives and priorities.  Waiters change hands in three ways *)
(* only: a call adds its caller, a release takes the head of a list away,  *)
(* everything else leaves them alone.                                      *)
(***************************************************************************)
EXTENDS XrtSystemProofs

Primitive == Semaphore \cup Mutex

\* Bring-up, the tick and the switch neither add a waiter nor take one away: the
\* switch only links the thread that already is one.
LEMMA KernelWaiters ==
    ASSUME IInv, KernelStep, NEW p \in Primitive
    PROVE  WaitersOf(p)' = WaitersOf(p)
<1>. USE DEF Primitive
<1>1. p \notin {"ready", "running", "stopped"} /\ p # NoList
  BY KernelLists
<1>2. SUFFICES \A t \in Thread : loc'[t] = p <=> loc[t] = p
  BY DEF WaitersOf
<1>3. loc \in [Thread -> ListName \cup {NoList}]
  BY DEF IInv, TypeOK, KernelTypeOK
<1>4. CASE loc' = loc
  BY <1>4
<1>5. CASE \E t \in Thread : ThreadCreate(t)
  <2>1. PICK t \in Thread : loc[t] = NoList /\ loc' = [loc EXCEPT ![t] = "ready"]
    BY <1>5 DEF ThreadCreate
  <2>. QED BY <1>1, <1>3, <2>1
<1>6. CASE StartPick
  <2> DEFINE t == Head(lists["ready"])
  <2>1. boot = "create" /\ lists["ready"] # <<>> /\ loc' = [loc EXCEPT ![t] = "running"]
    BY <1>6 DEF StartPick
  <2>2. t \in Thread /\ loc[t] = "ready"
    <3>1. lists["ready"] \in Seq(Thread) /\ ToSet(lists["ready"]) = {u \in Thread : Seat(u) = "ready"}
      BY KernelLists DEF IInv, TypeOK, KernelTypeOK, Seated
    <3>2. t \in ToSet(lists["ready"])
      BY <2>1, <3>1, HeadIsIn
    <3>. QED BY <2>1, <3>1, <3>2, BeforeStart
  <2> HIDE DEF t
  <2>. QED BY <1>1, <1>3, <2>1, <2>2
<1>7. CASE TickVisit
  <2> DEFINE t == Head(scan)
  <2>1. scan # <<>> /\ scan \in Seq(Thread)
    BY <1>7 DEF TickVisit, IInv, TypeOK, KernelTypeOK
  <2>2. t \in Thread /\ loc[t] = "stopped"
    BY <2>1, HeadIsIn DEF IInv, ScanSleeps
  <2>3. loc' = loc \/ loc' = [loc EXCEPT ![t] = "ready"]
    BY <1>7 DEF TickVisit, placement
  <2> HIDE DEF t
  <2>. QED BY <1>1, <1>3, <2>2, <2>3
<1>8. CASE PendSVSwitch
  <2>1. CASE KeepsCpu
    BY <1>4, <1>8, <2>1 DEF PendSVSwitch, Schedule
  <2>2. CASE ~KeepsCpu
    <3> DEFINE in == Head(lists["ready"])
               out == Running
    <3>1. SwitchedTo(out, in)
      BY <1>8, <2>2, SwitchMoves
    <3> HIDE DEF in, out
    <3>2. loc[in] = "ready" /\ in # out
      BY <3>1 DEF SwitchedTo
    <3>3. \A u \in Thread : loc'[u] = IF u = in THEN "running"
                                      ELSE IF u # out THEN loc[u]
                                      ELSE IF state[out] = "BLOCKED" THEN loc[out] ELSE "ready"
      BY <3>1 DEF SwitchedTo
    <3>4. state[out] # "BLOCKED" => loc[out] = "running"
      BY <3>1 DEF SwitchedTo
    <3>. QED BY <1>1, <3>2, <3>3, <3>4
  <2>. QED BY <2>1, <2>2
<1>. QED BY <1>4, <1>5, <1>6, <1>7, <1>8
         DEF KernelStep, StartStep, SwitchStep, StartArmFirstSwitch, StartGo, StartRequestSwitch,
             TickBegin, TickEnd, PendSVEnter, PendSVFirst, placement

\* Unless the running thread is on its way to a wait list, the waiters are exactly
\* the threads in it.
LEMMA WaitersAreQueued ==
    ASSUME IInv, boot # "create", NEW p \in Primitive, loc[Running] # p
    PROVE  WaitersOf(p) = ToSet(lists[p])
<1>1. p \in ListName /\ p # "running"
  BY KernelLists DEF Primitive
<1>2. ToSet(lists[p]) = {t \in Thread : Seat(t) = p}
  BY <1>1 DEF IInv, Seated
<1>3. \A t \in Thread : Seat(t) = p <=> loc[t] = p
  BY <1>1, RunningThread
<1>. QED BY <1>2, <1>3 DEF WaitersOf

\* The head of a wait list is one of its best waiters.
LEMMA HeadIsBest ==
    ASSUME IInv, boot # "create", NEW p \in Primitive, loc[Running] # p, lists[p] # <<>>
    PROVE  /\ Head(lists[p]) \in WaitersOf(p)
           /\ \A u \in WaitersOf(p) : prio[u] <= prio[Head(lists[p])]
<1>1. p \in ListName /\ p # "stopped" /\ lists[p] \in Seq(Thread) /\ prio \in [Thread -> Nat]
  BY KernelLists DEF IInv, TypeOK, KernelTypeOK, Primitive
<1>2. Ordered(lists[p], prio)
  BY <1>1 DEF IInv, Sorted
<1>3. WaitersOf(p) = ToSet(lists[p])
  BY WaitersAreQueued
<1>4. Head(lists[p]) \in WaitersOf(p) /\ Head(lists[p]) = lists[p][1] /\ 1 \in 1..Len(lists[p])
  BY <1>1, <1>3, HeadIsIn
<1>5. ASSUME NEW i \in 1..Len(lists[p]) PROVE prio[lists[p][i]] <= prio[Head(lists[p])]
  <2>1. prio[lists[p][i]] \in Nat /\ prio[lists[p][1]] \in Nat
    BY <1>1, <1>4
  <2>2. i = 1 \/ 1 < i
    OBVIOUS
  <2>3. 1 < i => prio[lists[p][1]] >= prio[lists[p][i]]
    BY <1>2, <1>4 DEF Ordered
  <2>. QED BY <1>4, <2>1, <2>2, <2>3
<1>. QED BY <1>3, <1>4, <1>5 DEF ToSet

\* A thread that is woken from the list of primitive p waits for nothing any more,
\* and nobody else starts or stops waiting.
LEMMA WokenWaitsNoMore ==
    ASSUME IInv, NEW p \in Primitive, NEW w \in Thread, loc[w] = p,
           loc' = [loc EXCEPT ![w] = "ready"], NEW q \in Primitive
    PROVE  WaitersOf(q)' = WaitersOf(q) \ (IF q = p THEN {w} ELSE {})
<1>1. q # "ready" /\ loc \in [Thread -> ListName \cup {NoList}]
  BY KernelLists DEF IInv, TypeOK, KernelTypeOK, Primitive
<1>. QED BY <1>1 DEF WaitersOf

\* A caller that blocks starts to wait, if it is for a primitive.
LEMMA CallerStartsWaiting ==
    ASSUME IInv, svc # NoCall, NEW l \in ListName, loc' = [loc EXCEPT ![Running] = l],
           NEW q \in Primitive
    PROVE  /\ WaitersOf(q)' = WaitersOf(q) \cup (IF q = l THEN {Running} ELSE {})
           /\ Running \notin WaitersOf(q)
<1>1. q # "running" /\ loc \in [Thread -> ListName \cup {NoList}]
  BY KernelLists DEF IInv, TypeOK, KernelTypeOK, Primitive
<1>2. Running \in Thread /\ loc[Running] = "running"
  BY CallerRuns
<1>. QED BY <1>1, <1>2 DEF WaitersOf

\* A release serves the head of the list, or counts where nobody is in it.
LEMMA SignalWaiters ==
    ASSUME IInv, NEW s \in Semaphore, NEW v, SignalLocked(s, v), NEW q \in Primitive
    PROVE  \/ /\ lists[s] # <<>> /\ value' = v
              /\ WaitersOf(q)' = WaitersOf(q) \ (IF q = s THEN {Head(lists[s])} ELSE {})
           \/ /\ lists[s] = <<>> /\ WaitersOf(q)' = WaitersOf(q)
              /\ value' = [v EXCEPT ![s] = Incremented(s)]
<1>1. CASE lists[s] = <<>>
  BY <1>1 DEF SignalLocked, placement, WaitersOf
<1>2. CASE lists[s] # <<>>
  <2> DEFINE w == Head(lists[s])
  <2>1. w \in Thread /\ loc[w] = s
    BY <1>2, HeadWaits
  <2>2. loc' = [loc EXCEPT ![w] = "ready"] /\ value' = v
    BY <1>2 DEF SignalLocked, WakeThread
  <2> HIDE DEF w
  <2>3. WaitersOf(q)' = WaitersOf(q) \ (IF q = s THEN {w} ELSE {})
    BY <2>1, <2>2, WokenWaitsNoMore DEF Primitive
  <2>. QED BY <1>2, <2>2, <2>3 DEF w
<1>. QED BY <1>1, <1>2

\* Who waits for something else waits on.
LEMMA SignalLeavesOthers ==
    ASSUME IInv, NEW s \in Semaphore, SignalLocked(s, value), NEW q \in Primitive, q # s
    PROVE  WaitersOf(q)' = WaitersOf(q)
<1>1. \/ WaitersOf(q)' = WaitersOf(q) \ (IF q = s THEN {Head(lists[s])} ELSE {})
      \/ WaitersOf(q)' = WaitersOf(q)
  BY SignalWaiters
<1>. QED BY <1>1

----------------------------------------------------------------------------
(* Semaphores. *)

\* The ways a semaphore that no interrupt handler releases can change.
TakesToken(s) ==
    value[s] > 0 /\ value'[s] = value[s] - 1 /\ WaitersOf(s)' = WaitersOf(s)

StartsWaiting(s) ==
    /\ value[s] = 0 /\ cpu \notin WaitersOf(s)
    /\ WaitersOf(s)' = WaitersOf(s) \cup {cpu} /\ value'[s] = value[s]

AddsToken(s) ==
    WaitersOf(s) = {} /\ value'[s] = Incremented(s) /\ WaitersOf(s)' = WaitersOf(s)

ServesBest(s) ==
    \E t \in WaitersOf(s) :
       /\ \A u \in WaitersOf(s) : prio[u] <= prio[t]
       /\ WaitersOf(s)' = WaitersOf(s) \ {t} /\ value'[s] = value[s]

Rests(s) == value'[s] = value[s] /\ WaitersOf(s)' = WaitersOf(s)

SemaphoreChange(s) ==
    Rests(s) \/ TakesToken(s) \/ StartsWaiting(s) \/ AddsToken(s) \/ ServesBest(s)

\* The same, with the call it answers: a call is made or stays as it is while the
\* semaphore rests, and is over with the change it asks for.
AsAsked(s) ==
    LET before == Asked(s, SemaphoreCalls)
        after  == Asked(s, SemaphoreCalls)'
    IN  \/ Rests(s) /\ after = before
        \/ Rests(s) /\ before = "NONE" /\ after \in SemaphoreCalls
        \/ /\ before = "SEMAPHORE_TAKE" /\ after = "NONE"
           /\ TakesToken(s) \/ StartsWaiting(s)
        \/ /\ before = "SEMAPHORE_RELEASE" /\ after = "NONE"
           /\ AddsToken(s) \/ ServesBest(s)

LEMMA AskedChanges ==
    ASSUME NEW s, AsAsked(s)
    PROVE  SemaphoreChange(s)
BY DEF AsAsked, SemaphoreChange

\* A take.
LEMMA TakeChanges ==
    ASSUME IInv, svc # NoCall, svc \in Calls, TakeCall(Running), NEW s \in Semaphore
    PROVE  \/ svc.arg = s /\ (TakesToken(s) \/ StartsWaiting(s))
           \/ svc.arg # s /\ Rests(s)
<1>1. PICK r \in Semaphore : r = svc.arg /\ TakeFromSvc(r, Running) /\ cpu = Running
  BY CallerRuns DEF TakeCall, Calls
<1>2. value \in [Semaphore -> 0..UINT16_MAX]
  BY DEF IInv, TypeOK, SemaphoreTypeOK
<1>3. CASE value[r] > 0
  <2>1. value' = [value EXCEPT ![r] = @ - 1] /\ UNCHANGED placement
    BY <1>1, <1>2, <1>3 DEF TakeFromSvc, Taken
  <2>2. WaitersOf(s)' = WaitersOf(s)
    BY <2>1 DEF WaitersOf, placement
  <2>. QED BY <1>1, <1>2, <1>3, <2>1, <2>2 DEF Rests, TakesToken
<1>4. CASE value[r] = 0
  <2>1. loc' = [loc EXCEPT ![Running] = r] /\ value' = value
    BY <1>1, <1>2, <1>4 DEF TakeFromSvc, BlockThread
  <2>2. /\ WaitersOf(s)' = WaitersOf(s) \cup (IF s = r THEN {Running} ELSE {})
        /\ Running \notin WaitersOf(s)
    BY <1>1, <2>1, CallerStartsWaiting, KernelLists DEF Primitive
  <2>. QED BY <1>1, <1>4, <2>1, <2>2 DEF Rests, StartsWaiting
<1>5. value[r] > 0 \/ value[r] = 0
  BY <1>1, <1>2, Width
<1>. QED BY <1>3, <1>4, <1>5

\* A release by a thread.
LEMMA ReleaseChanges ==
    ASSUME IInv, svc # NoCall, svc \in Calls, ReleaseCall, NEW s \in Semaphore
    PROVE  \/ svc.arg = s /\ (AddsToken(s) \/ ServesBest(s))
           \/ svc.arg # s /\ Rests(s)
<1>1. PICK r \in Semaphore : r = svc.arg /\ SignalLocked(r, value)
  BY DEF ReleaseCall, Calls
<1>2. boot # "create" /\ loc[Running] = "running" /\ s # "running"
      /\ value \in [Semaphore -> 0..UINT16_MAX]
  BY CallerRuns, KernelLists DEF IInv, TypeOK, SemaphoreTypeOK
<1>3. \/ /\ lists[r] # <<>> /\ value' = value
         /\ WaitersOf(s)' = WaitersOf(s) \ (IF s = r THEN {Head(lists[r])} ELSE {})
      \/ /\ lists[r] = <<>> /\ WaitersOf(s)' = WaitersOf(s)
         /\ value' = [value EXCEPT ![r] = Incremented(r)]
  BY <1>1, SignalWaiters DEF Primitive
<1>4. CASE s # r
  BY <1>1, <1>2, <1>3, <1>4 DEF Rests
<1>5. CASE s = r /\ lists[s] # <<>>
  <2>1. /\ Head(lists[s]) \in WaitersOf(s)
        /\ \A u \in WaitersOf(s) : prio[u] <= prio[Head(lists[s])]
    BY <1>1, <1>2, <1>5, HeadIsBest DEF Primitive
  <2>. QED BY <1>1, <1>3, <1>5, <2>1 DEF ServesBest
<1>6. CASE s = r /\ lists[s] = <<>>
  <2>1. WaitersOf(s) = {}
    BY <1>2, <1>6, WaitersAreQueued, ShortLists DEF Primitive
  <2>. QED BY <1>1, <1>2, <1>3, <1>6, <2>1 DEF AddsToken
<1>. QED BY <1>4, <1>5, <1>6

\* Any other call leaves semaphores alone.
LEMMA OtherCallsRest ==
    ASSUME IInv, svc # NoCall, svc \in Calls, NEW s \in Semaphore,
           \/ LockCall(Running) \/ UnlockCall(Running) \/ YieldCall \/ DelayCall(Running)
    PROVE  Rests(s)
<1>1. value' = value
  BY DEF LockCall, UnlockCall, YieldCall, DelayCall, primitives
<1>2. ASSUME NEW l \in ListName, l # s, loc' = [loc EXCEPT ![Running] = l]
      PROVE  WaitersOf(s)' = WaitersOf(s)
  BY <1>2, CallerStartsWaiting DEF Primitive
<1>3. CASE YieldCall
  BY <1>1, <1>3 DEF YieldCall, placement, Rests, WaitersOf
<1>4. CASE DelayCall(Running)
  BY <1>1, <1>2, <1>4, KernelLists DEF DelayCall, BlockThread, Rests
<1>5. CASE LockCall(Running)
  <2>1. svc.arg \in Mutex /\ svc.arg \in ListName /\ svc.arg # s
    BY <1>5, KernelLists, KernelAssumption DEF LockCall, Calls
  <2>2. loc' = loc \/ loc' = [loc EXCEPT ![Running] = svc.arg]
    BY <1>5 DEF LockCall, MutexLockFromSvc, BlockThread, placement
  <2>. QED BY <1>1, <1>2, <2>1, <2>2 DEF Rests, WaitersOf
<1>6. CASE UnlockCall(Running)
  <2> DEFINE m == svc.arg
             w == Head(lists[m])
  <2>1. m \in Mutex /\ m # s
    BY <1>6, KernelAssumption DEF UnlockCall, Calls
  <2>2. loc' = loc \/ (lists[m] # <<>> /\ loc' = [loc EXCEPT ![w] = "ready"])
    BY <1>6 DEF UnlockCall, MutexUnlockFromSvc, HandOver, WakeThread, placement
  <2>3. lists[m] # <<>> => w \in Thread /\ loc[w] = m
    BY <2>1, HeadWaits
  <2> HIDE DEF w, m
  <2>4. WaitersOf(s)' = WaitersOf(s)
    BY <2>1, <2>2, <2>3, WokenWaitsNoMore DEF Primitive, WaitersOf
  <2>. QED BY <1>1, <2>4 DEF Rests
<1>. QED BY <1>3, <1>4, <1>5, <1>6

\* What a step of the system does to one semaphore.
LEMMA SemaphoreStep ==
    ASSUME IInv, [Next]_vars, NEW s \in Semaphore \ IsrSemaphore
    PROVE  AsAsked(s)
<1>1. CASE KernelStep
  <2>1. Rests(s) /\ svc' = svc
    BY <1>1, KernelWaiters DEF KernelStep, primitives, Primitive, Rests
  <2>. QED BY <2>1 DEF AsAsked, Asked
<1>2. CASE \E c \in Calls : Raise(c)
  <2>1. PICK c \in Calls : svc' = c /\ svc = NoCall /\ Rests(s)
    BY <1>2 DEF Raise, kernelVars, primitives, Rests, WaitersOf
  <2>2. Asked(s, SemaphoreCalls) = "NONE"
    BY <2>1 DEF Asked, NoCall, SemaphoreCalls
  <2>3. Asked(s, SemaphoreCalls)' \in SemaphoreCalls \cup {"NONE"}
    BY DEF Asked
  <2>. QED BY <2>1, <2>2, <2>3 DEF AsAsked
<1>3. CASE UNCHANGED vars
  BY <1>3 DEF vars, kernelVars, Rests, WaitersOf, AsAsked, Asked
<1>4. CASE Dispatch
  <2>1. svc # NoCall /\ svc \in Calls
    BY <1>4 DEF Dispatch, IInv, TypeOK
  <2>2. svc' = NoCall /\ Asked(s, SemaphoreCalls)' = "NONE"
    BY <1>4 DEF Dispatch, Asked, NoCall, SemaphoreCalls
  <2>3. CASE TakeCall(Running)
    <3>1. svc.op = "SEMAPHORE_TAKE"
      BY <2>3 DEF TakeCall
    <3>2. Asked(s, SemaphoreCalls) = IF svc.arg = s THEN "SEMAPHORE_TAKE" ELSE "NONE"
      BY <3>1 DEF Asked, SemaphoreCalls
    <3>. QED BY <2>1, <2>2, <2>3, <3>2, TakeChanges DEF AsAsked
  <2>4. CASE ReleaseCall
    <3>1. svc.op = "SEMAPHORE_RELEASE"
      BY <2>4 DEF ReleaseCall
    <3>2. Asked(s, SemaphoreCalls) = IF svc.arg = s THEN "SEMAPHORE_RELEASE" ELSE "NONE"
      BY <3>1 DEF Asked, SemaphoreCalls
    <3>. QED BY <2>1, <2>2, <2>4, <3>2, ReleaseChanges DEF AsAsked
  <2>5. CASE LockCall(Running) \/ UnlockCall(Running) \/ YieldCall \/ DelayCall(Running)
    <3>1. Asked(s, SemaphoreCalls) = "NONE"
      BY <2>5 DEF LockCall, UnlockCall, YieldCall, DelayCall, Asked, SemaphoreCalls
    <3>2. Rests(s)
      BY <2>1, <2>5, OtherCallsRest
    <3>. QED BY <2>2, <3>1, <3>2 DEF AsAsked
  <2>. QED BY <1>4, <2>3, <2>4, <2>5 DEF Dispatch
<1>5. CASE \E r \in IsrSemaphore : IsrRelease(r)
  <2>1. PICK r \in IsrSemaphore : SignalLocked(r, value) /\ svc' = svc
    BY <1>5 DEF IsrRelease
  <2>2. r \in Semaphore /\ s # r /\ value \in [Semaphore -> 0..UINT16_MAX]
    BY SystemAssumption DEF IInv, TypeOK, SemaphoreTypeOK
  <2>3. \/ /\ value' = value
           /\ WaitersOf(s)' = WaitersOf(s) \ (IF s = r THEN {Head(lists[r])} ELSE {})
        \/ WaitersOf(s)' = WaitersOf(s) /\ value' = [value EXCEPT ![r] = Incremented(r)]
    <3>1. r \in Semaphore /\ s \in Primitive
      BY <2>2 DEF Primitive
    <3>. QED BY <2>1, <3>1, SignalWaiters
  <2>4. WaitersOf(s)' = WaitersOf(s) /\ value'[s] = value[s]
    BY <2>2, <2>3
  <2>. QED BY <2>1, <2>4 DEF AsAsked, Asked, Rests
<1>. QED BY <1>1, <1>2, <1>3, <1>4, <1>5 DEF Next

\* Such a change leaves nobody beside a token, if nobody was.
LEMMA ChangeLeavesNoneIdle ==
    ASSUME IInv, NEW s \in Semaphore, SemaphoreChange(s),
           WaitersOf(s) # {} => value[s] = 0
    PROVE  WaitersOf(s)' # {} => value'[s] = 0
<1>1. value[s] > 0 => value[s] # 0
  BY DEF IInv, TypeOK, SemaphoreTypeOK
<1>. QED BY <1>1
         DEF SemaphoreChange, Rests, TakesToken, StartsWaiting, AddsToken, ServesBest

\* The counter of s is not full when it is released, or does not wrap.
DoesNotWrap(s) ==
    Asked(s, SemaphoreCalls) = "SEMAPHORE_RELEASE" =>
       value[s] < MaxValue[s] \/ MaxValue[s] < UINT16_MAX

\* A step of a semaphore's contract, or one that does not touch it.
ContractStep(s) == [Contract(s)!Next]_<<value[s], WaitersOf(s), Asked(s, SemaphoreCalls)>>

\* Such a step is a step of the contract.
LEMMA ChangeKeepsContract ==
    ASSUME IInv, NEW s \in Semaphore, AsAsked(s), DoesNotWrap(s), value[s] <= MaxValue[s]
    PROVE  ContractStep(s) /\ value'[s] <= MaxValue[s]
<1> DEFINE before == Asked(s, SemaphoreCalls)
           after  == Asked(s, SemaphoreCalls)'
<1>1. /\ UINT16_MAX \in Nat /\ value[s] \in Nat /\ MaxValue[s] \in Nat
      /\ MaxValue[s] <= UINT16_MAX
  <2>1. UINT16_MAX \in Nat /\ value[s] \in Nat /\ MaxValue[s] \in Nat
    BY CounterFacts DEF IInv
  <2>2. MaxValue[s] \in 1..UINT16_MAX
    BY SemaphoreAssumption
  <2>. QED BY <2>1, <2>2
<1>2. CASE Rests(s) /\ after = before
  BY <1>1, <1>2 DEF Rests, ContractStep
<1>3. CASE Rests(s) /\ before = "NONE" /\ after \in SemaphoreCalls
  <2>1. Contract(s)!Ask
    BY <1>3 DEF Rests, Contract!Ask, SemaphoreCalls
  <2>. QED BY <1>1, <1>3, <2>1 DEF Rests, ContractStep, Contract!Next
<1>4. CASE before = "SEMAPHORE_TAKE" /\ after = "NONE" /\ TakesToken(s)
  <2>1. Contract(s)!Take
    BY <1>4 DEF TakesToken, Contract!Take, Contract!Answer
  <2>2. value'[s] <= MaxValue[s]
    BY <1>1, <1>4 DEF TakesToken
  <2>. QED BY <2>1, <2>2 DEF ContractStep, Contract!Next
<1>5. CASE before = "SEMAPHORE_TAKE" /\ after = "NONE" /\ StartsWaiting(s)
  <2>1. Contract(s)!Wait
    BY <1>5 DEF StartsWaiting, Contract!Wait, Contract!Answer
  <2>. QED BY <1>5, <2>1 DEF StartsWaiting, ContractStep, Contract!Next
<1>6. CASE before = "SEMAPHORE_RELEASE" /\ after = "NONE" /\ ServesBest(s)
  <2>1. Contract(s)!Serve
    BY <1>6 DEF ServesBest, Contract!Serve, Contract!Answer
  <2>. QED BY <1>6, <2>1 DEF ServesBest, ContractStep, Contract!Next
<1>7. CASE before = "SEMAPHORE_RELEASE" /\ after = "NONE" /\ AddsToken(s)
  <2>1. value[s] < UINT16_MAX
    BY <1>1, <1>7 DEF DoesNotWrap
  <2>2. \A a, b \in Nat : a < b => a % b = a
    OBVIOUS
  <2>3. (value[s] + 1) % (UINT16_MAX + 1) = value[s] + 1
    BY <1>1, <2>1, <2>2
  <2>4. Incremented(s) = IF value[s] < MaxValue[s] THEN value[s] + 1 ELSE value[s]
    BY <1>1, <2>3 DEF Incremented
  <2>5. Contract(s)!Put
    BY <1>7, <2>4 DEF AddsToken, Contract!Put, Contract!Answer
  <2>6. value'[s] <= MaxValue[s]
    BY <1>1, <1>7, <2>4 DEF AddsToken
  <2>. QED BY <2>5, <2>6 DEF ContractStep, Contract!Next
<1>. QED BY <1>2, <1>3, <1>4, <1>5, <1>6, <1>7 DEF AsAsked

\* Nobody waits beside a free token of a semaphore that only threads release.
THEOREM NoTokenIdle == Spec => []NoIdleToken
<1>1. Init => NoIdleToken
  BY KernelLists DEF Init, KernelInit, NoIdleToken, WaitersOf
<1>2. IInv /\ NoIdleToken /\ [Next]_vars => NoIdleToken'
  BY SemaphoreStep, AskedChanges, ChangeLeavesNoneIdle DEF NoIdleToken
<1>. QED BY <1>1, <1>2, Invariance, PTL DEF Spec

\* In the beginning every semaphore is what its contract asks for.
LEMMA ContractsInit == Init => \A s \in Semaphore : Contract(s)!Init /\ value[s] <= MaxValue[s]
BY KernelLists, SemaphoreAssumption
   DEF Init, KernelInit, SemaphoreInit, WaitersOf, Asked, NoCall, SemaphoreCalls, Contract!Init

\* Every semaphore that only threads release refines its contract, if its ceiling
\* is below 65535: a take that takes effect has got a token or queued its caller, a
\* release has served the best waiter, or with nobody waiting added a token below
\* the ceiling, and nothing else moves the count or the waiters.
THEOREM SemaphoresKeepContract == NoFullCounter => (Spec => SemaphoreContracts)
<1>. SUFFICES ASSUME NoFullCounter PROVE Spec => SemaphoreContracts
  OBVIOUS
<1>1. Init => \A s \in Semaphore \ IsrSemaphore : Contract(s)!Init
  BY ContractsInit
<1>2. Init => WithinCeiling
  BY ContractsInit DEF WithinCeiling
<1>3. WithinCeiling /\ TypeOK /\ [Next]_vars => WithinCeiling'
  BY CounterStep DEF WithinCeiling
<1>4. WithinCeiling /\ IInv /\ [Next]_vars =>
         [\A s \in Semaphore \ IsrSemaphore :
             [Contract(s)!Next]_<<value[s], WaitersOf(s), Asked(s, SemaphoreCalls)>>]_vars
  <2>1. ASSUME WithinCeiling, IInv, [Next]_vars, NEW s \in Semaphore \ IsrSemaphore
        PROVE  ContractStep(s)
    BY <2>1, SemaphoreStep, ChangeKeepsContract DEF NoFullCounter, WithinCeiling, DoesNotWrap
  <2>. QED BY <2>1 DEF ContractStep
<1>. QED BY <1>1, <1>2, <1>3, <1>4, TypeCorrect, Invariance, PTL DEF Spec, SemaphoreContracts

----------------------------------------------------------------------------
(* Mutexes. *)

Undisturbed(m) == owner'[m] = owner[m] /\ WaitersOf(m)' = WaitersOf(m)

\* What a step may do to mutex m: nothing, or what its contract allows.
MutexChange(m) ==
    \/ Undisturbed(m) /\ Asked(m, MutexCalls)' = Asked(m, MutexCalls)
    \/ Exclusion(m)!Next

\* The call that is dispatched is the pending one of its mutex, and over.
LEMMA MutexAnswered ==
    ASSUME svc' = NoCall, svc.op \in MutexCalls, NEW m \in Mutex
    PROVE  /\ m = svc.arg => Exclusion(m)!Answer(svc.op)
           /\ m # svc.arg => Asked(m, MutexCalls)' = Asked(m, MutexCalls)
<1>1. Asked(m, MutexCalls)' = "NONE"
  BY DEF Asked, NoCall, MutexCalls
<1>2. Asked(m, MutexCalls) = IF svc.arg = m THEN svc.op ELSE "NONE"
  BY DEF Asked
<1>. QED BY <1>1, <1>2 DEF Exclusion!Answer

\* A lock takes a free mutex, or queues its caller behind the owner of a taken one.
LEMMA LockChanges ==
    ASSUME IInv, svc # NoCall, svc \in Calls, svc' = NoCall, LockCall(Running), NEW m \in Mutex
    PROVE  MutexChange(m)
<1> DEFINE k == svc.arg
           t == Running
<1>1. k \in Mutex /\ k \in ListName /\ MutexLockFromSvc(k, t)
  BY KernelLists DEF LockCall, Calls
<1>2. t \in Thread /\ cpu = t /\ owner \in [Mutex -> Thread \cup {Null}] /\ Null \notin Thread
  BY CallerRuns, MutexAssumption DEF IInv, TypeOK, MutexTypeOK
<1>3. ASSUME loc' = [loc EXCEPT ![t] = k]
      PROVE  /\ WaitersOf(m)' = WaitersOf(m) \cup (IF m = k THEN {t} ELSE {})
             /\ t \notin WaitersOf(m)
  BY <1>1, <1>3, CallerStartsWaiting DEF Primitive
<1>4. /\ m = k => Exclusion(m)!Answer("MUTEX_LOCK")
      /\ m # k => Asked(m, MutexCalls)' = Asked(m, MutexCalls)
  <2>1. svc.op = "MUTEX_LOCK"
    BY DEF LockCall
  <2>2. svc.op \in MutexCalls
    BY <2>1 DEF MutexCalls
  <2>. QED BY <2>1, <2>2, MutexAnswered
<1> HIDE DEF k, t
<1>5. CASE owner[k] = t
  <2>1. owner' = owner /\ WaitersOf(m)' = WaitersOf(m)
    BY <1>1, <1>2, <1>5 DEF MutexLockFromSvc, placement, WaitersOf
  <2>2. CASE m = k
    <3>1. Exclusion(m)!LockAgain
      BY <1>2, <1>4, <1>5, <2>1, <2>2 DEF Exclusion!LockAgain
    <3>. QED BY <3>1 DEF MutexChange, Exclusion!Next
  <2>3. CASE m # k
    BY <1>4, <2>1, <2>3 DEF MutexChange, Undisturbed
  <2>. QED BY <2>2, <2>3
<1>6. CASE owner[k] = Null
  <2>1. owner' = [owner EXCEPT ![k] = t] /\ loc' = loc
    BY <1>1, <1>2, <1>6 DEF MutexLockFromSvc, placement
  <2>2. WaitersOf(m)' = WaitersOf(m)
    BY <2>1 DEF WaitersOf
  <2>3. CASE m = k
    <3>1. owner[m] = Null /\ owner'[m] = cpu
      BY <1>2, <1>6, <2>1, <2>3
    <3>2. Exclusion(m)!Acquire
      BY <1>4, <2>2, <2>3, <3>1 DEF Exclusion!Acquire
    <3>. QED BY <3>2 DEF MutexChange, Exclusion!Next
  <2>4. CASE m # k
    BY <1>2, <1>4, <2>1, <2>2, <2>4 DEF MutexChange, Undisturbed
  <2>. QED BY <2>3, <2>4
<1>7. CASE owner[k] \notin {t, Null}
  <2>1. owner' = owner /\ loc' = [loc EXCEPT ![t] = k]
    BY <1>1, <1>7 DEF MutexLockFromSvc, BlockThread
  <2>2. /\ WaitersOf(m)' = WaitersOf(m) \cup (IF m = k THEN {t} ELSE {})
        /\ t \notin WaitersOf(m)
    BY <1>3, <2>1
  <2>3. CASE m = k
    <3>1. Exclusion(m)!Wait
      BY <1>2, <1>4, <1>7, <2>1, <2>2, <2>3 DEF Exclusion!Wait
    <3>. QED BY <3>1 DEF MutexChange, Exclusion!Next
  <2>4. CASE m # k
    BY <1>4, <2>1, <2>2, <2>4 DEF MutexChange, Undisturbed
  <2>. QED BY <2>3, <2>4
<1>. QED BY <1>5, <1>6, <1>7

\* An unlock by the owner frees the mutex or hands it to a best waiter; anybody
\* else's changes nothing.
LEMMA UnlockChanges ==
    ASSUME IInv, svc # NoCall, svc \in Calls, svc' = NoCall, UnlockCall(Running), NEW m \in Mutex
    PROVE  MutexChange(m)
<1> DEFINE k == svc.arg
           t == Running
           w == Head(lists[k])
<1>1. k \in Mutex /\ MutexUnlockFromSvc(k, t)
  BY DEF UnlockCall, Calls
<1>2. /\ t \in Thread /\ cpu = t /\ boot # "create" /\ loc[t] = "running" /\ k # "running"
      /\ owner \in [Mutex -> Thread \cup {Null}]
  BY <1>1, CallerRuns, KernelLists DEF IInv, TypeOK, MutexTypeOK
<1>3. lists[k] # <<>> => w \in Thread /\ loc[w] = k
  BY <1>1, HeadWaits
<1>4. lists[k] # <<>> => w \in WaitersOf(k) /\ \A u \in WaitersOf(k) : prio[u] <= prio[w]
  BY <1>1, <1>2, HeadIsBest DEF Primitive
<1>5. lists[k] = <<>> => WaitersOf(k) = {}
  BY <1>1, <1>2, WaitersAreQueued, ShortLists DEF Primitive
<1>6. \/ owner[k] # t /\ owner' = owner /\ loc' = loc
      \/ /\ owner[k] = t /\ lists[k] # <<>>
         /\ owner' = [owner EXCEPT ![k] = w] /\ loc' = [loc EXCEPT ![w] = "ready"]
      \/ /\ owner[k] = t /\ lists[k] = <<>>
         /\ owner' = [owner EXCEPT ![k] = Null] /\ loc' = loc
  BY <1>1 DEF MutexUnlockFromSvc, HandOver, WakeThread, placement
<1>7. /\ m = k => Exclusion(m)!Answer("MUTEX_UNLOCK")
      /\ m # k => Asked(m, MutexCalls)' = Asked(m, MutexCalls)
  <2>1. svc.op = "MUTEX_UNLOCK"
    BY DEF UnlockCall
  <2>2. svc.op \in MutexCalls
    BY <2>1 DEF MutexCalls
  <2>. QED BY <2>1, <2>2, MutexAnswered
<1> HIDE DEF k, t, w
<1>8. CASE owner[k] # t /\ owner' = owner /\ loc' = loc
  <2>1. WaitersOf(m)' = WaitersOf(m)
    BY <1>8 DEF WaitersOf
  <2>2. CASE m = k
    <3>1. Exclusion(m)!Refuse
      BY <1>2, <1>7, <1>8, <2>1, <2>2 DEF Exclusion!Refuse
    <3>. QED BY <3>1 DEF MutexChange, Exclusion!Next
  <2>3. CASE m # k
    BY <1>7, <1>8, <2>1, <2>3 DEF MutexChange, Undisturbed
  <2>. QED BY <2>2, <2>3
<1>9. CASE /\ owner[k] = t /\ lists[k] # <<>>
           /\ owner' = [owner EXCEPT ![k] = w] /\ loc' = [loc EXCEPT ![w] = "ready"]
  <2>1. WaitersOf(m)' = WaitersOf(m) \ (IF m = k THEN {w} ELSE {})
    BY <1>1, <1>3, <1>9, WokenWaitsNoMore DEF Primitive
  <2>2. CASE m = k
    <3>1. owner[m] = cpu /\ owner'[m] = w /\ WaitersOf(m)' = WaitersOf(m) \ {w}
      BY <1>2, <1>9, <2>1, <2>2
    <3>2. Exclusion(m)!HandOver
      BY <1>4, <1>7, <1>9, <2>2, <3>1 DEF Exclusion!HandOver
    <3>. QED BY <3>2 DEF MutexChange, Exclusion!Next
  <2>3. CASE m # k
    BY <1>2, <1>7, <1>9, <2>1, <2>3 DEF MutexChange, Undisturbed
  <2>. QED BY <2>2, <2>3
<1>10. CASE /\ owner[k] = t /\ lists[k] = <<>>
            /\ owner' = [owner EXCEPT ![k] = Null] /\ loc' = loc
  <2>1. WaitersOf(m)' = WaitersOf(m)
    BY <1>10 DEF WaitersOf
  <2>2. CASE m = k
    <3>1. owner[m] = cpu /\ owner'[m] = Null /\ WaitersOf(m) = {}
      BY <1>2, <1>5, <1>10, <2>2
    <3>2. Exclusion(m)!Free
      BY <1>7, <2>1, <2>2, <3>1 DEF Exclusion!Free
    <3>. QED BY <3>2 DEF MutexChange, Exclusion!Next
  <2>3. CASE m # k
    BY <1>2, <1>7, <1>10, <2>1, <2>3 DEF MutexChange, Undisturbed
  <2>. QED BY <2>2, <2>3
<1>. QED BY <1>6, <1>8, <1>9, <1>10

\* The calls that are about no mutex.
LEMMA OtherCallsLeaveMutexes ==
    ASSUME IInv, svc # NoCall, svc \in Calls, NEW m \in Mutex,
           TakeCall(Running) \/ ReleaseCall \/ YieldCall \/ DelayCall(Running)
    PROVE  Undisturbed(m)
<1>1. owner' = owner
  BY DEF TakeCall, ReleaseCall, YieldCall, DelayCall, primitives
<1>2. ASSUME NEW l \in ListName, l # m, loc' = [loc EXCEPT ![Running] = l]
      PROVE  WaitersOf(m)' = WaitersOf(m)
  BY <1>2, CallerStartsWaiting DEF Primitive
<1>3. CASE YieldCall
  BY <1>1, <1>3 DEF YieldCall, placement, Undisturbed, WaitersOf
<1>4. CASE DelayCall(Running)
  BY <1>1, <1>2, <1>4, KernelLists DEF DelayCall, BlockThread, Undisturbed
<1>5. CASE TakeCall(Running)
  <2>1. svc.arg \in ListName /\ svc.arg # m
    BY <1>5, KernelLists, KernelAssumption DEF TakeCall, Calls
  <2>2. loc' = loc \/ loc' = [loc EXCEPT ![Running] = svc.arg]
    BY <1>5 DEF TakeCall, TakeFromSvc, BlockThread, placement
  <2>. QED BY <1>1, <1>2, <2>1, <2>2 DEF Undisturbed, WaitersOf
<1>6. CASE ReleaseCall
  <2>1. svc.arg \in Semaphore /\ svc.arg # m /\ SignalLocked(svc.arg, value)
    BY <1>6, KernelAssumption DEF ReleaseCall, Calls
  <2>2. WaitersOf(m)' = WaitersOf(m)
    BY <2>1, SignalLeavesOthers DEF Primitive
  <2>. QED BY <1>1, <2>2 DEF Undisturbed
<1>. QED BY <1>3, <1>4, <1>5, <1>6

\* What a step of the system does to one mutex.
LEMMA MutexStep ==
    ASSUME IInv, [Next]_vars, NEW m \in Mutex
    PROVE  MutexChange(m)
<1>1. CASE KernelStep
  <2>1. Undisturbed(m) /\ svc' = svc
    BY <1>1, KernelWaiters DEF KernelStep, primitives, Primitive, Undisturbed
  <2>. QED BY <2>1 DEF MutexChange, Asked
<1>2. CASE \E c \in Calls : Raise(c)
  <2>1. PICK c \in Calls : svc' = c /\ svc = NoCall /\ Undisturbed(m)
    BY <1>2 DEF Raise, kernelVars, primitives, Undisturbed, WaitersOf
  <2>2. Asked(m, MutexCalls) = "NONE"
    BY <2>1 DEF Asked, NoCall, MutexCalls
  <2>3. Asked(m, MutexCalls)' \in MutexCalls \cup {"NONE"}
    BY DEF Asked
  <2>4. CASE Asked(m, MutexCalls)' \in MutexCalls
    <3>1. Exclusion(m)!Ask
      BY <2>1, <2>2, <2>4 DEF Undisturbed, Exclusion!Ask, MutexCalls
    <3>. QED BY <3>1 DEF MutexChange, Exclusion!Next
  <2>5. CASE Asked(m, MutexCalls)' = "NONE"
    BY <2>1, <2>2, <2>5 DEF MutexChange
  <2>. QED BY <2>3, <2>4, <2>5
<1>3. CASE UNCHANGED vars
  BY <1>3 DEF vars, kernelVars, primitives, MutexChange, Undisturbed, WaitersOf, Asked
<1>4. CASE Dispatch
  <2>1. svc # NoCall /\ svc \in Calls /\ svc' = NoCall
    BY <1>4 DEF Dispatch, IInv, TypeOK
  <2>2. CASE LockCall(Running) \/ UnlockCall(Running)
    BY <2>1, <2>2, LockChanges, UnlockChanges
  <2>3. CASE TakeCall(Running) \/ ReleaseCall \/ YieldCall \/ DelayCall(Running)
    <3>1. Asked(m, MutexCalls) = "NONE" /\ Asked(m, MutexCalls)' = "NONE"
      BY <2>1, <2>3 DEF TakeCall, ReleaseCall, YieldCall, DelayCall, Asked, NoCall, MutexCalls
    <3>2. Undisturbed(m)
      BY <2>1, <2>3, OtherCallsLeaveMutexes
    <3>. QED BY <3>1, <3>2 DEF MutexChange
  <2>. QED BY <1>4, <2>2, <2>3 DEF Dispatch
<1>5. CASE \E r \in IsrSemaphore : IsrRelease(r)
  <2>1. PICK r \in IsrSemaphore : SignalLocked(r, value) /\ owner' = owner /\ svc' = svc
    BY <1>5 DEF IsrRelease
  <2>2. r \in Semaphore /\ m # r
    BY SystemAssumption, KernelAssumption
  <2>3. WaitersOf(m)' = WaitersOf(m)
    BY <2>1, <2>2, SignalLeavesOthers DEF Primitive
  <2>. QED BY <2>1, <2>3 DEF MutexChange, Undisturbed, Asked
<1>. QED BY <1>1, <1>2, <1>3, <1>4, <1>5 DEF Next

\* Every mutex refines its contract: a lock that takes effect has made its caller
\* the owner of a free mutex or its waiter, an unlock by the owner has freed it or
\* handed it to a waiter of the highest priority, and nothing else moves the owner
\* or the waiters, whatever else the threads own and wait for.
THEOREM MutexesKeepContract == Spec => MutexContracts
<1>1. Init => \A m \in Mutex : Exclusion(m)!Init
  BY KernelLists DEF Init, KernelInit, MutexInit, WaitersOf, Asked, NoCall, MutexCalls,
                     Exclusion!Init
<1>2. IInv /\ [Next]_vars =>
         [\A m \in Mutex :
             [Exclusion(m)!Next]_<<owner[m], WaitersOf(m), Asked(m, MutexCalls)>>]_vars
  <2>1. ASSUME IInv, [Next]_vars, NEW m \in Mutex PROVE MutexChange(m)
    BY <2>1, MutexStep
  <2>. QED BY <2>1 DEF MutexChange, Undisturbed
<1>. QED BY <1>1, <1>2, Invariance, PTL DEF Spec, MutexContracts
=============================================================================
