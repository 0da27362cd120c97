------------------------- MODULE XrtPriorityProofs -------------------------
(***************************************************************************)
(* Priorities: threads of one priority never overtake one another in a     *)
(* list, and, for clients whose threads hold one mutex at a time, the      *)
(* owner of a mutex runs at least at the base priority of every waiter and *)
(* the highest ready priority runs.  With nested mutexes the last two are  *)
(* not true.                                                               *)
(***************************************************************************)
EXTENDS XrtContractProofs

----------------------------------------------------------------------------
(* The turn of equals.  Inserting and unlinking keep the order of          *)
(* everybody else, so a step that disturbs a list has moved threads that   *)
(* left it or whose priority has changed.                                  *)

\* From list s to list r nobody outside X was overtaken by anybody outside X.
KeepsOthers(r, s, X) ==
    \A a, b \in Thread \ X : Precedes(s, a, b) => Precedes(r, a, b)

\* Insertion by priority keeps the order of all that is there.
LEMMA PushKeepsOthers ==
    ASSUME NEW s \in Seq(Thread), NEW t \in Thread, NEW pr \in [Thread -> Nat],
           SafeOrder(pr, Thread)
    PROVE  KeepsOthers(PushThreadByPriority(s, t, pr), s, {})
<1> DEFINE r == PushThreadByPriority(s, t, pr)
<1>. SUFFICES ASSUME NEW h \in 1..Len(s), NEW k \in 1..Len(s), h < k
              PROVE  Precedes(r, s[h], s[k])
  <2> HIDE DEF r
  <2>1. SUFFICES ASSUME NEW a \in Thread, NEW b \in Thread, Precedes(s, a, b)
                 PROVE  Precedes(r, a, b)
    BY DEF KeepsOthers, r
  <2>2. PICK i \in 1..Len(s), j \in 1..Len(s) : i < j /\ s[i] = a /\ s[j] = b
    BY <2>1 DEF Precedes
  <2>. QED BY <2>2
<1>1. CASE r = Append(s, t)
  <2>1. Len(r) = Len(s) + 1 /\ r[h] = s[h] /\ r[k] = s[k]
    BY <1>1
  <2>. QED BY <2>1 DEF Precedes
<1>2. CASE \E i \in 1..Len(s) : r = InsertAt(s, i, t)
  <2>1. PICK i \in 1..Len(s) : r = InsertAt(s, i, t)
    BY <1>2
  <2> HIDE DEF r
  <2>2. /\ Len(r) = Len(s) + 1
        /\ \A j \in 1..Len(s) + 1 :
              r[j] = IF j < i THEN s[j] ELSE IF j = i THEN t ELSE s[j - 1]
    <3>1. /\ Len(InsertAt(s, i, t)) = Len(s) + 1
          /\ \A j \in 1..Len(s) + 1 :
                InsertAt(s, i, t)[j] =
                   IF j < i THEN s[j] ELSE IF j = i THEN t ELSE s[j - 1]
      BY InsertAtShape
    <3>. QED BY <2>1, <3>1
  <2>3. \E x, y \in 1..Len(r) : x < y /\ r[x] = s[h] /\ r[y] = s[k]
    <3>1. CASE k < i
      <4>1. r[h] = s[h] /\ r[k] = s[k] /\ h \in 1..Len(r) /\ k \in 1..Len(r)
        BY <2>2, <3>1
      <4>. QED BY <4>1
    <3>2. CASE h < i /\ ~(k < i)
      <4>1. r[h] = s[h] /\ r[k + 1] = s[k] /\ h \in 1..Len(r) /\ k + 1 \in 1..Len(r)
        BY <2>2, <3>2
      <4>. QED BY <4>1
    <3>3. CASE ~(h < i)
      <4>1. r[h + 1] = s[h] /\ r[k + 1] = s[k] /\ h + 1 \in 1..Len(r) /\ k + 1 \in 1..Len(r)
        BY <2>2, <3>3
      <4>. QED BY <4>1
    <3>. QED BY <3>1, <3>2, <3>3
  <2>. QED BY <2>3 DEF Precedes
<1>3. Insertable(s, t, pr)
  BY SafeInsertable
<1>. QED BY <1>1, <1>2, <1>3, PushCases

\* Unlinking a thread keeps the order of the others.
LEMMA RemoveKeepsOthers ==
    ASSUME NEW s \in Seq(Thread), NEW t \in ToSet(s)
    PROVE  KeepsOthers(RemoveFirst(s, t), s, {t})
<1> DEFINE r == RemoveFirst(s, t)
<1>. SUFFICES ASSUME NEW h \in 1..Len(s), NEW k \in 1..Len(s), h < k, s[h] # t, s[k] # t
              PROVE  Precedes(r, s[h], s[k])
  BY DEF KeepsOthers, Precedes
<1>1. PICK i \in 1..Len(s) : s[i] = t /\ r = RemoveAt(s, i)
  BY RemoveFirstIsRemoveAt
<1> HIDE DEF r
<1>2. /\ Len(r) = Len(s) - 1
      /\ \A j \in 1..Len(s) - 1 : r[j] = IF j < i THEN s[j] ELSE s[j + 1]
  BY <1>1, RemoveAtShape, Zenon
<1>3. h # i /\ k # i
  BY <1>1
<1>4. \E x, y \in 1..Len(r) : x < y /\ r[x] = s[h] /\ r[y] = s[k]
  <2>1. CASE k < i
    BY <1>2, <2>1
  <2>2. CASE h < i /\ i < k
    <3>1. r[h] = s[h] /\ r[k - 1] = s[k] /\ h \in 1..Len(r) /\ k - 1 \in 1..Len(r)
      BY <1>2, <2>2
    <3>. QED BY <2>2, <3>1
  <2>3. CASE i < h
    <3>1. r[h - 1] = s[h] /\ r[k - 1] = s[k] /\ h - 1 \in 1..Len(r) /\ k - 1 \in 1..Len(r)
      BY <1>2, <2>3
    <3>. QED BY <3>1
  <2>. QED BY <1>3, <2>1, <2>2, <2>3
<1>. QED BY <1>4 DEF Precedes, r

\* Moving a thread from one list to another, or within its list, keeps the order
\* of the others in every list.
LEMMA MoveKeepsOthers ==
    ASSUME NEW ls \in [ListName -> Seq(Thread)], NEW t \in Thread,
           NEW p \in ListName, NEW d \in ListName, t \in ToSet(ls[p]),
           NEW pr \in [Thread -> Nat], SafeOrder(pr, Thread)
    PROVE  \A l \in ListName : KeepsOthers(Push(Unlink(ls, p, t), d, t, pr)[l], ls[l], {t})
<1> DEFINE un == Unlink(ls, p, t)
           ps == Push(un, d, t, pr)
<1>. SUFFICES ASSUME NEW l \in ListName PROVE KeepsOthers(ps[l], ls[l], {t})
  OBVIOUS
<1>1. KeepsOthers(un[l], ls[l], {t})
  <2>1. CASE l = p
    <3>1. un[l] = RemoveFirst(ls[l], t)
      BY <2>1 DEF Unlink
    <3>. QED BY <2>1, <3>1, RemoveKeepsOthers
  <2>2. CASE l # p
    BY <2>2 DEF Unlink, KeepsOthers
  <2>. QED BY <2>1, <2>2
<1>2. un \in [ListName -> Seq(Thread)]
  <2>1. RemoveFirst(ls[p], t) \in Seq(Thread)
    BY RemoveFirstIsRemoveAt, RemoveAtShape
  <2>. QED BY <2>1 DEF Unlink
<1> HIDE DEF un
<1>3. KeepsOthers(ps[l], un[l], {})
  <2>1. CASE l = d
    <3>1. ps[l] = PushThreadByPriority(un[l], t, pr)
      BY <1>2, <2>1 DEF Push
    <3>. QED BY <1>2, <3>1, PushKeepsOthers
  <2>2. CASE l # d
    BY <1>2, <2>2 DEF Push, KeepsOthers
  <2>. QED BY <2>1, <2>2
<1>. QED BY <1>1, <1>3 DEF KeepsOthers

\* A thread moved to another list is gone from the one it was in.
LEMMA MoveLeaves ==
    ASSUME NEW ls \in [ListName -> Seq(Thread)], NEW t \in Thread,
           NEW p \in ListName, NEW d \in ListName, t \in ToSet(ls[p]),
           IsInjective(ls[p]), d # p, NEW pr
    PROVE  t \notin ToSet(Push(Unlink(ls, p, t), d, t, pr)[p])
<1>1. Push(Unlink(ls, p, t), d, t, pr)[p] = RemoveFirst(ls[p], t)
  BY DEF Push, Unlink
<1>. QED BY <1>1, RemoveFirstLoses DEF Loses

----------------------------------------------------------------------------
(* The steps. *)

\* X is what a step moved: the order of everybody else is kept in every list, and
\* whoever moved left its list or changed its priority.
Moved(X) ==
    /\ \A l \in ListName : KeepsOthers(lists'[l], lists[l], X)
    /\ \A x \in X : \/ prio'[x] # prio[x]
                    \/ \A l \in ListName : x \in ToSet(lists[l]) => x \notin ToSet(lists'[l])

SomeMoved == \E X \in SUBSET Thread : Moved(X)

\* A step that leaves the lists alone moves nobody.
LEMMA NobodyMoved == ASSUME lists' = lists PROVE SomeMoved
<1>1. Moved({})
  BY DEF Moved, KeepsOthers
<1>. QED BY <1>1 DEF SomeMoved

\* A step that takes one thread from its list to another moves that thread only.
LEMMA OneMoved ==
    ASSUME IInv, NEW t \in Thread, NEW p \in ListName, NEW d \in ListName, d # p,
           Seat(t) = p, NEW pr \in [Thread -> Nat], SafeOrder(pr, Thread),
           lists' = Push(Unlink(lists, p, t), d, t, pr)
    PROVE  SomeMoved
<1>1. lists \in [ListName -> Seq(Thread)]
  BY DEF IInv, TypeOK, KernelTypeOK
<1>2. /\ IsInjective(lists[p]) /\ t \in ToSet(lists[p])
      /\ \A l \in ListName : t \in ToSet(lists[l]) => l = p
  BY DEF IInv, Seated
<1>3. \A l \in ListName : KeepsOthers(lists'[l], lists[l], {t})
  BY <1>1, <1>2, MoveKeepsOthers
<1>4. t \notin ToSet(lists'[p])
  BY <1>1, <1>2, MoveLeaves
<1>5. Moved({t})
  BY <1>2, <1>3, <1>4 DEF Moved
<1>. QED BY <1>5 DEF SomeMoved

\* xrt_kernel_wake_thread on the head of a wait list, by the priorities pr.
LEMMA WakeMoves ==
    ASSUME IInv, NEW p \in Semaphore \cup Mutex, lists[p] # <<>>,
           NEW pr \in [Thread -> Nat], SafeOrder(pr, Thread),
           WakeThread(Unlink(lists, p, Head(lists[p])), Head(lists[p]), pr)
    PROVE  SomeMoved
<1> DEFINE w == Head(lists[p])
<1>1. w \in Thread /\ loc[w] = p /\ boot # "create" /\ w # Running
  BY HeadWaits
<1>2. Seat(w) = p
  BY <1>1, RunningThread
<1>3. lists' = Push(Unlink(lists, p, w), "ready", w, pr)
  BY DEF WakeThread
<1>4. "ready" \in ListName /\ p \in ListName /\ "ready" # p
  BY KernelLists
<1> HIDE DEF w
<1>. QED BY <1>1, <1>2, <1>3, <1>4, OneMoved

\* xrt_thread_create inserts the new thread and moves nobody.
LEMMA CreateMoves ==
    ASSUME IInv, NEW t \in Thread, ThreadCreate(t)
    PROVE  SomeMoved
<1>1. boot = "create" /\ lists' = Push(lists, "ready", t, BasePriority)
  BY DEF ThreadCreate
<1>2. BasePriority \in [Thread -> Nat] /\ SafeOrder(BasePriority, Thread)
  BY InsertionAssumption, KernelAssumption DEF SafeOrder
<1>3. lists \in [ListName -> Seq(Thread)]
  BY DEF IInv, TypeOK, KernelTypeOK
<1>4. ASSUME NEW l \in ListName PROVE KeepsOthers(lists'[l], lists[l], {})
  <2>1. CASE l = "ready"
    <3>1. lists'[l] = PushThreadByPriority(lists[l], t, BasePriority)
      BY <1>1, <1>3, <2>1 DEF Push
    <3>. QED BY <1>2, <1>3, <3>1, PushKeepsOthers
  <2>2. CASE l # "ready"
    BY <1>1, <1>3, <2>2 DEF Push, KeepsOthers
  <2>. QED BY <2>1, <2>2
<1>5. Moved({})
  BY <1>4 DEF Moved
<1>. QED BY <1>5 DEF SomeMoved

\* The first thread xrt_kernel_start picks goes from the ready to the running list.
LEMMA StartPickMoves == ASSUME IInv, StartPick PROVE SomeMoved
<1> DEFINE t == Head(lists["ready"])
<1>1. /\ boot = "create" /\ lists["ready"] # <<>>
      /\ lists' = Push(Unlink(lists, loc[t], t), "running", t, prio)
  BY DEF StartPick, MoveThread
<1>2. lists["ready"] \in Seq(Thread)
      /\ ToSet(lists["ready"]) = {u \in Thread : Seat(u) = "ready"}
  BY KernelLists DEF IInv, TypeOK, KernelTypeOK, Seated
<1>3. t \in Thread /\ Seat(t) = "ready"
  BY <1>1, <1>2, HeadIsIn
<1>4. loc[t] = "ready"
  BY <1>1, <1>3, BeforeStart
<1> HIDE DEF t
<1>. QED BY <1>1, <1>3, <1>4, KernelLists, IInvOrder, OneMoved

\* The tick wakes a thread whose delay is over, or moves nobody.
LEMMA TickVisitMoves == ASSUME IInv, TickVisit PROVE SomeMoved
<1> DEFINE t == Head(scan)
<1>1. CASE lists' = lists
  BY <1>1, NobodyMoved
<1>2. CASE lists' = Push(Unlink(lists, loc[t], t), "ready", t, prio)
  <2>1. scan # <<>> /\ scan \in Seq(Thread)
    BY DEF TickVisit, IInv, TypeOK, KernelTypeOK
  <2>2. t \in ToSet(scan) /\ t \in Thread
    BY <2>1, HeadIsIn
  <2>3. loc[t] = "stopped" /\ Seat(t) = "stopped"
    BY <2>2 DEF IInv, ScanSleeps
  <2> HIDE DEF t
  <2>. QED BY <1>2, <2>2, <2>3, KernelLists, IInvOrder, OneMoved
<1>. QED BY <1>1, <1>2 DEF TickVisit, MoveThread, placement

\* xrt_kernel_schedule moves the thread it takes the CPU from and the one it gives
\* the CPU to.
LEMMA SwitchMovesBoth == ASSUME IInv, PendSVSwitch PROVE SomeMoved
<1>1. CASE KeepsCpu
  BY <1>1, NobodyMoved DEF PendSVSwitch, Schedule
<1>2. CASE ~KeepsCpu
  <2> DEFINE out == Running
             in == Head(lists["ready"])
             dst == IF state[out] = "BLOCKED" THEN loc[out] ELSE "ready"
             ls == Push(Unlink(lists, "running", out), dst, out, prio)
  <2>1. /\ SwitchedTo(out, in) /\ boot # "create"
        /\ lists' = Push(Unlink(ls, loc[in], in), "running", in, prio)
    BY <1>2, SwitchMoves
       DEF PendSVSwitch, Schedule, MoveThread, SwitchedOut, IInv, Phase, SwitchDue
  <2>2. /\ in \in Thread /\ loc[in] = "ready" /\ in # out
        /\ dst \in ListName /\ dst # "running"
        /\ Placed(lists', loc', ListName, Thread)
        /\ loc'[in] = "running" /\ loc'[out] = dst
    BY <2>1, RunningThread DEF SwitchedTo
  <2>3. out \in Thread /\ Seat(out) = "running" /\ Seat(in) = "ready"
    BY <2>1, <2>2, RunningThread
  <2> HIDE DEF in, out, dst
  <2>4. /\ lists \in [ListName -> Seq(Thread)]
        /\ \A l \in ListName : ToSet(lists[l]) = {u \in Thread : Seat(u) = l}
        /\ "ready" \in ListName /\ "running" \in ListName
        /\ prio \in [Thread -> Nat] /\ SafeOrder(prio, Thread)
    BY KernelLists, IInvOrder DEF IInv, TypeOK, KernelTypeOK, Seated
  <2>5. \A l \in ListName : KeepsOthers(ls[l], lists[l], {out})
    BY <2>2, <2>3, <2>4, MoveKeepsOthers
  <2>6. Placed(ls, [u \in Thread |-> IF u = out THEN dst ELSE SeatMap[u]], ListName, Thread)
    <3>1. SeatMap[out] = "running" /\ NoList \notin ListName
      BY <2>3, KernelLists DEF SeatMap
    <3> DEFINE mid == [u \in Thread |-> IF u = out THEN dst ELSE SeatMap[u]]
    <3>2. \A u \in Thread : mid[u] = IF u = out THEN dst ELSE SeatMap[u]
      OBVIOUS
    <3> HIDE DEF mid
    <3>3. Placed(Push(Unlink(lists, SeatMap[out], out), dst, out, prio), mid, ListName, Thread)
      BY <2>2, <2>3, <2>4, <3>1, <3>2, IInvPlaced, MovePlaced
    <3>. QED BY <3>1, <3>3 DEF mid
  <2>7. ls \in [ListName -> Seq(Thread)] /\ in \in ToSet(ls["ready"])
    BY <2>2, <2>3, <2>4, <2>6 DEF Placed, SeatMap
  <2> HIDE DEF ls
  <2>8. \A l \in ListName : KeepsOthers(lists'[l], ls[l], {in})
    BY <2>1, <2>2, <2>4, <2>7, MoveKeepsOthers
  <2>9. \A l \in ListName : KeepsOthers(lists'[l], lists[l], {out, in})
    BY <2>5, <2>8 DEF KeepsOthers
  <2>10. \A x \in {out, in} : \A l \in ListName :
            x \in ToSet(lists[l]) => x \notin ToSet(lists'[l])
    BY <2>2, <2>3, <2>4, KernelLists DEF Placed
  <2>11. Moved({out, in})
    BY <2>9, <2>10 DEF Moved
  <2>. QED BY <2>2, <2>3, <2>11 DEF SomeMoved
<1>. QED BY <1>1, <1>2

\* A lock moves at most the owner it lends a higher priority to.
LEMMA LockMoves ==
    ASSUME IInv, svc # NoCall, svc \in Calls, LockCall(Running)
    PROVE  SomeMoved
<1> DEFINE m == svc.arg
           t == Running
           o == owner[m]
           pr == [prio EXCEPT ![o] = prio[t]]
<1>1. m \in Mutex /\ MutexLockFromSvc(m, t)
  BY DEF LockCall, Calls
<1>2. t \in Thread /\ boot # "create" /\ owner \in [Mutex -> Thread \cup {Null}]
  BY CallerRuns DEF IInv, TypeOK, MutexTypeOK
<1>3. CASE lists' = lists
  BY <1>3, NobodyMoved
<1>4. CASE lists' # lists
  <2>1. Boost(o, t) /\ o \notin {t, Null}
    BY <1>1, <1>4 DEF MutexLockFromSvc, placement
  <2>2. /\ prio[t] > prio[o] /\ prio' = pr
        /\ lists' = Push(Unlink(lists, loc[o], o), loc[o], o, pr)
    BY <1>4, <2>1 DEF Boost, ReorderThread, MoveThread
  <2>3. o \in Thread /\ loc[o] # NoList
    BY <1>1, <1>2, <2>1 DEF IInv, OwnersCreated, Created
  <2> HIDE DEF m, t, o
  <2>4. loc[o] \in ListName /\ Seat(o) = loc[o]
    BY <1>2, <2>1, <2>3, RunningThread DEF IInv, TypeOK, KernelTypeOK, t
  <2>5. /\ prio \in [Thread -> Nat] /\ SafeOrder(prio, Thread)
        /\ prio[t] # prio[o]
    <3>1. prio \in [Thread -> Nat] /\ SafeOrder(prio, Thread)
      BY IInvOrder
    <3>2. prio[t] \in Nat /\ prio[o] \in Nat
      BY <1>2, <2>3, <3>1
    <3>. QED BY <2>2, <3>1, <3>2
  <2>6. pr \in [Thread -> Nat] /\ SafeOrder(pr, Thread) /\ pr[o] # prio[o]
    BY <1>2, <2>3, <2>5 DEF SafeOrder
  <2> HIDE DEF pr
  <2>7. lists \in [ListName -> Seq(Thread)] /\ o \in ToSet(lists[loc[o]])
    BY <2>3, <2>4 DEF IInv, TypeOK, KernelTypeOK, Seated
  <2>8. \A l \in ListName : KeepsOthers(lists'[l], lists[l], {o})
    BY <2>2, <2>3, <2>4, <2>6, <2>7, MoveKeepsOthers
  <2>9. Moved({o})
    BY <2>2, <2>6, <2>8 DEF Moved
  <2>. QED BY <2>3, <2>9 DEF SomeMoved
<1>. QED BY <1>3, <1>4

\* An unlock moves at most the waiter it hands the mutex to.
LEMMA UnlockMoves ==
    ASSUME IInv, svc # NoCall, svc \in Calls, UnlockCall(Running)
    PROVE  SomeMoved
<1> DEFINE m == svc.arg
           pr == RestoredPriority(Running)
<1>1. m \in Mutex /\ MutexUnlockFromSvc(m, Running)
  BY DEF UnlockCall, Calls
<1>2. CASE lists' = lists
  BY <1>2, NobodyMoved
<1>3. CASE lists' # lists
  <2>1. lists[m] # <<>> /\ HandOver(m, pr)
    BY <1>1, <1>3 DEF MutexUnlockFromSvc, placement
  <2>2. WakeThread(Unlink(lists, m, Head(lists[m])), Head(lists[m]), pr)
    BY <2>1 DEF HandOver
  <2>3. pr \in [Thread -> Nat] /\ SafeOrder(pr, Thread)
    BY RestoreKeepsOrder
  <2> HIDE DEF m, pr
  <2>. QED BY <1>1, <2>1, <2>2, <2>3, WakeMoves
<1>. QED BY <1>2, <1>3

\* A release moves at most the waiter it serves.
LEMMA SignalMoves ==
    ASSUME IInv, NEW s \in Semaphore, SignalLocked(s, value)
    PROVE  SomeMoved
<1>1. CASE lists[s] = <<>>
  BY <1>1, NobodyMoved DEF SignalLocked, placement
<1>2. CASE lists[s] # <<>>
  BY <1>2, IInvOrder, WakeMoves DEF SignalLocked
<1>. QED BY <1>1, <1>2

\* A supervisor call: one lemma per operation that changes a list.
LEMMA DispatchMoves == ASSUME IInv, Dispatch PROVE SomeMoved
<1>1. svc # NoCall /\ svc \in Calls
  BY DEF Dispatch, IInv, TypeOK
<1>2. CASE LockCall(Running)
  BY <1>1, <1>2, LockMoves
<1>3. CASE UnlockCall(Running)
  BY <1>1, <1>3, UnlockMoves
<1>4. CASE ReleaseCall
  <2>1. svc.arg \in Semaphore /\ SignalLocked(svc.arg, value)
    BY <1>1, <1>4 DEF ReleaseCall, Calls
  <2>. QED BY <2>1, SignalMoves
<1>5. CASE TakeCall(Running) \/ YieldCall \/ DelayCall(Running)
  <2>1. lists' = lists
    BY <1>5 DEF TakeCall, TakeFromSvc, YieldCall, DelayCall, placement
  <2>. QED BY <2>1, NobodyMoved
<1>. QED BY <1>2, <1>3, <1>4, <1>5 DEF Dispatch

\* Every step: those not named here leave the lists alone.
LEMMA StepMoves == ASSUME IInv, [Next]_vars PROVE SomeMoved
<1>1. CASE KernelStep
  <2>1. CASE \E t \in Thread : ThreadCreate(t)
    BY <2>1, CreateMoves
  <2>2. CASE StartPick
    BY <2>2, StartPickMoves
  <2>3. CASE TickVisit
    BY <2>3, TickVisitMoves
  <2>4. CASE PendSVSwitch
    BY <2>4, SwitchMovesBoth
  <2>5. CASE \/ StartArmFirstSwitch \/ StartGo \/ StartRequestSwitch
             \/ TickBegin \/ TickEnd \/ PendSVEnter \/ PendSVFirst
    <3>1. lists' = lists
      BY <2>5 DEF StartArmFirstSwitch, StartGo, StartRequestSwitch, TickBegin, TickEnd,
                  PendSVEnter, PendSVFirst, placement
    <3>. QED BY <3>1, NobodyMoved
  <2>. QED BY <1>1, <2>1, <2>2, <2>3, <2>4, <2>5 DEF KernelStep, StartStep, SwitchStep
<1>2. CASE Dispatch
  BY <1>2, DispatchMoves
<1>3. CASE \E s \in IsrSemaphore : IsrRelease(s)
  BY <1>3, SystemAssumption, SignalMoves DEF IsrRelease
<1>4. CASE (\E c \in Calls : Raise(c)) \/ UNCHANGED vars
  <2>1. lists' = lists
    BY <1>4 DEF Raise, kernelVars, vars
  <2>. QED BY <2>1, NobodyMoved
<1>. QED BY <1>1, <1>2, <1>3, <1>4 DEF Next

----------------------------------------------------------------------------

\* In a list that holds nobody twice, of two threads one precedes the other.
LEMMA PrecedesOneWay ==
    ASSUME NEW s \in Seq(Thread), IsInjective(s), NEW a, NEW b, Precedes(s, a, b)
    PROVE  ~Precedes(s, b, a) /\ a \in ToSet(s) /\ b \in ToSet(s)
<1>1. PICK i \in 1..Len(s), j \in 1..Len(s) : i < j /\ s[i] = a /\ s[j] = b
  BY DEF Precedes
<1>2. a \in ToSet(s) /\ b \in ToSet(s)
  BY <1>1 DEF ToSet
<1>3. ASSUME NEW h \in 1..Len(s), NEW k \in 1..Len(s), h < k, s[h] = b, s[k] = a
      PROVE  FALSE
  <2>1. h = j /\ k = i
    BY <1>1, <1>3 DEF IsInjective
  <2>. QED BY <1>1, <1>3, <2>1
<1>. QED BY <1>2, <1>3 DEF Precedes

\* Nothing but leaving the list, or a change of one's priority, lets a thread get
\* ahead of another of the same priority: insertion by priority is fair to equals.
THEOREM EqualsKeepTheirTurn == Spec => NoOvertaking
<1>1. ASSUME IInv, IInv', [Next]_vars, NEW l \in ListName,
             NEW a \in ToSet(lists[l]), NEW b \in ToSet(lists[l]),
             Precedes(lists[l], a, b), prio'[a] = prio[a], prio'[b] = prio[b],
             Precedes(lists'[l], b, a)
      PROVE  FALSE
  <2>1. /\ lists[l] \in Seq(Thread)
        /\ lists'[l] \in Seq(Thread) /\ IsInjective(lists'[l])
    BY <1>1 DEF IInv, TypeOK, KernelTypeOK, Seated
  <2>2. /\ a \in Thread /\ b \in Thread
    BY <2>1 DEF ToSet
  <2>3. /\ ~Precedes(lists'[l], a, b)
        /\ a \in ToSet(lists'[l]) /\ b \in ToSet(lists'[l])
    BY <1>1, <2>1, PrecedesOneWay
  <2>4. PICK X \in SUBSET Thread : Moved(X)
    BY <1>1, StepMoves DEF SomeMoved
  <2>5. a \notin X /\ b \notin X
    BY <1>1, <2>3, <2>4 DEF Moved
  <2>. QED BY <1>1, <2>2, <2>3, <2>4, <2>5 DEF Moved, KeepsOthers
<1>2. IInv /\ IInv' /\ [Next]_vars =>
         [\A l \in ListName : \A a, b \in ToSet(lists[l]) :
             /\ Precedes(lists[l], a, b)
             /\ prio[a] = prio[b]
             /\ prio'[a] = prio[a] /\ prio'[b] = prio[b]
             => ~Precedes(lists'[l], b, a)]_vars
  BY <1>1
<1>. QED BY <1>2, Invariance, PTL DEF Spec, NoOvertaking

----------------------------------------------------------------------------
(* Inheritance, for threads that hold one mutex at a time.                 *)

\* Nobody owns two mutexes, and whoever waits for one owns none.
OneOwned == \A m, n \in Mutex : owner[m] = owner[n] /\ owner[m] # Null => m = n
WaitersOwnNone == \A m, n \in Mutex : \A t \in WaitersOf(m) : owner[n] # t

\* A raised priority is that of some waiter, or below it.
LentByWaiter ==
    \A t \in Thread : prio[t] > BasePriority[t] =>
       \E m \in Mutex : owner[m] = t /\ \E u \in WaitersOf(m) : prio[u] >= prio[t]

SingleInv == IInv /\ SingleLock /\ OneOwned /\ WaitersOwnNone /\ LentByWaiter

----------------------------------------------------------------------------
(* What a step does to the mutexes, their waiters and the priorities. *)

WaitersStay(M) == \A n \in M : WaitersOf(n)' = WaitersOf(n)

Idles == owner' = owner /\ prio' = prio /\ WaitersStay(Mutex)

Acquires(m) ==
    /\ svc = [op |-> "MUTEX_LOCK", arg |-> m] /\ owner[m] = Null
    /\ owner' = [owner EXCEPT ![m] = Running] /\ prio' = prio /\ WaitersStay(Mutex)

Lends(m) ==
    /\ svc = [op |-> "MUTEX_LOCK", arg |-> m] /\ owner[m] \notin {Running, Null}
    /\ owner' = owner
    /\ WaitersOf(m)' = WaitersOf(m) \cup {Running} /\ WaitersStay(Mutex \ {m})
    /\ \A t \in Thread :
          prio'[t] = IF t = owner[m] /\ prio[Running] > prio[t] THEN prio[Running] ELSE prio[t]

Frees(m) ==
    /\ svc # NoCall /\ owner[m] = Running /\ WaitersOf(m) = {}
    /\ owner' = [owner EXCEPT ![m] = Null]
    /\ prio' = RestoredPriority(Running) /\ WaitersStay(Mutex)

HandsOver(m, w) ==
    /\ svc # NoCall /\ owner[m] = Running
    /\ w \in WaitersOf(m) /\ \A u \in WaitersOf(m) : prio[u] <= prio[w]
    /\ owner' = [owner EXCEPT ![m] = w]
    /\ prio' = RestoredPriority(Running)
    /\ WaitersOf(m)' = WaitersOf(m) \ {w} /\ WaitersStay(Mutex \ {m})

MutexEffect ==
    \/ Idles
    \/ \E m \in Mutex : Acquires(m) \/ Lends(m) \/ Frees(m)
    \/ \E m \in Mutex : \E w \in Thread : HandsOver(m, w)

\* A lock acquires, lends or does nothing.
LEMMA LockEffect ==
    ASSUME IInv, svc # NoCall, svc \in Calls, LockCall(Running)
    PROVE  MutexEffect
<1> DEFINE t == Running
<1>1. PICK m \in Mutex : /\ m \in ListName /\ svc = [op |-> "MUTEX_LOCK", arg |-> m]
                         /\ MutexLockFromSvc(m, t)
  BY KernelLists DEF LockCall, Calls
<1>2. t \in Thread /\ prio \in [Thread -> Nat]
      /\ owner \in [Mutex -> Thread \cup {Null}] /\ Null \notin Thread
  BY CallerRuns, MutexAssumption DEF IInv, TypeOK, KernelTypeOK, MutexTypeOK
<1>3. CASE owner[m] = t
  BY <1>1, <1>2, <1>3
     DEF MutexLockFromSvc, placement, MutexEffect, Idles, WaitersStay, WaitersOf
<1>4. CASE owner[m] = Null
  <2>1. owner' = [owner EXCEPT ![m] = t] /\ prio' = prio /\ loc' = loc
    BY <1>1, <1>2, <1>4 DEF MutexLockFromSvc, placement
  <2>2. Acquires(m)
    BY <1>1, <1>4, <2>1 DEF Acquires, WaitersStay, WaitersOf
  <2>. QED BY <1>1, <2>2 DEF MutexEffect
<1>5. CASE owner[m] \notin {t, Null}
  <2>1. Boost(owner[m], t) /\ loc' = [loc EXCEPT ![t] = m] /\ owner' = owner
    BY <1>1, <1>5 DEF MutexLockFromSvc, BlockThread
  <2>2. owner[m] \in Thread /\ prio[t] \in Nat /\ prio[owner[m]] \in Nat
    BY <1>1, <1>2, <1>5
  <2>3. \A u \in Thread :
           prio'[u] = IF u = owner[m] /\ prio[t] > prio[u] THEN prio[t] ELSE prio[u]
    BY <1>2, <2>1, <2>2 DEF Boost
  <2>4. \A n \in Mutex :
           WaitersOf(n)' = WaitersOf(n) \cup (IF n = m THEN {t} ELSE {})
    BY <1>1, <2>1, CallerStartsWaiting DEF Primitive
  <2>5. WaitersOf(m)' = WaitersOf(m) \cup {t} /\ WaitersStay(Mutex \ {m})
    BY <1>1, <2>4 DEF WaitersStay
  <2>6. Lends(m)
    BY <1>1, <1>5, <2>1, <2>3, <2>5 DEF Lends
  <2>. QED BY <1>1, <2>6 DEF MutexEffect
<1>. QED BY <1>3, <1>4, <1>5

\* An unlock frees, hands over or does nothing.
LEMMA UnlockEffect ==
    ASSUME IInv, svc # NoCall, svc \in Calls, UnlockCall(Running)
    PROVE  MutexEffect
<1> DEFINE t == Running
<1>1. PICK m \in Mutex : MutexUnlockFromSvc(m, t)
  BY DEF UnlockCall, Calls
<1> DEFINE w == Head(lists[m])
<1>2. boot # "create" /\ loc[t] = "running" /\ m # "running"
  BY <1>1, CallerRuns, KernelLists
<1>3. CASE owner[m] # t
  BY <1>1, <1>3 DEF MutexUnlockFromSvc, placement, MutexEffect, Idles, WaitersStay, WaitersOf
<1>4. CASE owner[m] = t /\ lists[m] = <<>>
  <2>1. /\ owner' = [owner EXCEPT ![m] = Null] /\ prio' = RestoredPriority(t) /\ loc' = loc
    BY <1>1, <1>4 DEF MutexUnlockFromSvc, placement
  <2>2. WaitersOf(m) = {}
    BY <1>1, <1>2, <1>4, WaitersAreQueued, ShortLists DEF Primitive
  <2>3. Frees(m)
    BY <1>4, <2>1, <2>2 DEF Frees, WaitersStay, WaitersOf
  <2>. QED BY <1>1, <2>3 DEF MutexEffect
<1>5. CASE owner[m] = t /\ lists[m] # <<>>
  <2>1. /\ owner' = [owner EXCEPT ![m] = w] /\ prio' = RestoredPriority(t)
        /\ loc' = [loc EXCEPT ![w] = "ready"]
    BY <1>1, <1>5 DEF MutexUnlockFromSvc, HandOver, WakeThread
  <2>2. w \in Thread /\ loc[w] = m
    BY <1>1, <1>5, HeadWaits
  <2>3. w \in WaitersOf(m) /\ \A u \in WaitersOf(m) : prio[u] <= prio[w]
    BY <1>1, <1>2, <1>5, HeadIsBest DEF Primitive
  <2> HIDE DEF w
  <2>4. \A n \in Mutex : WaitersOf(n)' = WaitersOf(n) \ (IF n = m THEN {w} ELSE {})
    BY <1>1, <2>1, <2>2, WokenWaitsNoMore DEF Primitive
  <2>5. WaitersOf(m)' = WaitersOf(m) \ {w} /\ WaitersStay(Mutex \ {m})
    BY <1>1, <2>4 DEF WaitersStay
  <2>6. HandsOver(m, w)
    BY <1>5, <2>1, <2>3, <2>5 DEF HandsOver
  <2>. QED BY <1>1, <2>2, <2>6 DEF MutexEffect
<1>. QED BY <1>3, <1>4, <1>5

\* No other step touches mutexes, their waiters or priorities.
LEMMA EffectOfStep ==
    ASSUME IInv, [Next]_vars
    PROVE  MutexEffect
<1>1. CASE KernelStep
  <2>1. WaitersStay(Mutex) /\ owner' = owner
    BY <1>1, KernelWaiters DEF WaitersStay, Primitive, KernelStep, primitives
  <2>2. CASE \E t \in Thread : ThreadCreate(t)
    <3>1. PICK t \in Thread : boot = "create" /\ prio' = [prio EXCEPT ![t] = BasePriority[t]]
      BY <2>2 DEF ThreadCreate
    <3>2. prio = BasePriority /\ prio \in [Thread -> Nat]
      BY <3>1, BeforeStart DEF IInv, TypeOK, KernelTypeOK
    <3>. QED BY <2>1, <3>1, <3>2 DEF MutexEffect, Idles
  <2>3. CASE ~\E t \in Thread : ThreadCreate(t)
    <3>1. prio' = prio
      BY <1>1, <2>3 DEF KernelStep, StartStep, StartPick, StartArmFirstSwitch, StartGo,
         StartRequestSwitch, TickBegin, TickVisit, TickEnd, PendSVEnter, SwitchStep, PendSVFirst,
         PendSVSwitch
    <3>. QED BY <2>1, <3>1 DEF MutexEffect, Idles
  <2>. QED BY <2>2, <2>3
<1>2. CASE (\E c \in Calls : Raise(c)) \/ UNCHANGED vars
  BY <1>2 DEF Raise, vars, kernelVars, primitives, MutexEffect, Idles, WaitersStay, WaitersOf
<1>3. CASE \E s \in IsrSemaphore : IsrRelease(s)
  <2>1. PICK s \in IsrSemaphore : SignalLocked(s, value) /\ owner' = owner /\ prio' = prio
    BY <1>3 DEF IsrRelease
  <2>2. s \in Semaphore /\ s \notin Mutex
    BY SystemAssumption, KernelAssumption
  <2>3. WaitersStay(Mutex)
    BY <2>1, <2>2, SignalLeavesOthers DEF WaitersStay, Primitive
  <2>. QED BY <2>1, <2>3 DEF MutexEffect, Idles
<1>4. CASE Dispatch
  <2>1. svc # NoCall /\ svc \in Calls
    BY <1>4 DEF Dispatch, IInv, TypeOK
  <2>2. CASE TakeCall(Running) \/ ReleaseCall \/ YieldCall \/ DelayCall(Running)
    <3>1. prio' = prio /\ owner' = owner
      BY <2>2 DEF TakeCall, ReleaseCall, YieldCall, DelayCall, primitives
    <3>2. \A m \in Mutex : Undisturbed(m)
      BY <2>1, <2>2, OtherCallsLeaveMutexes
    <3>. QED BY <3>1, <3>2 DEF Undisturbed, MutexEffect, Idles, WaitersStay
  <2>. QED BY <1>4, <2>1, <2>2, LockEffect, UnlockEffect DEF Dispatch
<1>. QED BY <1>1, <1>2, <1>3, <1>4 DEF Next

\* A handed-over or freed mutex takes its last owner's priority back to the base,
\* and nobody else's.
LEMMA Restored ==
    ASSUME IInv, svc # NoCall, prio' = RestoredPriority(Running)
    PROVE  /\ Running \in Thread /\ prio'[Running] = BasePriority[Running]
           /\ \A t \in Thread : t # Running => prio'[t] = prio[t]
BY RestoreKeepsOrder, CallerRuns

\* Types and facts about waiters that every argument below uses.
LEMMA WaiterFacts ==
    ASSUME IInv
    PROVE  /\ prio \in [Thread -> Nat] /\ BasePriority \in [Thread -> Nat]
           /\ owner \in [Mutex -> Thread \cup {Null}] /\ Null \notin Thread
           /\ \A t \in Thread : BasePriority[t] <= prio[t]
           /\ \A m \in Mutex : \A t \in WaitersOf(m) :
                 /\ t \in Thread /\ owner[m] \in Thread \ {t}
                 /\ \A n \in Mutex \ {m} : t \notin WaitersOf(n)
                 /\ svc # NoCall => t # Running
<1>1. /\ prio \in [Thread -> Nat] /\ BasePriority \in [Thread -> Nat]
      /\ owner \in [Mutex -> Thread \cup {Null}] /\ Null \notin Thread
  BY KernelAssumption, MutexAssumption DEF IInv, TypeOK, KernelTypeOK, MutexTypeOK
<1>2. \A t \in Thread : BasePriority[t] <= prio[t]
  BY <1>1 DEF IInv, PriorityRestored
<1>3. ASSUME NEW m \in Mutex, NEW t \in WaitersOf(m)
      PROVE  /\ t \in Thread /\ owner[m] \in Thread \ {t}
             /\ \A n \in Mutex \ {m} : t \notin WaitersOf(n)
             /\ svc # NoCall => t # Running
  BY CallerRuns, KernelLists DEF IInv, WaitersHaveOwner, WaitersOf, Created
<1>. QED BY <1>1, <1>2, <1>3

----------------------------------------------------------------------------
(* The invariant of such clients. *)

\* A thread that acquires a mutex owns no other, and one that is handed a mutex
\* owned none while it waited.
LEMMA OwnersKeep ==
    ASSUME SingleInv, MutexEffect
    PROVE  (OneOwned /\ WaitersOwnNone)'
<1>. USE DEF SingleInv
<1>1. SUFFICES ASSUME NEW m \in Mutex, NEW n \in Mutex
               PROVE  /\ owner'[m] = owner'[n] /\ owner'[m] # Null => m = n
                      /\ \A t \in WaitersOf(m)' : owner'[n] # t
  BY DEF OneOwned, WaitersOwnNone
<1>2. /\ owner[m] = owner[n] /\ owner[m] # Null => m = n
      /\ \A t \in WaitersOf(m) : owner[n] # t
  BY DEF OneOwned, WaitersOwnNone
<1>3. owner \in [Mutex -> Thread \cup {Null}] /\ Null \notin Thread
  BY WaiterFacts
<1>4. \A k \in Mutex : \A t \in WaitersOf(k) :
         t \in Thread /\ (svc # NoCall => t # Running) /\ \A j \in Mutex \ {k} : t \notin WaitersOf(j)
  BY WaiterFacts
<1>5. CASE Idles
  BY <1>2, <1>5 DEF Idles, WaitersStay
<1>6. ASSUME NEW k \in Mutex, Acquires(k) \/ Lends(k)
      PROVE  svc # NoCall /\ Running \in Thread /\ \A j \in Mutex : owner[j] = Running => j = k
  <2>1. svc = [op |-> "MUTEX_LOCK", arg |-> k] /\ svc # NoCall
    BY <1>6 DEF Acquires, Lends, NoCall
  <2>2. cpu = Running /\ Running \in Thread
    BY <2>1, CallerRuns
  <2>. QED BY <2>1, <2>2 DEF SingleLock
<1>7. ASSUME NEW k \in Mutex, Acquires(k)
      PROVE  /\ owner'[m] = owner'[n] /\ owner'[m] # Null => m = n
             /\ \A t \in WaitersOf(m)' : owner'[n] # t
  <2>1. owner' = [owner EXCEPT ![k] = Running] /\ WaitersOf(m)' = WaitersOf(m)
    BY <1>7 DEF Acquires, WaitersStay
  <2>. QED BY <1>2, <1>3, <1>4, <1>6, <1>7, <2>1
<1>8. ASSUME NEW k \in Mutex, Lends(k)
      PROVE  /\ owner'[m] = owner'[n] /\ owner'[m] # Null => m = n
             /\ \A t \in WaitersOf(m)' : owner'[n] # t
  <2>1. owner' = owner /\ owner[k] # Running
    BY <1>8 DEF Lends
  <2>2. m # k => WaitersOf(m)' = WaitersOf(m)
    BY <1>8 DEF Lends, WaitersStay
  <2>3. m = k => WaitersOf(m)' = WaitersOf(m) \cup {Running}
    BY <1>8 DEF Lends
  <2>4. owner[n] # Running
    BY <1>6, <1>8, <2>1
  <2>. QED BY <1>2, <2>1, <2>2, <2>3, <2>4
<1>9. ASSUME NEW k \in Mutex, Frees(k)
      PROVE  /\ owner'[m] = owner'[n] /\ owner'[m] # Null => m = n
             /\ \A t \in WaitersOf(m)' : owner'[n] # t
  <2>1. owner' = [owner EXCEPT ![k] = Null] /\ WaitersOf(m)' = WaitersOf(m)
    BY <1>9 DEF Frees, WaitersStay
  <2>. QED BY <1>2, <1>3, <1>4, <2>1
<1>10. ASSUME NEW k \in Mutex, NEW w \in Thread, HandsOver(k, w)
       PROVE  /\ owner'[m] = owner'[n] /\ owner'[m] # Null => m = n
              /\ \A t \in WaitersOf(m)' : owner'[n] # t
  <2>1. owner' = [owner EXCEPT ![k] = w] /\ w \in WaitersOf(k)
    BY <1>10 DEF HandsOver
  <2>2. m # k => WaitersOf(m)' = WaitersOf(m)
    BY <1>10 DEF HandsOver, WaitersStay
  <2>3. m = k => WaitersOf(m)' = WaitersOf(m) \ {w}
    BY <1>10 DEF HandsOver
  <2>4. \A j \in Mutex : owner[j] # w
    BY <2>1 DEF WaitersOwnNone
  <2>5. w \notin WaitersOf(m)'
    BY <1>4, <2>1, <2>2, <2>3
  <2>. QED BY <1>2, <1>3, <2>1, <2>2, <2>3, <2>4, <2>5
<1>. QED BY <1>5, <1>7, <1>8, <1>9, <1>10 DEF MutexEffect

\* Only locks raise a priority, to that of a thread that starts to wait; an unlock
\* takes the loan back with the mutex it was for.
LEMMA LoansKeep ==
    ASSUME SingleInv, MutexEffect
    PROVE  LentByWaiter'
<1>. USE DEF SingleInv
<1>1. SUFFICES ASSUME NEW t \in Thread, prio'[t] > BasePriority[t]
               PROVE  \E m \in Mutex : owner'[m] = t /\ \E u \in WaitersOf(m)' : prio'[u] >= prio'[t]
  BY DEF LentByWaiter
<1>2. prio[t] > BasePriority[t] =>
         \E m \in Mutex : owner[m] = t /\ \E u \in WaitersOf(m) : prio[u] >= prio[t]
  BY DEF LentByWaiter
<1>3. /\ prio \in [Thread -> Nat] /\ BasePriority \in [Thread -> Nat]
      /\ owner \in [Mutex -> Thread \cup {Null}] /\ Null \notin Thread
  BY WaiterFacts
<1>4. \A k \in Mutex : \A u \in WaitersOf(k) :
         u \in Thread /\ (svc # NoCall => u # Running) /\ \A j \in Mutex \ {k} : u \notin WaitersOf(j)
  BY WaiterFacts
<1>5. CASE Idles
  BY <1>1, <1>2, <1>5 DEF Idles, WaitersStay
<1>6. ASSUME NEW k \in Mutex, Acquires(k)
      PROVE  \E m \in Mutex : owner'[m] = t /\ \E u \in WaitersOf(m)' : prio'[u] >= prio'[t]
  <2>1. /\ owner[k] = Null /\ owner' = [owner EXCEPT ![k] = Running] /\ prio' = prio
        /\ \A n \in Mutex : WaitersOf(n)' = WaitersOf(n)
    BY <1>6 DEF Acquires, WaitersStay
  <2>2. PICK m \in Mutex : owner[m] = t /\ \E u \in WaitersOf(m) : prio[u] >= prio[t]
    BY <1>1, <1>2, <2>1
  <2>3. owner'[m] = t /\ WaitersOf(m)' = WaitersOf(m)
    BY <1>3, <2>1, <2>2
  <2>. QED BY <2>1, <2>2, <2>3
<1>7. ASSUME NEW k \in Mutex, Lends(k)
      PROVE  \E m \in Mutex : owner'[m] = t /\ \E u \in WaitersOf(m)' : prio'[u] >= prio'[t]
  <2>1. /\ owner' = owner /\ owner[k] # Running
        /\ WaitersOf(k)' = WaitersOf(k) \cup {Running}
        /\ \A n \in Mutex \ {k} : WaitersOf(n)' = WaitersOf(n)
        /\ svc # NoCall
    BY <1>7 DEF Lends, WaitersStay, NoCall
  <2>2. Running \in Thread
    BY <2>1, CallerRuns
  <2>3. \A u \in Thread :
          prio'[u] = IF u = owner[k] /\ prio[Running] > prio[u] THEN prio[Running] ELSE prio[u]
    BY <1>7 DEF Lends
  <2>4. prio'[Running] = prio[Running] /\ \A u \in Thread : prio'[u] \in Nat /\ prio'[u] >= prio[u]
    BY <1>3, <2>1, <2>2, <2>3
  <2>5. CASE t = owner[k] /\ prio[Running] > prio[t]
    <3>1. prio'[t] = prio[Running] /\ Running \in WaitersOf(k)'
      BY <2>1, <2>3, <2>5
    <3>. QED BY <1>3, <2>1, <2>2, <2>4, <2>5, <3>1
  <2>6. CASE ~(t = owner[k] /\ prio[Running] > prio[t])
    <3>1. prio'[t] = prio[t]
      BY <2>3, <2>6
    <3>2. PICK m \in Mutex : owner[m] = t /\ \E u \in WaitersOf(m) : prio[u] >= prio[t]
      BY <1>1, <1>2, <3>1
    <3>3. PICK u \in WaitersOf(m) : prio[u] >= prio[t]
      BY <3>2
    <3>4. u \in Thread /\ u \in WaitersOf(m)'
      BY <1>4, <2>1
    <3>5. prio'[u] >= prio'[t]
      BY <1>3, <2>4, <3>1, <3>3, <3>4
    <3>. QED BY <2>1, <3>2, <3>4, <3>5
  <2>. QED BY <2>5, <2>6
<1>8. ASSUME NEW k \in Mutex, svc # NoCall, owner[k] = Running,
             NEW o \in Thread \cup {Null}, owner' = [owner EXCEPT ![k] = o],
             prio' = RestoredPriority(Running),
             \A n \in Mutex \ {k} : WaitersOf(n)' = WaitersOf(n),
             o = Null \/ o \in WaitersOf(k)
      PROVE  \E m \in Mutex : owner'[m] = t /\ \E u \in WaitersOf(m)' : prio'[u] >= prio'[t]
  <2>1. /\ Running \in Thread /\ prio'[Running] = BasePriority[Running]
        /\ \A u \in Thread : u # Running => prio'[u] = prio[u]
    BY <1>8, Restored
  <2>2. t # Running /\ prio'[t] = prio[t]
    BY <1>1, <1>3, <2>1
  <2>3. PICK m \in Mutex : owner[m] = t /\ \E u \in WaitersOf(m) : prio[u] >= prio[t]
    BY <1>1, <1>2, <2>2
  <2>4. m # k
    BY <1>8, <2>2, <2>3
  <2>5. owner'[m] = t /\ WaitersOf(m)' = WaitersOf(m)
    BY <1>3, <1>8, <2>3, <2>4
  <2>6. PICK u \in WaitersOf(m) : prio[u] >= prio[t]
    BY <2>3
  <2>7. prio'[u] = prio[u]
    BY <1>4, <1>8, <2>1
  <2>. QED BY <2>2, <2>5, <2>6, <2>7
<1>9. ASSUME NEW k \in Mutex, Frees(k)
      PROVE  \E m \in Mutex : owner'[m] = t /\ \E u \in WaitersOf(m)' : prio'[u] >= prio'[t]
  <2>1. /\ svc # NoCall /\ owner[k] = Running /\ owner' = [owner EXCEPT ![k] = Null]
        /\ prio' = RestoredPriority(Running) /\ \A n \in Mutex \ {k} : WaitersOf(n)' = WaitersOf(n)
    BY <1>9 DEF Frees, WaitersStay
  <2>. QED BY <1>8, <2>1
<1>10. ASSUME NEW k \in Mutex, NEW w \in Thread, HandsOver(k, w)
       PROVE  \E m \in Mutex : owner'[m] = t /\ \E u \in WaitersOf(m)' : prio'[u] >= prio'[t]
  <2>1. /\ svc # NoCall /\ owner[k] = Running /\ owner' = [owner EXCEPT ![k] = w]
        /\ prio' = RestoredPriority(Running) /\ \A n \in Mutex \ {k} : WaitersOf(n)' = WaitersOf(n)
        /\ w \in WaitersOf(k)
    BY <1>10 DEF HandsOver, WaitersStay
  <2>. QED BY <1>8, <2>1
<1>. QED BY <1>5, <1>6, <1>7, <1>9, <1>10 DEF MutexEffect

\* A thread that starts to wait lends its own priority; a thread that is handed the
\* mutex was its best waiter, so it needs no loan for those behind it.
LEMMA InheritanceKeeps ==
    ASSUME SingleInv, Inheritance, MutexEffect
    PROVE  Inheritance'
<1>. USE DEF SingleInv
<1>1. SUFFICES ASSUME NEW m \in Mutex, NEW t \in WaitersOf(m)'
               PROVE  prio'[owner'[m]] >= BasePriority[t]
  BY DEF Inheritance
<1>2. \A u \in WaitersOf(m) : prio[owner[m]] >= BasePriority[u]
  BY DEF Inheritance
<1>3. /\ prio \in [Thread -> Nat] /\ BasePriority \in [Thread -> Nat]
      /\ owner \in [Mutex -> Thread \cup {Null}] /\ Null \notin Thread
      /\ \A u \in Thread : BasePriority[u] <= prio[u]
  BY WaiterFacts
<1>4. \A k \in Mutex : \A u \in WaitersOf(k) : u \in Thread /\ owner[k] \in Thread
  BY WaiterFacts
<1>5. CASE Idles
  BY <1>2, <1>5 DEF Idles, WaitersStay
<1>6. ASSUME NEW k \in Mutex, Acquires(k)
      PROVE  prio'[owner'[m]] >= BasePriority[t]
  <2>1. /\ owner[k] = Null /\ owner' = [owner EXCEPT ![k] = Running] /\ prio' = prio
        /\ WaitersOf(m)' = WaitersOf(m)
    BY <1>6 DEF Acquires, WaitersStay
  <2>2. m # k
    BY <1>3, <1>4, <2>1
  <2>. QED BY <1>2, <2>1, <2>2
<1>7. ASSUME NEW k \in Mutex, Lends(k)
      PROVE  prio'[owner'[m]] >= BasePriority[t]
  <2>1. /\ owner' = owner /\ owner[k] \notin {Running, Null}
        /\ WaitersOf(k)' = WaitersOf(k) \cup {Running}
        /\ \A n \in Mutex \ {k} : WaitersOf(n)' = WaitersOf(n)
        /\ svc # NoCall
    BY <1>7 DEF Lends, WaitersStay, NoCall
  <2>2. Running \in Thread /\ owner[k] \in Thread
    BY <1>3, <2>1, CallerRuns
  <2>3. \A u \in Thread :
          prio'[u] = IF u = owner[k] /\ prio[Running] > prio[u] THEN prio[Running] ELSE prio[u]
    BY <1>7 DEF Lends
  <2>4. \A u \in Thread : prio'[u] \in Nat /\ prio'[u] >= prio[u]
    BY <1>3, <2>2, <2>3
  <2>5. CASE t \in WaitersOf(m)
    <3>1. t \in Thread /\ owner[m] \in Thread
      BY <1>4, <2>5
    <3>. QED BY <1>2, <1>3, <2>1, <2>4, <2>5, <3>1
  <2>6. CASE t \notin WaitersOf(m)
    <3>1. m = k /\ t = Running
      BY <2>1, <2>6
    <3>2. prio'[owner[k]] >= prio[Running]
      BY <1>3, <2>2, <2>3
    <3>. QED BY <1>3, <2>1, <2>2, <2>4, <3>1, <3>2
  <2>. QED BY <2>5, <2>6
<1>8. ASSUME NEW k \in Mutex, m # k, svc # NoCall, owner[k] = Running,
             prio' = RestoredPriority(Running), WaitersOf(m)' = WaitersOf(m),
             owner'[m] = owner[m]
      PROVE  prio'[owner'[m]] >= BasePriority[t]
  <2>1. Running \in Thread /\ \A u \in Thread : u # Running => prio'[u] = prio[u]
    BY <1>8, Restored
  <2>2. owner[m] \in Thread /\ owner[m] # Running
    BY <1>3, <1>4, <1>8, <2>1 DEF OneOwned
  <2>. QED BY <1>2, <1>8, <2>1, <2>2
<1>9. ASSUME NEW k \in Mutex, Frees(k)
      PROVE  prio'[owner'[m]] >= BasePriority[t]
  <2>1. /\ svc # NoCall /\ owner[k] = Running /\ owner' = [owner EXCEPT ![k] = Null]
        /\ prio' = RestoredPriority(Running) /\ WaitersOf(m)' = WaitersOf(m)
        /\ WaitersOf(k) = {}
    BY <1>9 DEF Frees, WaitersStay
  <2>2. m # k /\ owner'[m] = owner[m]
    BY <1>3, <2>1
  <2>. QED BY <1>8, <2>1, <2>2
<1>10. ASSUME NEW k \in Mutex, NEW w \in Thread, HandsOver(k, w)
       PROVE  prio'[owner'[m]] >= BasePriority[t]
  <2>1. /\ svc # NoCall /\ owner[k] = Running /\ owner' = [owner EXCEPT ![k] = w]
        /\ prio' = RestoredPriority(Running)
        /\ w \in WaitersOf(k) /\ \A u \in WaitersOf(k) : prio[u] <= prio[w]
        /\ WaitersOf(k)' = WaitersOf(k) \ {w}
        /\ \A n \in Mutex \ {k} : WaitersOf(n)' = WaitersOf(n)
    BY <1>10 DEF HandsOver, WaitersStay
  <2>2. CASE m # k
    BY <1>3, <1>8, <2>1, <2>2
  <2>3. CASE m = k
    <3>1. owner'[m] = w /\ t \in WaitersOf(k) /\ t \in Thread
      BY <1>3, <1>4, <2>1, <2>3
    <3>2. w # Running /\ prio'[w] = prio[w]
      BY <2>1, Restored, WaiterFacts
    <3>. QED BY <1>3, <2>1, <3>1, <3>2
  <2>. QED BY <2>2, <2>3
<1>. QED BY <1>5, <1>6, <1>7, <1>9, <1>10 DEF MutexEffect

\* The invariant holds from the start.
LEMMA SingleInit ==
    ASSUME Init
    PROVE  SingleInv /\ Inheritance
<1>1. IInv
  BY InitIInv
<1>2. owner = [m \in Mutex |-> Null] /\ svc = NoCall /\ prio = BasePriority
  BY DEF Init, MutexInit, KernelInit
<1>3. WaitersHaveOwner
  BY <1>1 DEF IInv
<1>4. \A m \in Mutex : WaitersOf(m) = {}
  BY <1>1, <1>2, WaiterFacts
<1>5. \A t \in Thread : prio[t] = BasePriority[t] /\ BasePriority[t] \in Nat
  BY <1>1, <1>2, WaiterFacts
<1>6. LentByWaiter
  BY <1>5 DEF LentByWaiter
<1>7. OneOwned /\ WaitersOwnNone /\ Inheritance
  BY <1>2, <1>4 DEF OneOwned, WaitersOwnNone, Inheritance
<1>8. SingleLock
  BY <1>2 DEF SingleLock, NoCall
<1>. QED BY <1>1, <1>6, <1>7, <1>8 DEF SingleInv

----------------------------------------------------------------------------
(* The scheduler.  The inductive form also speaks of the time before the   *)
(* first switch, when main is on the CPU.                                  *)

BestRuns ==
    boot # "create" /\ (cpu # Main => ~SwitchDue /\ ~inTick) =>
       \A t \in Thread : loc[t] = "ready" => prio[t] <= prio[Running]

\* The head of the ready list has the highest priority there.
LEMMA ReadyHead ==
    ASSUME IInv, NEW t \in Thread, loc[t] = "ready"
    PROVE  /\ lists["ready"] # <<>> /\ Head(lists["ready"]) \in Thread
           /\ prio[t] <= prio[Head(lists["ready"])]
<1>1. "ready" \in ListName /\ lists["ready"] \in Seq(Thread) /\ prio \in [Thread -> Nat]
  BY KernelLists DEF IInv, TypeOK, KernelTypeOK
<1>2. state[t] = "READY"
  BY KernelLists DEF IInv, StateAgrees, Created
<1>3. t \in ToSet(lists["ready"])
  BY <1>1, <1>2 DEF IInv, Seated, Seat
<1>4. PICK i \in 1..Len(lists["ready"]) : lists["ready"][i] = t
  BY <1>1, <1>3 DEF ToSet
<1>5. lists["ready"] # <<>> /\ Head(lists["ready"]) = lists["ready"][1]
      /\ 1 \in 1..Len(lists["ready"]) /\ lists["ready"][1] \in Thread
  BY <1>1, <1>4
<1>6. Ordered(lists["ready"], prio)
  BY <1>1 DEF IInv, Sorted
<1>. QED BY <1>1, <1>4, <1>5, <1>6 DEF Ordered

\* Where no list and no priority changes, neither does who runs.
LEMMA NothingMoves ==
    ASSUME BestRuns, loc' = loc, prio' = prio, lists' = lists, boot # "create",
           cpu # Main => ~SwitchDue /\ ~inTick
    PROVE  BestRuns'
BY DEF BestRuns, Running

\* The running thread stays the same while the CPU does not change hands.
LEMMA SameRuns ==
    ASSUME IInv, IInv', cpu # Main, cpu' = cpu
    PROVE  Running' = Running /\ cpu = Running
BY DEF IInv, Phase

\* A woken thread that does not request the switch is not better than the one
\* that runs.
LEMMA WokenIsNoBetter ==
    ASSUME IInv, IInv', BestRuns, NEW s \in Semaphore, SignalLocked(s, value), prio' = prio,
           UNCHANGED <<switching, cpu, bringUp, tick>>, boot # "create"
    PROVE  BestRuns'
<1>1. SUFFICES ASSUME cpu # Main => ~SwitchDue' /\ ~inTick
               PROVE  \A t \in Thread : loc'[t] = "ready" => prio'[t] <= prio'[Running']
  BY DEF BestRuns, tick
<1>2. CASE lists[s] = <<>>
  <2>1. loc' = loc /\ lists' = lists /\ pendSV' = pendSV
    BY <1>2 DEF SignalLocked, placement
  <2>2. cpu # Main => ~SwitchDue /\ ~inTick
    BY <1>1, <2>1 DEF SwitchDue
  <2>. QED BY <1>1, <2>1, <2>2 DEF BestRuns, Running
<1>3. CASE lists[s] # <<>>
  <2>1. PICK w \in Thread : /\ loc' = [loc EXCEPT ![w] = "ready"]
                            /\ pendSV' = (pendSV \/ prio[w] > prio[Running])
    BY <1>3, HeadWaits DEF SignalLocked, WakeThread
  <2>2. cpu # Main
    BY <1>3, HeadWaits
  <2>3. Running' = Running /\ Running \in Thread
    BY <2>2, SameRuns, RunningThread
  <2>4. prio \in [Thread -> Nat] /\ loc \in [Thread -> ListName \cup {NoList}]
    BY DEF IInv, TypeOK, KernelTypeOK
  <2>5. ~pendSV /\ ~switching /\ ~inTick /\ ~(prio[w] > prio[Running])
    BY <1>1, <2>1, <2>2 DEF SwitchDue
  <2>6. \A t \in Thread : loc[t] = "ready" => prio[t] <= prio[Running]
    BY <2>2, <2>5 DEF BestRuns, SwitchDue
  <2>. QED BY <2>1, <2>3, <2>4, <2>5, <2>6
<1>. QED BY <1>2, <1>3

\* The switch hands the CPU to the head of the ready list unless the outgoing
\* thread is better than that.
LEMMA SwitchPicksBest ==
    ASSUME IInv, PendSVSwitch
    PROVE  \A t \in Thread : loc'[t] = "ready" => prio'[t] <= prio'[Running']
<1>1. /\ prio \in [Thread -> Nat] /\ prio' = prio /\ loc \in [Thread -> ListName \cup {NoList}]
      /\ boot # "create" /\ Schedule
  BY DEF PendSVSwitch, IInv, TypeOK, KernelTypeOK, Phase, SwitchDue
<1>2. Running \in Thread
  BY <1>1, RunningThread
<1>3. CASE KeepsCpu
  <2>1. loc' = loc /\ Running' = Running
    BY <1>1, <1>3 DEF Schedule, Running
  <2>2. ASSUME NEW t \in Thread, loc[t] = "ready" PROVE prio[t] <= prio[Running]
    <3>1. /\ lists["ready"] # <<>> /\ Head(lists["ready"]) \in Thread
          /\ prio[t] <= prio[Head(lists["ready"])]
      BY <2>2, ReadyHead
    <3>2. prio[Running] > prio[Head(lists["ready"])]
      BY <1>3, <3>1 DEF KeepsCpu
    <3>. QED BY <1>1, <1>2, <3>1, <3>2
  <2>. QED BY <1>1, <2>1, <2>2
<1>4. CASE ~KeepsCpu
  <2>1. PICK in \in Thread : in = Head(lists["ready"])
    BY <1>4, HeadIsIn, KernelLists DEF KeepsCpu, IInv, TypeOK, KernelTypeOK
  <2>2. PICK dst : /\ dst = IF state[Running] = "BLOCKED" THEN loc[Running] ELSE "ready"
                   /\ loc' = [loc EXCEPT ![Running] = dst, ![in] = "running"]
    BY <1>1, <1>4, <2>1 DEF Schedule
  <2>3. Running' = in
    <3>1. SwitchedTo(Running, in)
      BY <1>4, <2>1, SwitchMoves
    <3>2. lists'["running"] = <<in>>
      BY <3>1 DEF SwitchedTo
    <3>. QED BY <3>2 DEF Running
  <2>4. state[Running] = "BLOCKED" => loc[Running] # "ready"
    BY <1>2, KernelLists DEF IInv, StateAgrees, Created
  <2>5. ASSUME NEW t \in Thread, loc'[t] = "ready" PROVE prio[t] <= prio[in]
    <3>1. CASE t = Running
      <4>1. state[Running] # "BLOCKED"
        BY <1>1, <1>2, <2>2, <2>4, <2>5, <3>1
      <4>2. ~(prio[Running] > prio[in])
        BY <1>4, <2>1, <4>1 DEF KeepsCpu
      <4>. QED BY <1>1, <1>2, <3>1, <4>2
    <3>2. CASE t # Running
      <4>1. loc[t] = "ready"
        BY <1>1, <1>2, <2>2, <2>5, <3>2
      <4>. QED BY <2>1, <4>1, ReadyHead
    <3>. QED BY <3>1, <3>2
  <2>. QED BY <1>1, <2>3, <2>5
<1>. QED BY <1>3, <1>4

\* Bring-up, ticks and switches: the first thread is the best there is, a tick
\* wakes nobody before the first switch and ends with a request for one.
LEMMA KernelBest ==
    ASSUME IInv, IInv', BestRuns, KernelStep
    PROVE  BestRuns'
<1>1. CASE (\E t \in Thread : ThreadCreate(t)) \/ PendSVSwitch
  BY <1>1, SwitchPicksBest DEF ThreadCreate, bringUp, BestRuns
<1>2. CASE StartPick
  <2>1. PICK h \in Thread : h = Head(lists["ready"])
    BY <1>2, HeadIsIn, KernelLists DEF StartPick, IInv, TypeOK, KernelTypeOK
  <2>2. loc' = [loc EXCEPT ![h] = "running"] /\ prio' = prio
    BY <1>2, <2>1 DEF StartPick
  <2>3. loc \in [Thread -> ListName \cup {NoList}]
    BY DEF IInv, TypeOK, KernelTypeOK
  <2>4. lists'["running"] = <<h>>
    BY <2>2, <2>3 DEF IInv, RunningNamed
  <2>5. Running' = h
    BY <2>4 DEF Running
  <2>6. ASSUME NEW t \in Thread, loc'[t] = "ready" PROVE prio[t] <= prio[h]
    <3>1. loc[t] = "ready"
      BY <2>2, <2>3, <2>6
    <3>. QED BY <2>1, <3>1, ReadyHead
  <2>. QED BY <2>2, <2>5, <2>6 DEF BestRuns
<1>3. CASE StartArmFirstSwitch \/ StartGo \/ StartRequestSwitch \/ PendSVFirst
  <2>1. loc' = loc /\ prio' = prio /\ lists' = lists
    BY <1>3 DEF StartArmFirstSwitch, StartGo, StartRequestSwitch, PendSVFirst, placement
  <2>2. cpu = Main /\ boot # "create"
    BY <1>3 DEF StartArmFirstSwitch, StartGo, StartRequestSwitch, PendSVFirst, InMain, IInv, Phase
  <2>. QED BY <2>1, <2>2, NothingMoves
<1>4. CASE TickBegin \/ TickEnd \/ PendSVEnter
  <2>1. loc' = loc /\ prio' = prio /\ lists' = lists /\ cpu' = cpu /\ boot' = boot
    BY <1>4 DEF TickBegin, TickEnd, PendSVEnter, placement, bringUp
  <2>2. SwitchDue' \/ inTick'
    BY <1>4 DEF TickBegin, TickEnd, PendSVEnter, SwitchDue
  <2>3. SUFFICES ASSUME boot # "create", cpu = Main
                 PROVE  BestRuns'
    BY <2>1, <2>2 DEF BestRuns
  <2>. QED BY <2>1, <2>3, NothingMoves
<1>5. CASE TickVisit
  <2>1. inTick' /\ cpu' = cpu /\ scan # <<>>
    BY <1>5 DEF TickVisit
  <2>2. PICK t \in Thread : loc[t] = "stopped"
    <3>1. scan \in Seq(Thread)
      BY DEF IInv, TypeOK, KernelTypeOK
    <3>2. Head(scan) \in ToSet(scan) /\ Head(scan) \in Thread
      BY <2>1, <3>1, HeadIsIn
    <3>. QED BY <3>2 DEF IInv, ScanSleeps
  <2>3. cpu # Main
    BY <2>2, KernelAssumption DEF IInv, Phase, NoList
  <2>. QED BY <2>1, <2>3 DEF BestRuns
<1>. QED BY <1>1, <1>2, <1>3, <1>4, <1>5 DEF KernelStep, StartStep, SwitchStep

\* An unlock that ends a loan hands the mutex to a thread that is due at once.
LEMMA UnlockBest ==
    ASSUME SingleInv, IInv', BestRuns, svc # NoCall, svc \in Calls, ~inTick,
           UnlockCall(Running), UNCHANGED <<switching, cpu, bringUp, tick>>
    PROVE  BestRuns'
<1>. USE DEF SingleInv
<1>1. /\ Running \in Thread /\ cpu # Main /\ boot # "create" /\ ~switching
      /\ loc[Running] = "running" /\ Running' = Running
  BY CallerRuns, SameRuns
<1>2. SUFFICES ASSUME ~pendSV', NEW t \in Thread, loc'[t] = "ready"
               PROVE  prio'[t] <= prio'[Running]
  BY <1>1 DEF BestRuns, SwitchDue
<1>3. PICK m \in Mutex : MutexUnlockFromSvc(m, Running)
  BY DEF UnlockCall, Calls
<1>4. prio \in [Thread -> Nat] /\ BasePriority \in [Thread -> Nat]
      /\ loc \in [Thread -> ListName \cup {NoList}] /\ prio[Running] >= BasePriority[Running]
  BY <1>1, WaiterFacts DEF IInv, TypeOK, KernelTypeOK
<1>5. ~pendSV => \A u \in Thread : loc[u] = "ready" => prio[u] <= prio[Running]
  BY <1>1, <1>2 DEF BestRuns, SwitchDue
<1>6. CASE owner[m] # Running
  BY <1>2, <1>3, <1>5, <1>6 DEF MutexUnlockFromSvc, placement
<1>7. CASE owner[m] = Running
  <2>1. prio' = RestoredPriority(Running)
    BY <1>3, <1>7 DEF MutexUnlockFromSvc
  <2>2. /\ prio'[Running] = BasePriority[Running]
        /\ \A u \in Thread : u # Running => prio'[u] = prio[u]
    BY <2>1, Restored
  <2>3. prio[Running] > BasePriority[Running] => \E u \in WaitersOf(m) : prio[u] >= prio[Running]
    BY <1>1, <1>4, <1>7, WaiterFacts DEF LentByWaiter, OneOwned
  <2>4. CASE lists[m] = <<>>
    <3>1. loc' = loc /\ pendSV' = pendSV
      BY <1>3, <1>7, <2>4 DEF MutexUnlockFromSvc, placement
    <3>2. WaitersOf(m) = {}
      BY <1>1, <2>4, KernelLists, WaitersAreQueued, ShortLists DEF Primitive
    <3>3. prio[Running] = BasePriority[Running]
      BY <1>1, <1>4, <2>3, <3>2
    <3>. QED BY <1>1, <1>2, <1>5, <2>2, <3>1, <3>3
  <2>5. CASE lists[m] # <<>>
    <3>1. PICK w : w = Head(lists[m])
      OBVIOUS
    <3>2. /\ w \in Thread /\ w # Running /\ \A u \in WaitersOf(m) : prio[u] <= prio[w]
      BY <1>1, <2>5, <3>1, KernelLists, HeadWaits, HeadIsBest DEF Primitive
    <3>3. /\ loc' = [loc EXCEPT ![w] = "ready"]
          /\ pendSV' = (pendSV \/ prio'[w] > prio'[Running])
      BY <1>3, <1>7, <2>5, <3>1 DEF MutexUnlockFromSvc, HandOver, WakeThread
    <3>4. ~pendSV /\ ~(prio[w] > BasePriority[Running])
      BY <1>2, <2>2, <3>2, <3>3
    <3>5. prio[Running] = BasePriority[Running]
      <4>1. SUFFICES ASSUME prio[Running] > BasePriority[Running] PROVE FALSE
        BY <1>1, <1>4
      <4>2. PICK u \in WaitersOf(m) : prio[u] >= prio[Running]
        BY <2>3, <4>1
      <4>3. u \in Thread /\ prio[u] <= prio[w]
        BY <3>2, WaiterFacts
      <4>. QED BY <1>1, <1>4, <3>2, <3>4, <4>1, <4>2, <4>3
    <3>6. CASE t = w
      BY <1>1, <1>4, <2>2, <3>2, <3>4, <3>6
    <3>7. CASE t # w
      <4>1. loc[t] = "ready" /\ t # Running
        BY <1>1, <1>2, <1>4, <3>2, <3>3, <3>7
      <4>2. prio[t] <= prio[Running]
        BY <1>5, <3>4, <4>1
      <4>. QED BY <2>2, <3>5, <4>1, <4>2
    <3>. QED BY <3>6, <3>7
  <2>. QED BY <2>4, <2>5
<1>. QED BY <1>6, <1>7

\* The other calls block their caller, and request the switch, or move nobody.
LEMMA BestStep ==
    ASSUME SingleInv, IInv', BestRuns, [Next]_vars
    PROVE  BestRuns'
<1>. USE DEF SingleInv
<1>1. CASE KernelStep
  BY <1>1, KernelBest
<1>2. CASE (\E c \in Calls : Raise(c)) \/ UNCHANGED vars
  <2>1. /\ loc' = loc /\ prio' = prio /\ lists' = lists /\ cpu' = cpu /\ boot' = boot
        /\ pendSV' = pendSV /\ switching' = switching /\ inTick' = inTick
    BY <1>2 DEF Raise, vars, kernelVars
  <2>. QED BY <2>1 DEF BestRuns, Running, SwitchDue
<1>3. CASE \E s \in IsrSemaphore : IsrRelease(s)
  BY <1>3, WokenIsNoBetter, SystemAssumption DEF IsrRelease
<1>4. CASE Dispatch
  <2>1. /\ svc # NoCall /\ svc \in Calls /\ ~inTick /\ cpu # Main /\ boot # "create"
        /\ UNCHANGED <<switching, cpu, bringUp, tick>>
    BY <1>4, CallerRuns DEF Dispatch, IInv, TypeOK
  <2>2. CASE UnlockCall(Running)
    BY <2>1, <2>2, UnlockBest
  <2>3. CASE ReleaseCall
    <3>1. PICK s \in Semaphore : SignalLocked(s, value) /\ prio' = prio
      BY <2>1, <2>3 DEF ReleaseCall, Calls
    <3>. QED BY <2>1, <3>1, WokenIsNoBetter
  <2>4. CASE LockCall(Running) \/ TakeCall(Running) \/ YieldCall \/ DelayCall(Running)
    <3>1. \/ pendSV' = TRUE
          \/ loc' = loc /\ lists' = lists /\ prio' = prio /\ pendSV' = pendSV
      BY <2>4 DEF LockCall, TakeCall, YieldCall, DelayCall, MutexLockFromSvc, TakeFromSvc,
         BlockThread, placement
    <3>. QED BY <2>1, <3>1 DEF BestRuns, Running, SwitchDue, tick, bringUp
  <2>. QED BY <1>4, <2>2, <2>3, <2>4 DEF Dispatch
<1>. QED BY <1>1, <1>2, <1>3, <1>4 DEF Next

----------------------------------------------------------------------------
(* The theorems. *)

\* The invariants of clients that hold one mutex at a time.
THEOREM SingleInvariance == SingleLockSpec => [](SingleInv /\ Inheritance /\ BestRuns)
<1>1. Init => SingleInv /\ Inheritance /\ BestRuns
  <2>1. Init => boot = "create"
    BY DEF Init, KernelInit
  <2>. QED BY <2>1, SingleInit DEF BestRuns
<1>2. SingleInv /\ Inheritance /\ BestRuns /\ [Next /\ SingleLock']_vars
        => (SingleInv /\ Inheritance /\ BestRuns)'
  <2>1. SUFFICES ASSUME SingleInv, Inheritance, BestRuns, [Next /\ SingleLock']_vars
                 PROVE  (SingleInv /\ Inheritance /\ BestRuns)'
    OBVIOUS
  <2>2. IInv /\ [Next]_vars
    BY <2>1 DEF SingleInv
  <2>3. IInv' /\ MutexEffect
    BY <2>2, StepKeeps, EffectOfStep
  <2>4. SingleLock'
    BY <2>1 DEF SingleInv, SingleLock, vars, kernelVars, primitives
  <2>. QED BY <2>1, <2>2, <2>3, <2>4, OwnersKeep, LoansKeep, InheritanceKeeps, BestStep
           DEF SingleInv
<1>. QED BY <1>1, <1>2, PTL DEF SingleLockSpec

\* The owner of a mutex runs at least at the base priority of every thread that
\* waits for it, when threads hold one mutex at a time.
THEOREM LendingSuffices == SingleLockSpec => []Inheritance
BY SingleInvariance, PTL

\* Whenever no switch is due the running thread has the highest priority of all
\* that could run, when threads hold one mutex at a time.
THEOREM HighestAlwaysRuns == SingleLockSpec => []HighestRuns
<1>1. SingleInv /\ Inheritance /\ BestRuns => HighestRuns
  BY DEF SingleInv, IInv, Phase, BestRuns, HighestRuns
<1>. QED BY <1>1, SingleInvariance, PTL
=============================================================================
