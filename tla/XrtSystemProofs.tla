-------------------------- MODULE XrtSystemProofs --------------------------
(***************************************************************************)
(* The safety of the kernel for any number of threads, semaphores, mutexes *)
(* and priorities: IInv is inductive.                                      *)
(***************************************************************************)
EXTENDS XrtInvariant, XrtThreadListsProofs

SeatMap == [t \in Thread |-> Seat(t)]

\* The kernel's own lists and the primitives' wait lists have different names.
LEMMA KernelLists ==
    /\ {"ready", "running", "stopped"} \subseteq ListName
    /\ Semaphore \subseteq ListName /\ Mutex \subseteq ListName
    /\ NoList \notin ListName
    /\ "ready" # "running" /\ "ready" # "stopped" /\ "running" # "stopped"
    /\ {"ready", "running", "stopped"} \cap (Semaphore \cup Mutex) = {}
BY KernelAssumption DEF ListName, NoList

\* The largest 16-bit value is a number; elsewhere it is not expanded.
LEMMA Width == UINT16_MAX \in Nat
BY SMT DEF UINT16_MAX

----------------------------------------------------------------------------
(* What IInv says of the running thread. *)

\* The running list holds the running thread, and every other thread is linked
\* where its TCB says.
LEMMA RunningThread ==
    ASSUME IInv, boot # "create"
    PROVE  /\ Running \in Thread
           /\ lists["running"] = <<Running>>
           /\ Seat(Running) = "running"
           /\ \A t \in Thread : t # Running => Seat(t) = loc[t] /\ loc[t] # "running"
<1>1. lists["running"] \in Seq(Thread) /\ Len(lists["running"]) = 1
  BY KernelLists DEF IInv, TypeOK, KernelTypeOK, OneRuns
<1>2. Running \in Thread /\ lists["running"] = <<Running>>
  BY <1>1 DEF Running
<1>3. Seat(Running) = "running"
  BY <1>2 DEF IInv, RunningNamed, Seat
<1>4. ASSUME NEW t \in Thread, t # Running
      PROVE  Seat(t) = loc[t] /\ loc[t] # "running"
  <2>1. lists["running"] # <<t>>
    BY <1>2, <1>4
  <2>. QED BY <2>1 DEF IInv, RunningNamed, Seat
<1>. QED BY <1>2, <1>3, <1>4

\* Seated in the form the lemmas about list operations need.
LEMMA IInvPlaced ==
    ASSUME IInv
    PROVE  Placed(lists, SeatMap, ListName, Thread)
BY DEF IInv, TypeOK, KernelTypeOK, Seated, SeatMap, Placed

\* Sorted in that form, and why insertions keep it: InsertionAssumption.
LEMMA IInvOrder ==
    ASSUME IInv
    PROVE  /\ prio \in [Thread -> Nat]
           /\ SafeOrder(prio, Thread)
           /\ AllOrdered(lists, prio, ListName, {"stopped"})
BY InsertionAssumption
   DEF IInv, TypeOK, KernelTypeOK, SafeOrder, Uniform, Sorted, AllOrdered

\* Actions that leave lists and TCBs alone.
LEMMA Quiet ==
    ASSUME IInv, UNCHANGED <<placement, prio, wakeTick>>,
           boot = "create" <=> boot' = "create"
    PROVE  (/\ Seated /\ OneRuns /\ RunningNamed /\ Sorted /\ StateAgrees
            /\ IdleRunnable /\ Uniform)'
<1>1. lists' = lists /\ loc' = loc /\ state' = state /\ reason' = reason
      /\ prio' = prio /\ wakeTick' = wakeTick
  BY DEF placement
<1>2. Created' = Created
  BY <1>1 DEF Created
<1>3. Seated' /\ RunningNamed' /\ Sorted'
  BY <1>1 DEF IInv, Seated, Seat, RunningNamed, Sorted, Ordered
<1>4. OneRuns' /\ StateAgrees'
  BY <1>1, <1>2 DEF IInv, OneRuns, StateAgrees
<1>5. IdleRunnable' /\ Uniform'
  BY <1>1 DEF IInv, IdleRunnable, Uniform
<1>. QED BY <1>3, <1>4, <1>5

\* The owners' part of IInv, when neither they nor the lists change.
LEMMA QuietOwners ==
    ASSUME IInv, UNCHANGED <<loc, prio, owner>>
    PROVE  (OwnersCreated /\ WaitersHaveOwner /\ PriorityRestored)'
BY DEF IInv, OwnersCreated, WaitersHaveOwner, WaitersOf, PriorityRestored, Created

\* xrt_kernel_init establishes the invariant: the idle thread is ready, alone.
LEMMA InitIInv == Init => IInv
<1>. SUFFICES ASSUME Init PROVE IInv
  OBVIOUS
<1>. USE DEF Init, KernelInit, SemaphoreInit, MutexInit
<1>1. TypeOK
  <2>1. <<Idle>> \in Seq(Thread) /\ <<>> \in Seq(Thread)
    BY KernelAssumption
  <2>2. KernelTypeOK
    BY <2>1, KernelAssumption, KernelLists DEF KernelTypeOK
  <2>3. SemaphoreTypeOK /\ MutexTypeOK
    BY SemaphoreAssumption DEF SemaphoreTypeOK, MutexTypeOK
  <2>. QED BY <2>2, <2>3 DEF TypeOK
<1>2. \A t \in Thread : Seat(t) = loc[t]
  BY KernelAssumption DEF Seat
<1>3. Seated
  <2>. SUFFICES ASSUME NEW l \in ListName
                PROVE  /\ IsInjective(lists[l])
                       /\ ToSet(lists[l]) = {t \in Thread : loc[t] = l}
    BY <1>2 DEF Seated
  <2>1. CASE l = "ready"
    <3>1. lists[l] = <<Idle>>
      BY <2>1
    <3>2. {t \in Thread : loc[t] = l} = {Idle}
      BY <2>1, KernelAssumption DEF NoList
    <3>. QED BY <3>1, <3>2, ShortLists
  <2>2. CASE l # "ready"
    <3>1. lists[l] = <<>>
      BY <2>2
    <3>2. {t \in Thread : loc[t] = l} = {}
      BY <2>2, KernelLists
    <3>. QED BY <3>1, <3>2, ShortLists
  <2>. QED BY <2>1, <2>2
<1>4. lists["running"] = <<>> /\ \A l \in ListName : Len(lists[l]) <= 1
  BY KernelLists
<1>5. OneRuns /\ Sorted
  BY <1>4 DEF OneRuns, Sorted, Ordered
<1>6. \A t \in Thread : loc[t] \in {NoList, "ready"} /\ (loc[t] = "ready" <=> t = Idle)
  BY DEF NoList
<1>7. RunningNamed /\ IdleRunnable /\ StateAgrees
  BY <1>4, <1>6, KernelAssumption, KernelLists
     DEF RunningNamed, IdleRunnable, StateAgrees, Created
<1>8. Phase /\ CallPending /\ BlockedIsLeaving
  BY <1>6 DEF Phase, CallPending, BlockedIsLeaving, SwitchDue
<1>9. ScanSleeps
  BY DEF ScanSleeps, IsInjective, ToSet
<1>10. OwnersCreated /\ WaitersHaveOwner /\ PriorityRestored /\ Uniform
  BY <1>6, KernelLists, KernelAssumption
     DEF OwnersCreated, WaitersHaveOwner, WaitersOf, PriorityRestored, Uniform
<1>. QED BY <1>1, <1>3, <1>5, <1>7, <1>8, <1>9, <1>10 DEF IInv

----------------------------------------------------------------------------
(* The actions that leave lists and TCBs alone. *)

\* xrt_kernel_start arms the first switch.
LEMMA StartArmKeeps == IInv /\ StartArmFirstSwitch /\ UNCHANGED <<primitives, svc>> => IInv'
<1>. SUFFICES ASSUME IInv, StartArmFirstSwitch, UNCHANGED <<primitives, svc>>
              PROVE  IInv'
  OBVIOUS
<1>. USE DEF StartArmFirstSwitch, InMain, tick, placement, primitives
<1>1. TypeOK'
  BY DEF IInv, TypeOK, KernelTypeOK, SemaphoreTypeOK, MutexTypeOK
<1>2. (/\ Seated /\ OneRuns /\ RunningNamed /\ Sorted /\ StateAgrees
       /\ IdleRunnable /\ Uniform)'
  BY Quiet
<1>3. (OwnersCreated /\ WaitersHaveOwner /\ PriorityRestored)'
  BY QuietOwners
<1>4. Phase'
  BY DEF IInv, Phase, SwitchDue, Running
<1>5. CallPending' /\ BlockedIsLeaving' /\ ScanSleeps'
  BY DEF IInv, Phase, CallPending, BlockedIsLeaving, ScanSleeps, SwitchDue, Running, Seat
<1>. QED BY <1>1, <1>2, <1>3, <1>4, <1>5 DEF IInv

\* xrt_kernel_start declares the kernel started; ticks count from now on.
LEMMA StartGoKeeps == IInv /\ StartGo /\ UNCHANGED <<primitives, svc>> => IInv'
<1>. SUFFICES ASSUME IInv, StartGo, UNCHANGED <<primitives, svc>>
              PROVE  IInv'
  OBVIOUS
<1>. USE DEF StartGo, InMain, tick, placement, primitives
<1>1. TypeOK'
  BY DEF IInv, TypeOK, KernelTypeOK, SemaphoreTypeOK, MutexTypeOK
<1>2. (/\ Seated /\ OneRuns /\ RunningNamed /\ Sorted /\ StateAgrees
       /\ IdleRunnable /\ Uniform)'
  BY Quiet
<1>3. (OwnersCreated /\ WaitersHaveOwner /\ PriorityRestored)'
  BY QuietOwners
<1>4. Phase'
  BY DEF IInv, Phase, SwitchDue, Running
<1>5. CallPending' /\ BlockedIsLeaving' /\ ScanSleeps'
  BY DEF IInv, Phase, CallPending, BlockedIsLeaving, ScanSleeps, SwitchDue, Running, Seat
<1>. QED BY <1>1, <1>2, <1>3, <1>4, <1>5 DEF IInv

\* xrt_kernel_start requests the first switch, if no tick did before.
LEMMA StartRequestKeeps == IInv /\ StartRequestSwitch /\ UNCHANGED <<primitives, svc>> => IInv'
<1>. SUFFICES ASSUME IInv, StartRequestSwitch, UNCHANGED <<primitives, svc>>
              PROVE  IInv'
  OBVIOUS
<1>. USE DEF StartRequestSwitch, InMain, tick, placement, primitives
<1>1. TypeOK'
  BY DEF IInv, TypeOK, KernelTypeOK, SemaphoreTypeOK, MutexTypeOK
<1>2. (/\ Seated /\ OneRuns /\ RunningNamed /\ Sorted /\ StateAgrees
       /\ IdleRunnable /\ Uniform)'
  BY Quiet
<1>3. (OwnersCreated /\ WaitersHaveOwner /\ PriorityRestored)'
  BY QuietOwners
<1>4. Phase'
  BY DEF IInv, Phase, SwitchDue, Running
<1>5. CallPending' /\ BlockedIsLeaving' /\ ScanSleeps'
  BY DEF IInv, Phase, CallPending, BlockedIsLeaving, ScanSleeps, SwitchDue, Running, Seat
<1>. QED BY <1>1, <1>2, <1>3, <1>4, <1>5 DEF IInv

\* PendSV_Handler is entered; the switch stays due.
LEMMA PendSVEnterKeeps == IInv /\ (svc = NoCall /\ PendSVEnter) /\ UNCHANGED <<primitives, svc>> => IInv'
<1>. SUFFICES ASSUME IInv, (svc = NoCall /\ PendSVEnter), UNCHANGED <<primitives, svc>>
              PROVE  IInv'
  OBVIOUS
<1>. USE DEF PendSVEnter, bringUp, tick, placement, primitives
<1>1. TypeOK'
  BY DEF IInv, TypeOK, KernelTypeOK, SemaphoreTypeOK, MutexTypeOK
<1>2. (/\ Seated /\ OneRuns /\ RunningNamed /\ Sorted /\ StateAgrees
       /\ IdleRunnable /\ Uniform)'
  BY Quiet
<1>3. (OwnersCreated /\ WaitersHaveOwner /\ PriorityRestored)'
  BY QuietOwners
<1>4. Phase'
  BY DEF IInv, Phase, SwitchDue, Running
<1>5. CallPending' /\ BlockedIsLeaving' /\ ScanSleeps'
  BY DEF IInv, Phase, CallPending, BlockedIsLeaving, ScanSleeps, SwitchDue, Running, Seat
<1>. QED BY <1>1, <1>2, <1>3, <1>4, <1>5 DEF IInv

\* The first switch: the picked thread takes the CPU from main.
LEMMA PendSVFirstKeeps == IInv /\ PendSVFirst /\ UNCHANGED <<primitives, svc>> => IInv'
<1>. SUFFICES ASSUME IInv, PendSVFirst, UNCHANGED <<primitives, svc>>
              PROVE  IInv'
  OBVIOUS
<1>. USE DEF PendSVFirst, tick, placement, primitives
<1>0. boot # "create" /\ Running \in Thread /\ cpu = Main /\ svc = NoCall
  <2>1. boot # "create" /\ cpu = Main /\ svc = NoCall
    BY DEF IInv, Phase, SwitchDue, CallPending
  <2>. QED BY <2>1, RunningThread
<1>1. TypeOK'
  BY <1>0 DEF IInv, TypeOK, KernelTypeOK, SemaphoreTypeOK, MutexTypeOK
<1>2. (/\ Seated /\ OneRuns /\ RunningNamed /\ Sorted /\ StateAgrees
       /\ IdleRunnable /\ Uniform)'
  BY Quiet
<1>3. (OwnersCreated /\ WaitersHaveOwner /\ PriorityRestored)'
  BY QuietOwners
<1>4. Phase'
  BY <1>0, KernelAssumption DEF IInv, Phase, SwitchDue, Running
<1>5. CallPending' /\ BlockedIsLeaving' /\ ScanSleeps'
  <2>1. lists["running"] = <<Running>> /\ Running \in Thread
    BY <1>0, RunningThread
  <2>2. loc[Running] \in {"ready", "running"}
    BY <1>0, <2>1 DEF IInv, Phase, RunningNamed
  <2>3. state[Running] # "BLOCKED"
    BY <1>0, <2>1, <2>2, KernelLists DEF IInv, StateAgrees, Created
  <2>4. CallPending' /\ BlockedIsLeaving'
    BY <1>0, <2>3 DEF CallPending, BlockedIsLeaving, Running
  <2>5. ScanSleeps'
    BY DEF IInv, ScanSleeps, Seat
  <2>. QED BY <2>4, <2>5
<1>. QED BY <1>1, <1>2, <1>3, <1>4, <1>5 DEF IInv

\* The tick takes stock of the stopped list.
LEMMA TickBeginKeeps == IInv /\ TickBegin /\ UNCHANGED <<primitives, svc>> => IInv'
<1>. SUFFICES ASSUME IInv, TickBegin, UNCHANGED <<primitives, svc>>
              PROVE  IInv'
  OBVIOUS
<1>. USE DEF TickBegin, bringUp, placement, primitives
<1>1. TypeOK'
  BY KernelLists DEF IInv, TypeOK, KernelTypeOK, SemaphoreTypeOK, MutexTypeOK
<1>2. (/\ Seated /\ OneRuns /\ RunningNamed /\ Sorted /\ StateAgrees
       /\ IdleRunnable /\ Uniform)'
  BY Quiet
<1>3. (OwnersCreated /\ WaitersHaveOwner /\ PriorityRestored)'
  BY QuietOwners
<1>4. Phase'
  BY KernelLists DEF IInv, Phase, SwitchDue, Running
<1>5. CallPending' /\ BlockedIsLeaving'
  BY DEF IInv, CallPending, BlockedIsLeaving, SwitchDue, Running
<1>6. ScanSleeps'
  <2>1. /\ IsInjective(lists["stopped"])
        /\ \A t \in ToSet(lists["stopped"]) : Seat(t) = "stopped"
    BY KernelLists DEF IInv, Seated
  <2>2. \A t : Seat(t) = "stopped" => loc[t] = "stopped"
    BY KernelLists DEF Seat
  <2>3. \A t : Seat(t)' = Seat(t)
    BY DEF Seat
  <2>. QED BY <2>1, <2>2, <2>3 DEF ScanSleeps
<1>. QED BY <1>1, <1>2, <1>3, <1>4, <1>5, <1>6 DEF IInv

\* The tick requests a switch.
LEMMA TickEndKeeps == IInv /\ TickEnd /\ UNCHANGED <<primitives, svc>> => IInv'
<1>. SUFFICES ASSUME IInv, TickEnd, UNCHANGED <<primitives, svc>>
              PROVE  IInv'
  OBVIOUS
<1>. USE DEF TickEnd, bringUp, placement, primitives
<1>1. TypeOK'
  BY DEF IInv, TypeOK, KernelTypeOK, SemaphoreTypeOK, MutexTypeOK
<1>2. (/\ Seated /\ OneRuns /\ RunningNamed /\ Sorted /\ StateAgrees
       /\ IdleRunnable /\ Uniform)'
  BY Quiet
<1>3. (OwnersCreated /\ WaitersHaveOwner /\ PriorityRestored)'
  BY QuietOwners
<1>4. Phase'
  BY DEF IInv, Phase, SwitchDue, Running
<1>5. CallPending' /\ BlockedIsLeaving'
  BY DEF IInv, CallPending, BlockedIsLeaving, SwitchDue, Running
<1>6. ScanSleeps'
  BY ShortLists DEF ScanSleeps
<1>. QED BY <1>1, <1>2, <1>3, <1>4, <1>5, <1>6 DEF IInv

\* An SVC instruction leaves a call pending, the caller's.
LEMMA RaiseKeeps == ASSUME NEW c \in Calls PROVE IInv /\ Raise(c) => IInv'
<1>. SUFFICES ASSUME IInv, Raise(c)
              PROVE  IInv'
  OBVIOUS
<1>. USE DEF Raise, kernelVars, primitives
<1>0. boot # "create" /\ Running \in Thread \ {Idle} /\ cpu = Running /\ cpu # Main
  <2>1. boot # "create" /\ cpu = Running /\ cpu # Main
    BY KernelAssumption DEF IInv, Phase
  <2>. QED BY <2>1
<1>1. TypeOK'
  BY DEF IInv, TypeOK, KernelTypeOK, SemaphoreTypeOK, MutexTypeOK
<1>2. (/\ Seated /\ OneRuns /\ RunningNamed /\ Sorted /\ StateAgrees
       /\ IdleRunnable /\ Uniform)'
  BY Quiet DEF placement
<1>3. (OwnersCreated /\ WaitersHaveOwner /\ PriorityRestored)'
  BY QuietOwners
<1>4. Phase' /\ ScanSleeps'
  BY DEF IInv, Phase, SwitchDue, Running, ScanSleeps, Seat
<1>5. state[Running] = "RUNNING"
  <2>1. lists["running"] = <<Running>>
    BY <1>0, RunningThread
  <2>2. state[Running] # "BLOCKED"
    BY <1>0 DEF IInv, BlockedIsLeaving, SwitchDue
  <2>3. loc[Running] = "running"
    BY <1>0, <2>1, <2>2 DEF IInv, RunningNamed
  <2>. QED BY <1>0, <2>3 DEF IInv, StateAgrees, Created, NoList
<1>6. CallPending' /\ BlockedIsLeaving'
  BY <1>0, <1>5 DEF CallPending, BlockedIsLeaving, Running
<1>. QED BY <1>1, <1>2, <1>3, <1>4, <1>6 DEF IInv

----------------------------------------------------------------------------
(* Waking: thread w goes from its wait list p to the ready list. *)

\* What xrt_kernel_wake_thread does to placement, TCBs and order.
LEMMA WakeStep ==
    ASSUME IInv, boot # "create", boot' = boot,
           NEW w \in Thread, NEW p \in ListName, p \notin {"ready", "running"},
           loc[w] = p, w # Running,
           NEW pr \in [Thread -> Nat], SafeOrder(pr, Thread),
           AllOrdered(lists, pr, ListName, {"stopped"}),
           lists' = Push(Unlink(lists, p, w), "ready", w, pr),
           loc' = [loc EXCEPT ![w] = "ready"],
           state' = [state EXCEPT ![w] = "READY"],
           reason' = [reason EXCEPT ![w] = "NONE"],
           \A t \in Thread : t # w => wakeTick'[t] = wakeTick[t]
    PROVE  /\ lists' \in [ListName -> Seq(Thread)]
           /\ Running' = Running
           /\ AllOrdered(lists', pr, ListName, {"stopped"})
           /\ \A t \in Thread : Seat(t)' = IF t = w THEN "ready" ELSE Seat(t)
           /\ (Seated /\ OneRuns /\ RunningNamed /\ StateAgrees /\ IdleRunnable)'
<1>. USE KernelLists
<1>1. /\ Running \in Thread /\ lists["running"] = <<Running>>
      /\ Seat(w) = p
  BY RunningThread
<1>2. loc \in [Thread -> ListName \cup {NoList}] /\ state \in [Thread -> {"READY", "RUNNING", "BLOCKED"}]
      /\ reason \in [Thread -> {"NONE", "OS_DELAY", "BLOCK_MUTEX", "BLOCK_SEMAPHORE"}]
      /\ lists \in [ListName -> Seq(Thread)]
  BY DEF IInv, TypeOK, KernelTypeOK
<1>3. lists'["running"] = lists["running"]
  BY <1>2 DEF Push, Unlink
<1>4. \A t \in Thread : Seat(t)' = IF t = w THEN "ready" ELSE Seat(t)
  BY <1>1, <1>2, <1>3 DEF Seat
<1> DEFINE seat2 == [t \in Thread |-> IF t = w THEN "ready" ELSE Seat(t)]
<1>5. Placed(lists', seat2, ListName, Thread)
  <2>1. Placed(lists, SeatMap, ListName, Thread) /\ SeatMap[w] = p
    BY <1>1, IInvPlaced DEF SeatMap
  <2>2. \A u \in Thread : seat2[u] = IF u = w THEN "ready" ELSE SeatMap[u]
    BY DEF SeatMap
  <2>3. lists' = Push(Unlink(lists, SeatMap[w], w), "ready", w, pr)
    BY <2>1
  <2>4. SeatMap[w] \in ListName /\ "ready" \in ListName /\ NoList \notin ListName
    BY <2>1
  <2> HIDE DEF seat2
  <2>5. Placed(Push(Unlink(lists, SeatMap[w], w), "ready", w, pr), seat2, ListName, Thread)
    BY ONLY <2>1, <2>2, <2>4, MovePlaced, SafeOrder(pr, Thread), w \in Thread,
            pr \in [Thread -> Nat]
  <2>. QED BY <2>3, <2>5
<1>6. AllOrdered(lists', pr, ListName, {"stopped"})
  <2>1. Placed(lists, SeatMap, ListName, Thread) /\ SeatMap[w] = p
    BY <1>1, IInvPlaced DEF SeatMap
  <2>. QED BY <2>1, MoveKeepsOrder
<1>7. Seated' /\ lists' \in [ListName -> Seq(Thread)]
  BY <1>4, <1>5 DEF Seated, Placed
<1>8. OneRuns' /\ Running' = Running
  BY <1>3 DEF IInv, OneRuns, Running
<1>9. RunningNamed'
  BY <1>1, <1>2, <1>3 DEF IInv, RunningNamed
<1>10. StateAgrees'
  BY <1>2 DEF IInv, StateAgrees, Created
<1>11. IdleRunnable'
  BY <1>2, KernelAssumption DEF IInv, IdleRunnable
<1>. QED BY <1>4, <1>6, <1>7, <1>8, <1>9, <1>10, <1>11

\* The head of a wait list.
LEMMA HeadWaits ==
    ASSUME IInv, NEW p \in Semaphore \cup Mutex, lists[p] # <<>>
    PROVE  /\ Head(lists[p]) \in Thread
           /\ loc[Head(lists[p])] = p
           /\ boot # "create"
           /\ Head(lists[p]) # Running
           /\ Head(lists[p]) # Idle
           /\ cpu # Main
<1> DEFINE w == Head(lists[p])
<1>1. w \in Thread /\ Seat(w) = p
  <2>1. p \in ListName /\ lists[p] \in Seq(Thread)
    BY KernelLists DEF IInv, TypeOK, KernelTypeOK
  <2>2. w \in ToSet(lists[p]) /\ w \in Thread
    BY <2>1, HeadIsIn
  <2>. QED BY <2>1, <2>2 DEF IInv, Seated
<1>2. loc[w] = p
  BY <1>1, KernelLists DEF Seat
<1>3. w # Idle /\ cpu # Main
  BY <1>1, <1>2, KernelLists DEF IInv, IdleRunnable, Phase
<1>4. boot # "create"
  BY <1>3 DEF IInv, Phase
<1>5. w # Running
  BY <1>1, <1>4, RunningThread, KernelLists
<1>. QED BY <1>1, <1>2, <1>3, <1>4, <1>5

----------------------------------------------------------------------------
(* Releasing a semaphore, in the supervisor call or in an interrupt. *)

\* xrt_semaphore_signal_locked, whoever calls it and whatever it did to the counters
\* before.
LEMMA SignalKeeps ==
    ASSUME IInv, NEW s \in Semaphore, NEW v \in [Semaphore -> 0..UINT16_MAX],
           boot # "create", ~inTick, SignalLocked(s, v),
           UNCHANGED <<owner, prio, wakeTick, switching, cpu, bringUp, tick>>,
           svc' \in {svc, NoCall}
    PROVE  IInv'
<1>. USE DEF bringUp, tick
<1>1. CASE lists[s] = <<>>
  <2>1. UNCHANGED <<placement, pendSV>> /\ value' = [v EXCEPT ![s] = Incremented(s)]
    BY <1>1 DEF SignalLocked
  <2>2. Incremented(s) \in 0..UINT16_MAX
    <3>0. UINT16_MAX \in Nat
      BY Width
    <3>1. MaxValue[s] \in 1..UINT16_MAX
      BY SemaphoreAssumption
    <3>2. value[s] + 1 \in Nat
      BY <3>0 DEF IInv, TypeOK, SemaphoreTypeOK
    <3>3. \A k \in Nat, n \in Nat : k % (n + 1) \in 0..n
      OBVIOUS
    <3>4. (value[s] + 1) % (UINT16_MAX + 1) \in 0..UINT16_MAX
      BY <3>0, <3>2, <3>3
    <3>. QED BY <3>0, <3>1, <3>4 DEF Incremented
  <2>3. TypeOK'
    BY <2>1, <2>2
       DEF IInv, TypeOK, KernelTypeOK, SemaphoreTypeOK, MutexTypeOK, placement
  <2>4. (/\ Seated /\ OneRuns /\ RunningNamed /\ Sorted /\ StateAgrees
         /\ IdleRunnable /\ Uniform)'
    BY <2>1, Quiet
  <2>5. (OwnersCreated /\ WaitersHaveOwner /\ PriorityRestored)'
    BY <2>1, QuietOwners DEF placement
  <2>6. Phase' /\ CallPending' /\ BlockedIsLeaving' /\ ScanSleeps'
    BY <2>1 DEF IInv, Phase, CallPending, BlockedIsLeaving, ScanSleeps,
                SwitchDue, Running, Seat, placement
  <2>. QED BY <2>3, <2>4, <2>5, <2>6 DEF IInv
<1>2. CASE lists[s] # <<>>
  <2> DEFINE w == Head(lists[s])
  <2>1. w \in Thread /\ loc[w] = s /\ w # Running /\ w # Idle /\ cpu # Main
    BY <1>2, HeadWaits
  <2> HIDE DEF w
  <2>2. /\ lists' = Push(Unlink(lists, s, w), "ready", w, prio)
        /\ loc' = [loc EXCEPT ![w] = "ready"]
        /\ state' = [state EXCEPT ![w] = "READY"]
        /\ reason' = [reason EXCEPT ![w] = "NONE"]
        /\ pendSV' = (pendSV \/ prio[w] > prio[Running])
        /\ value' = v
    BY <1>2 DEF SignalLocked, WakeThread, w
  <2>3. /\ lists' \in [ListName -> Seq(Thread)]
        /\ Running' = Running
        /\ AllOrdered(lists', prio, ListName, {"stopped"})
        /\ \A t \in Thread : Seat(t)' = IF t = w THEN "ready" ELSE Seat(t)
        /\ (Seated /\ OneRuns /\ RunningNamed /\ StateAgrees /\ IdleRunnable)'
    BY <2>1, <2>2, IInvOrder, KernelLists, WakeStep
  <2>4. TypeOK'
    BY <2>1, <2>2, <2>3, KernelLists
       DEF IInv, TypeOK, KernelTypeOK, SemaphoreTypeOK, MutexTypeOK
  <2>5. Sorted' /\ Uniform'
    BY <2>3 DEF IInv, Sorted, AllOrdered, Uniform
  <2>6. OwnersCreated' /\ WaitersHaveOwner' /\ PriorityRestored'
    <3>1. \A t \in Thread : loc'[t] = IF t = w THEN "ready" ELSE loc[t]
      BY <2>2 DEF IInv, TypeOK, KernelTypeOK
    <3>2. \A m \in Mutex : m # "ready" /\ WaitersOf(m)' \subseteq WaitersOf(m)
      BY <3>1, KernelLists DEF WaitersOf
    <3>3. Created' = Created
      BY <2>1, <3>1, KernelLists DEF Created
    <3>4. OwnersCreated' /\ WaitersHaveOwner'
      BY <3>2, <3>3 DEF IInv, OwnersCreated, WaitersHaveOwner
    <3>5. PriorityRestored'
      BY DEF IInv, PriorityRestored
    <3>. QED BY <3>4, <3>5
  <2>7. Phase' /\ CallPending' /\ BlockedIsLeaving'
    BY <2>1, <2>2, <2>3, RunningThread
       DEF IInv, TypeOK, KernelTypeOK, Phase, CallPending, BlockedIsLeaving, SwitchDue
  <2>8. ScanSleeps'
    BY DEF IInv, ScanSleeps
  <2>. QED BY <2>3, <2>4, <2>5, <2>6, <2>7, <2>8 DEF IInv
<1>. QED BY <1>1, <1>2

\* xrt_semaphore_release_from_ISR at any moment interrupts are taken.
LEMMA IsrReleaseKeeps == ASSUME NEW s \in IsrSemaphore PROVE IInv /\ IsrRelease(s) => IInv'
<1>. SUFFICES ASSUME IInv, IsrRelease(s) PROVE IInv'
  OBVIOUS
<1>1. s \in Semaphore /\ value \in [Semaphore -> 0..UINT16_MAX]
  BY SystemAssumption DEF IInv, TypeOK, SemaphoreTypeOK
<1>. QED BY <1>1, SignalKeeps DEF IsrRelease

----------------------------------------------------------------------------
(* The tick's visit of one sleeping thread. *)

\* One thread of the stopped list is counted down, and woken at zero.
LEMMA TickVisitKeeps == IInv /\ TickVisit /\ UNCHANGED <<primitives, svc>> => IInv'
<1>. SUFFICES ASSUME IInv, TickVisit, UNCHANGED <<primitives, svc>>
              PROVE  IInv'
  OBVIOUS
<1> DEFINE t == Head(scan)
<1>1. /\ scan # <<>> /\ scan' = Tail(scan) /\ inTick
      /\ UNCHANGED <<prio, pendSV, switching, cpu, started, firstCS, boot, inTick>>
      /\ UNCHANGED <<value, owner, svc>>
  BY DEF TickVisit, bringUp, primitives
<1>2. /\ t \in Thread /\ t \in ToSet(scan)
      /\ Tail(scan) \in Seq(Thread)
      /\ IsInjective(Tail(scan))
      /\ ToSet(Tail(scan)) = ToSet(scan) \ {t}
  <2>1. scan \in Seq(Thread) /\ IsInjective(scan)
    BY DEF IInv, TypeOK, KernelTypeOK, ScanSleeps
  <2>. QED BY <1>1, <2>1, TailLoses, HeadIsIn DEF Loses
<1>3. loc[t] = "stopped" /\ Seat(t) = "stopped"
  BY <1>2 DEF IInv, ScanSleeps
<1>4. cpu # Main /\ boot # "create" /\ t # Idle
  BY <1>2, <1>3, KernelLists DEF IInv, Phase, IdleRunnable
<1>5. Running \in Thread /\ t # Running /\ Seat(Running) = "running"
  BY <1>3, <1>4, RunningThread
<1>6. reason[t] = "OS_DELAY" /\ wakeTick[t] > 0
  BY <1>2, <1>3, KernelLists DEF IInv, StateAgrees, Created
<1>7. CASE wakeTick[t] > 1
  <2>1. UNCHANGED placement /\ wakeTick' = [wakeTick EXCEPT ![t] = @ - 1]
    BY <1>1, <1>6, <1>7 DEF TickVisit, Sleeping
  <2> HIDE DEF t
  <2>2. TypeOK'
    BY SMTT(30), <1>1, <1>2, <1>7, <2>1
       DEF IInv, TypeOK, KernelTypeOK, SemaphoreTypeOK, MutexTypeOK, placement
  <2>3. (/\ Seated /\ OneRuns /\ RunningNamed /\ Sorted /\ IdleRunnable /\ Uniform)'
    BY <1>1, <2>1 DEF IInv, Seated, Seat, OneRuns, RunningNamed, Sorted, Ordered,
                      IdleRunnable, Uniform, placement
  <2>4. StateAgrees'
    BY SMTT(30), <1>1, <1>2, <1>7, <2>1
       DEF IInv, TypeOK, KernelTypeOK, StateAgrees, Created, placement
  <2>5. (OwnersCreated /\ WaitersHaveOwner /\ PriorityRestored)'
    BY <1>1, <2>1, QuietOwners DEF placement
  <2>6. Phase' /\ CallPending' /\ BlockedIsLeaving' /\ ScanSleeps'
    BY <1>1, <1>2, <2>1 DEF IInv, Phase, CallPending, BlockedIsLeaving, ScanSleeps,
                            SwitchDue, Running, Seat, placement
  <2>. QED BY <2>2, <2>3, <2>4, <2>5, <2>6 DEF IInv
<1>8. CASE wakeTick[t] = 1
  <2>1. /\ wakeTick' = [wakeTick EXCEPT ![t] = @ - 1]
        /\ reason' = [reason EXCEPT ![t] = "NONE"]
        /\ state' = [state EXCEPT ![t] = "READY"]
        /\ lists' = Push(Unlink(lists, "stopped", t), "ready", t, prio)
        /\ loc' = [loc EXCEPT ![t] = "ready"]
    BY <1>1, <1>3, <1>6, <1>8 DEF TickVisit, Sleeping, MoveThread
  <2> HIDE DEF t
  <2>2. wakeTick \in [Thread -> Nat]
    BY DEF IInv, TypeOK, KernelTypeOK
  <2>3. /\ lists' \in [ListName -> Seq(Thread)]
        /\ Running' = Running
        /\ AllOrdered(lists', prio, ListName, {"stopped"})
        /\ \A u \in Thread : Seat(u)' = IF u = t THEN "ready" ELSE Seat(u)
        /\ (Seated /\ OneRuns /\ RunningNamed /\ StateAgrees /\ IdleRunnable)'
    BY <1>1, <1>2, <1>3, <1>4, <1>5, <2>1, <2>2, IInvOrder, KernelLists, WakeStep
  <2>4. TypeOK'
    <3>1. wakeTick' \in [Thread -> Nat]
      BY <1>2, <1>8, <2>1, <2>2
    <3>2. /\ loc' \in [Thread -> ListName \cup {NoList}]
          /\ state' \in [Thread -> {"READY", "RUNNING", "BLOCKED"}]
          /\ reason' \in [Thread -> {"NONE", "OS_DELAY", "BLOCK_MUTEX", "BLOCK_SEMAPHORE"}]
      BY <1>2, <2>1, KernelLists DEF IInv, TypeOK, KernelTypeOK
    <3>3. scan' \in Seq(Thread)
      BY <1>1, <1>2
    <3>4. KernelTypeOK'
      BY <1>1, <2>3, <3>1, <3>2, <3>3 DEF IInv, TypeOK, KernelTypeOK
    <3>. QED BY <1>1, <3>4 DEF IInv, TypeOK, SemaphoreTypeOK, MutexTypeOK
  <2>5. Sorted' /\ Uniform'
    BY <1>1, <2>3 DEF IInv, Sorted, AllOrdered, Uniform
  <2>6. OwnersCreated' /\ WaitersHaveOwner' /\ PriorityRestored'
    <3>1. loc \in [Thread -> ListName \cup {NoList}] /\ owner' = owner /\ prio' = prio
      BY <1>1 DEF IInv, TypeOK, KernelTypeOK
    <3>2. \A u \in Thread : loc'[u] = IF u = t THEN "ready" ELSE loc[u]
      BY <2>1, <3>1
    <3>3. OwnersCreated' /\ PriorityRestored'
      BY <1>2, <3>1, <3>2, KernelLists DEF IInv, OwnersCreated, PriorityRestored, Created
    <3>4. WaitersHaveOwner'
      BY <1>2, <3>1, <3>2, KernelLists DEF IInv, WaitersHaveOwner, WaitersOf, Created
    <3>. QED BY <3>3, <3>4
  <2>7. Phase' /\ CallPending' /\ BlockedIsLeaving'
    BY <1>1, <1>2, <1>4, <1>5, <2>1, <2>3
       DEF IInv, TypeOK, KernelTypeOK, Phase, CallPending, BlockedIsLeaving, SwitchDue
  <2>8. ScanSleeps'
    <3>1. ToSet(scan) \subseteq Thread
      BY DEF IInv, TypeOK, KernelTypeOK, ToSet
    <3>2. loc \in [Thread -> ListName \cup {NoList}]
      BY DEF IInv, TypeOK, KernelTypeOK
    <3>. QED BY <1>1, <1>2, <2>1, <2>3, <3>1, <3>2 DEF IInv, ScanSleeps
  <2>. QED BY <2>3, <2>4, <2>5, <2>6, <2>7, <2>8 DEF IInv
<1>9. wakeTick[t] \in Nat
  BY <1>2 DEF IInv, TypeOK, KernelTypeOK
<1>. QED BY <1>6, <1>7, <1>8, <1>9

----------------------------------------------------------------------------
(* The supervisor call. *)

\* When a call is dispatched its caller is the running thread, not the idle one.
LEMMA CallerRuns ==
    ASSUME IInv, svc # NoCall
    PROVE  /\ Running \in Thread \ {Idle} /\ lists["running"] = <<Running>>
           /\ cpu = Running /\ cpu # Main
           /\ boot # "create" /\ started /\ ~switching
           /\ state[Running] = "RUNNING" /\ loc[Running] = "running"
<1>1. /\ boot # "create" /\ cpu = Running
      /\ Running # Idle /\ state[Running] = "RUNNING" /\ ~switching
  BY DEF IInv, CallPending
<1>2. Running \in Thread /\ lists["running"] = <<Running>>
  BY <1>1, RunningThread
<1>3. cpu # Main
  BY <1>1, <1>2, KernelAssumption
<1>4. started
  BY <1>3 DEF IInv, Phase
<1>5. loc[Running] = "running"
  BY <1>1, <1>2 DEF IInv, RunningNamed
<1>. QED BY <1>1, <1>2, <1>3, <1>4, <1>5

\* The call blocks the caller: its TCB names list p from now on.
LEMMA BlockKeeps ==
    ASSUME IInv, svc # NoCall, svc' = NoCall, ~inTick,
           NEW p \in ListName, p \notin {"ready", "running"},
           NEW why \in {"NONE", "OS_DELAY", "BLOCK_MUTEX", "BLOCK_SEMAPHORE"},
           p = "stopped" => why = "OS_DELAY" /\ wakeTick'[Running] > 0,
           p \in Semaphore => why = "BLOCK_SEMAPHORE",
           p \in Mutex => why = "BLOCK_MUTEX",
           BlockThread(Running, p, why),
           UNCHANGED <<switching, cpu, bringUp, tick>>,
           Placed(lists', SeatMap, ListName, Thread),
           lists'["running"] = lists["running"],
           AllOrdered(lists', prio', ListName, {"stopped"}),
           wakeTick' \in [Thread -> Nat],
           \A u \in Thread : u # Running => wakeTick'[u] = wakeTick[u],
           prio' \in [Thread -> Nat],
           (SemaphoreTypeOK /\ MutexTypeOK)',
           (OwnersCreated /\ WaitersHaveOwner /\ PriorityRestored /\ Uniform)'
    PROVE  IInv'
<1> DEFINE t == Running
<1>1. /\ t \in Thread /\ t # Idle /\ lists["running"] = <<t>> /\ cpu = t /\ cpu # Main
      /\ boot # "create" /\ started /\ loc[t] = "running"
  BY CallerRuns
<1>2. /\ state' = [state EXCEPT ![t] = "BLOCKED"]
      /\ reason' = [reason EXCEPT ![t] = why]
      /\ loc' = [loc EXCEPT ![t] = p]
      /\ pendSV' = TRUE
  BY DEF BlockThread
<1>3. Running' = t
  BY DEF Running
<1> HIDE DEF t
<1>4. /\ loc \in [Thread -> ListName \cup {NoList}]
      /\ state \in [Thread -> {"READY", "RUNNING", "BLOCKED"}]
      /\ reason \in [Thread -> {"NONE", "OS_DELAY", "BLOCK_MUTEX", "BLOCK_SEMAPHORE"}]
  BY DEF IInv, TypeOK, KernelTypeOK
<1>5. TypeOK'
  <2>1. /\ loc' \in [Thread -> ListName \cup {NoList}]
        /\ state' \in [Thread -> {"READY", "RUNNING", "BLOCKED"}]
        /\ reason' \in [Thread -> {"NONE", "OS_DELAY", "BLOCK_MUTEX", "BLOCK_SEMAPHORE"}]
    BY <1>1, <1>2, <1>4
  <2>2. lists' \in [ListName -> Seq(Thread)]
    BY DEF Placed
  <2>3. KernelTypeOK'
    BY <1>2, <2>1, <2>2 DEF IInv, TypeOK, KernelTypeOK, bringUp, tick
  <2>. QED BY <2>3 DEF TypeOK
<1>6. \A u \in Thread : Seat(u)' = Seat(u)
  BY <1>1, <1>2, <1>4 DEF Seat
<1>7. Seated'
  BY <1>6 DEF Seated, Placed, SeatMap
<1>8. OneRuns' /\ Sorted'
  BY <1>1 DEF OneRuns, Sorted, AllOrdered, bringUp
<1>9. RunningNamed'
  BY <1>1, <1>2, <1>4, KernelLists DEF IInv, RunningNamed
<1>10. IdleRunnable'
  BY <1>1, <1>2, <1>4, KernelAssumption DEF IInv, IdleRunnable
<1>11. StateAgrees'
  <2>. SUFFICES ASSUME NEW u \in Created'
                PROVE  StateAgrees!(u)'
    BY DEF StateAgrees
  <2>1. CASE u = t
    BY <1>1, <1>2, <1>4, <2>1, KernelLists DEF t
  <2>2. CASE u # t
    <3>1. u \in Created /\ loc'[u] = loc[u] /\ state'[u] = state[u] /\ reason'[u] = reason[u]
          /\ wakeTick'[u] = wakeTick[u] /\ boot' = boot
      BY <1>1, <1>2, <1>4, <2>2 DEF Created, t, bringUp
    <3>. QED BY <3>1 DEF IInv, StateAgrees
  <2>. QED BY <2>1, <2>2
<1>12. Phase'
  BY <1>1, <1>2, <1>3 DEF IInv, Phase, bringUp, tick
<1>13. CallPending' /\ BlockedIsLeaving'
  BY <1>2 DEF CallPending, BlockedIsLeaving, SwitchDue
<1>14. ScanSleeps'
  BY DEF IInv, ScanSleeps, tick
<1>. QED BY <1>5, <1>7, <1>8, <1>9, <1>10, <1>11, <1>12, <1>13, <1>14 DEF IInv

\* The calls that block without touching a list.
LEMMA BlockInPlace ==
    ASSUME IInv, svc # NoCall, UNCHANGED <<lists, prio>>
    PROVE  /\ Placed(lists', SeatMap, ListName, Thread)
           /\ AllOrdered(lists', prio', ListName, {"stopped"})
           /\ prio' \in [Thread -> Nat]
           /\ Uniform'
BY IInvPlaced, IInvOrder DEF IInv, Uniform, Placed, AllOrdered

\* The owners' part, when no owner or priority changes and the caller goes to
\* wait for something that is no mutex.
LEMMA BlockOwners ==
    ASSUME IInv, svc # NoCall, UNCHANGED <<owner, prio>>,
           NEW p \in ListName, p \notin Mutex, loc' = [loc EXCEPT ![Running] = p]
    PROVE  (MutexTypeOK /\ OwnersCreated /\ WaitersHaveOwner /\ PriorityRestored)'
<1>1. Running \in Thread /\ loc \in [Thread -> ListName \cup {NoList}]
  BY CallerRuns DEF IInv, TypeOK, KernelTypeOK
<1>2. \A u \in Thread : loc'[u] = IF u = Running THEN p ELSE loc[u]
  BY <1>1
<1>3. Created \subseteq Created'
  BY <1>2, KernelLists DEF Created
<1>4. MutexTypeOK' /\ OwnersCreated' /\ PriorityRestored'
  BY <1>3 DEF IInv, TypeOK, MutexTypeOK, OwnersCreated, PriorityRestored
<1>5. WaitersHaveOwner'
  BY <1>2, <1>3 DEF IInv, WaitersHaveOwner, WaitersOf
<1>. QED BY <1>4, <1>5

\* xrt_thread_delay_from_svc.
LEMMA DelayKeeps ==
    ASSUME IInv, svc # NoCall, svc' = NoCall, ~inTick, svc \in Calls, DelayCall(Running),
           UNCHANGED <<switching, cpu, bringUp, tick>>
    PROVE  IInv'
<1>1. UNCHANGED <<lists, value, owner, prio>>
      /\ wakeTick' = [wakeTick EXCEPT ![Running] = svc.arg]
      /\ BlockThread(Running, "stopped", "OS_DELAY")
  BY DEF DelayCall, primitives
<1>2. svc.arg \in Nat /\ svc.arg > 0
  BY SystemAssumption DEF DelayCall, Calls
<1>3. Running \in Thread /\ wakeTick \in [Thread -> Nat]
  BY CallerRuns DEF IInv, TypeOK, KernelTypeOK
<1>4. /\ wakeTick' \in [Thread -> Nat] /\ wakeTick'[Running] > 0
      /\ \A u \in Thread : u # Running => wakeTick'[u] = wakeTick[u]
  BY <1>1, <1>2, <1>3
<1>5. (SemaphoreTypeOK /\ MutexTypeOK /\ OwnersCreated /\ WaitersHaveOwner /\ PriorityRestored)'
  <2>1. loc' = [loc EXCEPT ![Running] = "stopped"]
    BY <1>1 DEF BlockThread
  <2>. QED BY <1>1, <2>1, BlockOwners, KernelLists DEF IInv, TypeOK, SemaphoreTypeOK
<1>. QED BY <1>1, <1>4, <1>5, BlockInPlace, BlockKeeps, KernelLists

\* The yield only requests a switch.
LEMMA YieldKeeps ==
    ASSUME IInv, svc # NoCall, svc' = NoCall, ~inTick, YieldCall,
           UNCHANGED <<switching, cpu, bringUp, tick>>
    PROVE  IInv'
<1>. USE DEF YieldCall, primitives, bringUp, tick
<1>1. TypeOK'
  BY DEF IInv, TypeOK, KernelTypeOK, SemaphoreTypeOK, MutexTypeOK, placement
<1>2. (/\ Seated /\ OneRuns /\ RunningNamed /\ Sorted /\ StateAgrees
       /\ IdleRunnable /\ Uniform)'
  BY Quiet
<1>3. (OwnersCreated /\ WaitersHaveOwner /\ PriorityRestored)'
  BY QuietOwners DEF placement
<1>4. Phase' /\ CallPending' /\ BlockedIsLeaving' /\ ScanSleeps'
  BY CallerRuns DEF IInv, Phase, CallPending, BlockedIsLeaving, ScanSleeps,
                    SwitchDue, Running, Seat, placement
<1>. QED BY <1>1, <1>2, <1>3, <1>4 DEF IInv

\* xrt_semaphore_take_from_svc takes a token or blocks.
LEMMA TakeKeeps ==
    ASSUME IInv, svc # NoCall, svc' = NoCall, ~inTick, svc \in Calls, TakeCall(Running),
           UNCHANGED <<switching, cpu, bringUp, tick>>
    PROVE  IInv'
<1> DEFINE s == svc.arg
<1>1. UNCHANGED <<owner, prio, wakeTick>> /\ TakeFromSvc(s, Running)
  BY DEF TakeCall
<1>2. s \in Semaphore
  BY DEF TakeCall, Calls
<1> HIDE DEF s
<1>3. CASE value[s] > 0
  <2>1. value' = [value EXCEPT ![s] = @ - 1] /\ UNCHANGED <<placement, pendSV>>
    BY <1>1, <1>3 DEF TakeFromSvc, Taken
  <2>2. SemaphoreTypeOK'
    <3>0. UINT16_MAX \in Nat
      BY Width
    <3>1. value[s] \in 0..UINT16_MAX
      BY <1>2 DEF IInv, TypeOK, SemaphoreTypeOK
    <3>2. value[s] - 1 \in 0..UINT16_MAX
      BY <1>3, <3>0, <3>1
    <3>. QED BY <1>2, <2>1, <3>2 DEF IInv, TypeOK, SemaphoreTypeOK
  <2>3. TypeOK'
    BY <1>1, <2>1, <2>2 DEF IInv, TypeOK, KernelTypeOK, MutexTypeOK, placement, bringUp, tick
  <2>4. (/\ Seated /\ OneRuns /\ RunningNamed /\ Sorted /\ StateAgrees
         /\ IdleRunnable /\ Uniform)'
    BY <1>1, <2>1, Quiet DEF bringUp
  <2>5. (OwnersCreated /\ WaitersHaveOwner /\ PriorityRestored)'
    BY <1>1, <2>1, QuietOwners DEF placement
  <2>6. Phase' /\ CallPending' /\ BlockedIsLeaving' /\ ScanSleeps'
    BY <2>1, CallerRuns DEF IInv, Phase, CallPending, BlockedIsLeaving, ScanSleeps,
                SwitchDue, Running, Seat, placement, bringUp, tick
  <2>. QED BY <2>3, <2>4, <2>5, <2>6 DEF IInv
<1>4. CASE value[s] = 0
  <2>1. BlockThread(Running, s, "BLOCK_SEMAPHORE") /\ UNCHANGED <<value, lists>>
    BY <1>1, <1>4 DEF TakeFromSvc
  <2>2. s \in ListName /\ s \notin {"ready", "running", "stopped"} /\ s \notin Mutex
    BY <1>2, KernelLists, KernelAssumption
  <2>3. loc' = [loc EXCEPT ![Running] = s]
    BY <2>1 DEF BlockThread
  <2>4. (SemaphoreTypeOK /\ MutexTypeOK /\ OwnersCreated /\ WaitersHaveOwner /\ PriorityRestored)'
    BY <1>1, <2>1, <2>2, <2>3, BlockOwners DEF IInv, TypeOK, SemaphoreTypeOK
  <2>5. wakeTick' \in [Thread -> Nat] /\ \A u \in Thread : u # Running => wakeTick'[u] = wakeTick[u]
    BY <1>1 DEF IInv, TypeOK, KernelTypeOK
  <2>. QED BY <1>1, <2>1, <2>2, <2>4, <2>5, BlockInPlace, BlockKeeps
<1>5. value[s] > 0 \/ value[s] = 0
  <2>1. value[s] \in 0..UINT16_MAX
    BY <1>2 DEF IInv, TypeOK, SemaphoreTypeOK
  <2>. QED BY <2>1
<1>. QED BY <1>3, <1>4, <1>5

\* xrt_semaphore_release_from_svc.
LEMMA ReleaseKeeps ==
    ASSUME IInv, svc # NoCall, svc' = NoCall, ~inTick, svc \in Calls, ReleaseCall,
           UNCHANGED <<switching, cpu, bringUp, tick>>
    PROVE  IInv'
<1>1. svc.arg \in Semaphore /\ value \in [Semaphore -> 0..UINT16_MAX]
  BY DEF ReleaseCall, Calls, IInv, TypeOK, SemaphoreTypeOK
<1>. QED BY <1>1, SignalKeeps, CallerRuns DEF ReleaseCall

\* The owner's boost moves it within its list at most.
LEMMA BoostKeepsPlaces ==
    ASSUME IInv, svc # NoCall, NEW o \in Created, o # Running, Boost(o, Running)
    PROVE  /\ Placed(lists', SeatMap, ListName, Thread)
           /\ lists'["running"] = lists["running"]
           /\ AllOrdered(lists', prio', ListName, {"stopped"})
           /\ prio' \in [Thread -> Nat] /\ Uniform'
           /\ \A u \in Thread : prio'[u] >= prio[u] /\ (u # o => prio'[u] = prio[u])
<1> DEFINE t == Running
           pr == [prio EXCEPT ![o] = prio[t]]
<1>1. t \in Thread /\ o \in Thread /\ loc[o] # NoList
  BY CallerRuns DEF Created
<1>2. /\ Placed(lists, SeatMap, ListName, Thread)
      /\ prio \in [Thread -> Nat] /\ SafeOrder(prio, Thread)
      /\ AllOrdered(lists, prio, ListName, {"stopped"})
  BY IInvPlaced, IInvOrder
<1>3. SeatMap[o] = loc[o] /\ loc[o] # "running" /\ loc[o] \in ListName
  <2>1. Seat(o) = loc[o] /\ loc[o] # "running"
    BY <1>1, CallerRuns, RunningThread
  <2>. QED BY <1>1, <2>1 DEF SeatMap, IInv, TypeOK, KernelTypeOK
<1>4. CASE prio[t] <= prio[o]
  <2>1. prio' = prio /\ lists' = lists
    BY <1>1, <1>2, <1>4 DEF Boost
  <2>2. \A u \in Thread : prio[u] \in Nat
    BY <1>2
  <2>. QED BY <1>2, <2>1, <2>2 DEF IInv, Uniform, Placed, AllOrdered
<1>5. CASE prio[t] > prio[o]
  <2>1. /\ prio' = pr
        /\ lists' = IF loc[o] = "stopped" THEN lists
                    ELSE Push(Unlink(lists, SeatMap[o], o), SeatMap[o], o, pr)
    BY <1>1, <1>2, <1>3, <1>5 DEF Boost, ReorderThread, MoveThread
  <2>2. pr \in [Thread -> Nat] /\ pr[o] = prio[t] /\ \A u \in Thread : u # o => pr[u] = prio[u]
    BY <1>1, <1>2
  <2>3. AnchorIsNode
    <3>1. prio[t] # prio[o]
      BY <1>1, <1>2, <1>5
    <3>. QED BY <1>1, <1>2, <3>1 DEF SafeOrder
  <2>4. SafeOrder(pr, Thread) /\ Uniform'
    BY <2>3 DEF SafeOrder, Uniform
  <2> HIDE DEF pr
  <2>5. \A u \in Thread : prio'[u] >= prio[u] /\ (u # o => prio'[u] = prio[u])
    <3>. SUFFICES ASSUME NEW u \in Thread
                  PROVE  pr[u] >= prio[u] /\ (u # o => pr[u] = prio[u])
      BY <2>1
    <3>1. prio[u] \in Nat /\ prio[t] \in Nat /\ prio[o] \in Nat
      BY <1>1, <1>2
    <3>. QED BY <1>5, <2>2, <3>1
  <2>6. CASE loc[o] = "stopped"
    <3>1. lists' = lists
      BY <2>1, <2>6
    <3>2. ASSUME NEW l \in ListName, l # "stopped" PROVE Ordered(lists[l], pr)
      <4>1. lists[l] \in Seq(Thread) /\ Ordered(lists[l], prio)
            /\ ToSet(lists[l]) = {u \in Thread : SeatMap[u] = l}
        BY <1>2, <3>2 DEF Placed, AllOrdered
      <4>2. \A u \in ToSet(lists[l]) : pr[u] = prio[u]
        BY <1>3, <2>2, <2>6, <3>2, <4>1
      <4>. QED BY <4>1, <4>2, OrderedElsewhere
    <3>. QED BY <1>2, <2>1, <2>2, <2>4, <2>5, <3>1, <3>2 DEF AllOrdered
  <2>7. CASE loc[o] # "stopped"
    <3> DEFINE ls == Push(Unlink(lists, SeatMap[o], o), SeatMap[o], o, pr)
    <3>1. lists' = ls
      BY <2>1, <2>7
    <3>2. Placed(ls, SeatMap, ListName, Thread)
      <4>1. \A u \in Thread : SeatMap[u] = IF u = o THEN SeatMap[o] ELSE SeatMap[u]
        OBVIOUS
      <4>2. SeatMap[o] \in ListName /\ NoList \notin ListName
        BY <1>3, KernelLists
      <4>. QED BY ONLY <1>1, <1>2, <2>2, <2>4, <4>1, <4>2, MovePlaced
    <3>3. AllOrdered(ls, pr, ListName, {"stopped"})
      <4>1. SeatMap[o] \in ListName /\ NoList \notin ListName
        BY <1>3, KernelLists
      <4>. QED BY ONLY <1>1, <1>2, <2>2, <2>4, <4>1, MoveKeepsOrder
    <3>4. ls["running"] = lists["running"]
      BY <1>2, <1>3, KernelLists DEF Push, Unlink, Placed
    <3> HIDE DEF ls
    <3>. QED BY <2>1, <2>2, <2>4, <2>5, <3>1, <3>2, <3>3, <3>4
  <2>. QED BY <2>6, <2>7
<1>6. prio[t] > prio[o] \/ prio[t] <= prio[o]
  <2>1. prio[t] \in Nat /\ prio[o] \in Nat
    BY <1>1, <1>2
  <2>. QED BY <2>1
<1>. QED BY <1>4, <1>5, <1>6

\* xrt_mutex_lock_from_svc: a no-op, an acquisition, or a boost and a block.
LEMMA LockKeeps ==
    ASSUME IInv, svc # NoCall, svc' = NoCall, ~inTick, svc \in Calls, LockCall(Running),
           UNCHANGED <<switching, cpu, bringUp, tick>>
    PROVE  IInv'
<1> DEFINE m == svc.arg
           t == Running
<1>1. UNCHANGED <<value, wakeTick>> /\ MutexLockFromSvc(m, t)
  BY DEF LockCall
<1>2. m \in Mutex /\ t \in Thread /\ loc[t] = "running"
  BY CallerRuns DEF LockCall, Calls
<1>3. owner \in [Mutex -> Thread \cup {Null}] /\ Null \notin Thread
  BY MutexAssumption DEF IInv, TypeOK, MutexTypeOK
<1>4. ASSUME UNCHANGED <<placement, prio, pendSV>>,
             (MutexTypeOK /\ OwnersCreated /\ WaitersHaveOwner /\ PriorityRestored)'
      PROVE  IInv'
  <2>1. TypeOK'
    BY <1>1, <1>4 DEF IInv, TypeOK, KernelTypeOK, SemaphoreTypeOK, placement, bringUp, tick
  <2>2. (/\ Seated /\ OneRuns /\ RunningNamed /\ Sorted /\ StateAgrees
         /\ IdleRunnable /\ Uniform)'
    BY <1>1, <1>4, Quiet DEF bringUp
  <2>3. Phase' /\ CallPending' /\ BlockedIsLeaving' /\ ScanSleeps'
    BY <1>4, CallerRuns DEF IInv, Phase, CallPending, BlockedIsLeaving, ScanSleeps,
                SwitchDue, Running, Seat, placement, bringUp, tick
  <2>. QED BY <1>4, <2>1, <2>2, <2>3 DEF IInv
<1>5. CASE owner[m] = t
  <2>1. UNCHANGED <<placement, prio, pendSV, owner>>
    BY <1>1, <1>2, <1>3, <1>5 DEF MutexLockFromSvc
  <2>2. (OwnersCreated /\ WaitersHaveOwner /\ PriorityRestored)'
    BY <2>1, QuietOwners DEF placement
  <2>. QED BY <1>4, <2>1, <2>2 DEF IInv, TypeOK, MutexTypeOK
<1> HIDE DEF m, t
<1>6. CASE owner[m] = Null
  <2>1. UNCHANGED <<placement, prio, pendSV>> /\ owner' = [owner EXCEPT ![m] = t]
    BY <1>1, <1>2, <1>3, <1>6 DEF MutexLockFromSvc
  <2>2. loc' = loc /\ Created' = Created /\ t \in Created
    BY <1>2, <2>1, KernelLists DEF placement, Created, NoList
  <2>3. MutexTypeOK'
    BY <1>2, <1>3, <2>1 DEF MutexTypeOK
  <2>4. OwnersCreated'
    BY <1>2, <1>3, <2>1, <2>2 DEF IInv, OwnersCreated
  <2>5. WaitersHaveOwner'
    <3>1. WaitersOf(m) = {}
      BY <1>2, <1>3, <1>6 DEF IInv, WaitersHaveOwner, WaitersOf, Created
    <3>. QED BY <1>3, <2>1, <2>2, <3>1 DEF IInv, WaitersHaveOwner, WaitersOf
  <2>6. PriorityRestored'
    BY <1>2, <1>3, <1>6, <2>1 DEF IInv, PriorityRestored
  <2>. QED BY <1>4, <2>1, <2>3, <2>4, <2>5, <2>6
<1>7. CASE owner[m] \notin {t, Null}
  <2> DEFINE o == owner[m]
  <2>1. Boost(o, t) /\ BlockThread(t, m, "BLOCK_MUTEX") /\ owner' = owner
    BY <1>1, <1>7 DEF MutexLockFromSvc
  <2>2. o \in Created /\ o # t
    BY <1>2, <1>7 DEF IInv, OwnersCreated
  <2> HIDE DEF o
  <2>3. /\ Placed(lists', SeatMap, ListName, Thread)
        /\ lists'["running"] = lists["running"]
        /\ AllOrdered(lists', prio', ListName, {"stopped"})
        /\ prio' \in [Thread -> Nat] /\ Uniform'
        /\ \A u \in Thread : prio'[u] >= prio[u] /\ (u # o => prio'[u] = prio[u])
    BY <2>1, <2>2, BoostKeepsPlaces DEF t
  <2>4. loc \in [Thread -> ListName \cup {NoList}] /\ loc' = [loc EXCEPT ![t] = m]
    BY <2>1 DEF BlockThread, IInv, TypeOK, KernelTypeOK
  <2>5. Created \subseteq Created'
    BY <1>2, <2>4, KernelLists DEF Created
  <2>6. OwnersCreated' /\ MutexTypeOK' /\ SemaphoreTypeOK'
    BY <1>1, <2>1, <2>5 DEF IInv, TypeOK, MutexTypeOK, SemaphoreTypeOK, OwnersCreated
  <2>7. WaitersHaveOwner'
    BY <2>1, <2>2, <2>4, <2>5 DEF IInv, WaitersHaveOwner, WaitersOf, o
  <2>8. PriorityRestored'
    <3>1. ASSUME NEW u \in Thread PROVE prio'[u] >= BasePriority[u]
      <4>1. prio[u] \in Nat /\ prio'[u] \in Nat /\ BasePriority[u] \in Nat
        BY <2>3, KernelAssumption DEF IInv, TypeOK, KernelTypeOK
      <4>2. prio[u] >= BasePriority[u] /\ prio'[u] >= prio[u]
        BY <2>3 DEF IInv, PriorityRestored
      <4>. QED BY <4>1, <4>2
    <3>2. ASSUME NEW u \in Thread, prio'[u] > BasePriority[u]
          PROVE  \E k \in Mutex : owner'[k] = u
      <4>1. CASE u = o
        BY <1>2, <2>1, <4>1 DEF o
      <4>2. CASE u # o
        BY <2>1, <2>3, <3>2, <4>2 DEF IInv, PriorityRestored
      <4>. QED BY <4>1, <4>2
    <3>. QED BY <3>1, <3>2 DEF PriorityRestored
  <2>9. m \in ListName /\ m \notin {"ready", "running", "stopped"} /\ m \notin Semaphore
    BY <1>2, KernelLists, KernelAssumption
  <2>10. wakeTick' \in [Thread -> Nat] /\ \A u \in Thread : u # t => wakeTick'[u] = wakeTick[u]
    BY <1>1 DEF IInv, TypeOK, KernelTypeOK
  <2>. QED BY <2>1, <2>3, <2>6, <2>7, <2>8, <2>9, <2>10, BlockKeeps DEF t
<1>. QED BY <1>5, <1>6, <1>7 DEF m, t

\* Giving the owner its base priority back disturbs no list: it is alone in
\* the running list.
LEMMA RestoreKeepsOrder ==
    ASSUME IInv, svc # NoCall
    PROVE  LET pr == RestoredPriority(Running)
           IN  /\ pr \in [Thread -> Nat] /\ SafeOrder(pr, Thread)
               /\ pr[Running] = BasePriority[Running]
               /\ \A u \in Thread : u # Running => pr[u] = prio[u]
               /\ AnchorIsNode \/ pr = BasePriority
               /\ AllOrdered(lists, pr, ListName, {"stopped"})
<1> DEFINE t == Running
           pr == RestoredPriority(t)
<1>1. t \in Thread /\ Seat(t) = "running" /\ lists["running"] = <<t>>
  BY CallerRuns, RunningThread
<1>2. /\ Placed(lists, SeatMap, ListName, Thread)
      /\ prio \in [Thread -> Nat] /\ BasePriority \in [Thread -> Nat]
      /\ AllOrdered(lists, prio, ListName, {"stopped"})
  BY IInvPlaced, IInvOrder, KernelAssumption
<1>3. prio[t] >= BasePriority[t]
  BY <1>1 DEF IInv, PriorityRestored
<1> HIDE DEF t
<1>4. /\ pr[t] = BasePriority[t]
      /\ \A u \in Thread : u # t => pr[u] = prio[u]
      /\ pr = [prio EXCEPT ![t] = BasePriority[t]]
  <2>1. prio[t] \in Nat /\ BasePriority[t] \in Nat
    BY <1>1, <1>2
  <2>2. (IF prio[t] > BasePriority[t] THEN BasePriority[t] ELSE prio[t]) = BasePriority[t]
    BY <1>3, <2>1
  <2>. QED BY <1>1, <1>2, <2>2 DEF RestoredPriority
<1> HIDE DEF pr
<1>5. pr \in [Thread -> Nat]
  BY <1>1, <1>2, <1>4
<1>6. AnchorIsNode \/ pr = BasePriority
  <2>1. CASE prio = BasePriority
    BY <1>1, <1>2, <1>4, <2>1
  <2>. QED BY <2>1 DEF IInv, Uniform
<1>7. SafeOrder(pr, Thread)
  BY <1>6, InsertionAssumption DEF SafeOrder
<1>8. ASSUME NEW l \in ListName, l # "stopped" PROVE Ordered(lists[l], pr)
  <2>1. CASE l = "running"
    BY <1>1, <2>1 DEF Ordered
  <2>2. CASE l # "running"
    <3>1. lists[l] \in Seq(Thread) /\ Ordered(lists[l], prio)
          /\ ToSet(lists[l]) = {u \in Thread : SeatMap[u] = l}
      BY <1>2, <1>8 DEF Placed, AllOrdered
    <3>2. \A u \in ToSet(lists[l]) : pr[u] = prio[u]
      BY <1>1, <1>4, <2>2, <3>1 DEF SeatMap
    <3>. QED BY <3>1, <3>2, OrderedElsewhere
  <2>. QED BY <2>1, <2>2
<1>. QED BY <1>4, <1>5, <1>6, <1>7, <1>8 DEF AllOrdered, pr, t

\* xrt_mutex_unlock_from_svc: a no-op, a release, or a hand-over.
LEMMA UnlockKeeps ==
    ASSUME IInv, svc # NoCall, svc' = NoCall, ~inTick, svc \in Calls, UnlockCall(Running),
           UNCHANGED <<switching, cpu, bringUp, tick>>
    PROVE  IInv'
<1> DEFINE m == svc.arg
           t == Running
<1>1. UNCHANGED <<value, wakeTick>> /\ MutexUnlockFromSvc(m, t)
  BY DEF UnlockCall
<1>2. m \in Mutex /\ t \in Thread /\ loc[t] = "running" /\ t # Idle
      /\ lists["running"] = <<t>> /\ boot # "create" /\ cpu = t /\ cpu # Main /\ started
      /\ state[t] = "RUNNING"
  BY CallerRuns DEF UnlockCall, Calls
<1>3. /\ owner \in [Mutex -> Thread \cup {Null}] /\ Null \notin Thread
      /\ loc \in [Thread -> ListName \cup {NoList}]
  BY MutexAssumption DEF IInv, TypeOK, MutexTypeOK, KernelTypeOK
<1>4. CASE owner[m] # t
  <2>1. UNCHANGED <<placement, prio, pendSV, owner>>
    BY <1>1, <1>4 DEF MutexUnlockFromSvc
  <2>2. TypeOK'
    BY <1>1, <2>1 DEF IInv, TypeOK, KernelTypeOK, SemaphoreTypeOK, MutexTypeOK,
                      placement, bringUp, tick
  <2>3. (/\ Seated /\ OneRuns /\ RunningNamed /\ Sorted /\ StateAgrees
         /\ IdleRunnable /\ Uniform)'
    BY <1>1, <2>1, Quiet DEF bringUp
  <2>4. (OwnersCreated /\ WaitersHaveOwner /\ PriorityRestored)'
    BY <2>1, QuietOwners DEF placement
  <2>5. Phase' /\ CallPending' /\ BlockedIsLeaving' /\ ScanSleeps'
    BY <2>1, CallerRuns DEF IInv, Phase, CallPending, BlockedIsLeaving, ScanSleeps,
                SwitchDue, Running, Seat, placement, bringUp, tick
  <2>. QED BY <2>2, <2>3, <2>4, <2>5 DEF IInv
<1>5. CASE owner[m] = t
  <2>1. prio' = RestoredPriority(t)
    BY <1>1, <1>5 DEF MutexUnlockFromSvc
  <2>2. /\ prio' \in [Thread -> Nat] /\ SafeOrder(prio', Thread)
        /\ prio'[t] = BasePriority[t]
        /\ \A u \in Thread : u # t => prio'[u] = prio[u]
        /\ Uniform'
        /\ AllOrdered(lists, prio', ListName, {"stopped"})
    BY <2>1, RestoreKeepsOrder DEF Uniform
  <2>3. ASSUME \A k \in Mutex \ {m} : owner'[k] = owner[k]
        PROVE  PriorityRestored'
    <3>1. ASSUME NEW u \in Thread PROVE prio'[u] >= BasePriority[u]
      <4>1. CASE u = t
        <5>1. BasePriority[u] \in Nat
          BY KernelAssumption
        <5>. QED BY <2>2, <4>1, <5>1
      <4>2. CASE u # t
        BY <2>2, <4>2 DEF IInv, PriorityRestored
      <4>. QED BY <4>1, <4>2
    <3>2. ASSUME NEW u \in Thread, prio'[u] > BasePriority[u]
          PROVE  \E k \in Mutex : owner'[k] = u
      <4>1. u # t
        <5>1. BasePriority[t] \in Nat
          BY <1>2, KernelAssumption
        <5>. QED BY <2>2, <3>2, <5>1
      <4>2. PICK k \in Mutex : owner[k] = u
        BY <2>2, <3>2, <4>1 DEF IInv, PriorityRestored
      <4>. QED BY <1>5, <2>3, <4>1, <4>2
    <3>. QED BY <3>1, <3>2 DEF PriorityRestored
  <2>4. CASE lists[m] # <<>>
    <3> DEFINE w == Head(lists[m])
    <3>1. w \in Thread /\ loc[w] = m /\ w # t /\ w # Idle
      BY <1>2, <2>4, HeadWaits
    <3>2. WakeThread(Unlink(lists, m, w), w, prio') /\ owner' = [owner EXCEPT ![m] = w]
      BY <1>1, <1>5, <2>4 DEF MutexUnlockFromSvc, HandOver
    <3> HIDE DEF w, m, t
    <3>3. /\ lists' = Push(Unlink(lists, m, w), "ready", w, prio')
          /\ loc' = [loc EXCEPT ![w] = "ready"]
          /\ state' = [state EXCEPT ![w] = "READY"]
          /\ reason' = [reason EXCEPT ![w] = "NONE"]
      BY <3>2 DEF WakeThread
    <3>4. m \in ListName /\ m \notin {"ready", "running", "stopped"}
      BY <1>2, KernelLists
    <3>5. /\ lists' \in [ListName -> Seq(Thread)]
          /\ Running' = Running
          /\ AllOrdered(lists', prio', ListName, {"stopped"})
          /\ \A u \in Thread : Seat(u)' = IF u = w THEN "ready" ELSE Seat(u)
          /\ (Seated /\ OneRuns /\ RunningNamed /\ StateAgrees /\ IdleRunnable)'
      <4>1. boot' = boot /\ w # Running /\ wakeTick' = wakeTick
        BY <1>1, <3>1 DEF bringUp, t
      <4>. QED BY <1>2, <2>2, <3>1, <3>3, <3>4, <4>1, WakeStep
    <3>6. TypeOK'
      <4>1. /\ loc' \in [Thread -> ListName \cup {NoList}]
            /\ state' \in [Thread -> {"READY", "RUNNING", "BLOCKED"}]
            /\ reason' \in [Thread -> {"NONE", "OS_DELAY", "BLOCK_MUTEX", "BLOCK_SEMAPHORE"}]
        BY <3>1, <3>3, KernelLists DEF IInv, TypeOK, KernelTypeOK
      <4>2. pendSV' \in BOOLEAN
        BY <3>2 DEF WakeThread, IInv, TypeOK, KernelTypeOK
      <4>3. KernelTypeOK'
        BY <1>1, <2>2, <3>5, <4>1, <4>2 DEF IInv, TypeOK, KernelTypeOK, bringUp, tick
      <4>4. MutexTypeOK'
        BY <1>2, <1>3, <3>1, <3>2 DEF MutexTypeOK
      <4>. QED BY <1>1, <4>3, <4>4 DEF IInv, TypeOK, SemaphoreTypeOK
    <3>7. Sorted'
      BY <3>5 DEF Sorted, AllOrdered
    <3>8. \A u \in Thread : loc'[u] = IF u = w THEN "ready" ELSE loc[u]
      BY <1>3, <3>3
    <3>9. Created' = Created /\ w \in Created
      BY <3>1, <3>4, <3>8, KernelLists DEF Created
    <3>10. OwnersCreated'
      BY <1>2, <1>3, <3>2, <3>9 DEF IInv, OwnersCreated
    <3>11. WaitersHaveOwner'
      BY <1>2, <1>3, <3>1, <3>2, <3>4, <3>8, <3>9, KernelLists
         DEF IInv, WaitersHaveOwner, WaitersOf
    <3>12. PriorityRestored'
      BY <1>3, <2>3, <3>2
    <3>13. Phase'
      BY <1>2, <3>5, <3>8, KernelLists DEF IInv, Phase, bringUp, tick, t
    <3>14. CallPending' /\ BlockedIsLeaving'
      <4>1. state'[t] = state[t] /\ Running' = t
        BY <1>2, <3>1, <3>3, <3>5 DEF IInv, TypeOK, KernelTypeOK, t
      <4>. QED BY <1>2, <4>1 DEF CallPending, BlockedIsLeaving
    <3>15. ScanSleeps'
      BY DEF IInv, ScanSleeps, tick
    <3>. QED BY <2>2, <3>5, <3>6, <3>7, <3>10, <3>11, <3>12, <3>13, <3>14, <3>15 DEF IInv
  <2>5. CASE lists[m] = <<>>
    <3>1. owner' = [owner EXCEPT ![m] = Null] /\ UNCHANGED <<placement, pendSV>>
      BY <1>1, <1>5, <2>5 DEF MutexUnlockFromSvc
    <3> HIDE DEF m, t
    <3>2. loc' = loc /\ lists' = lists /\ state' = state /\ reason' = reason
      BY <3>1 DEF placement
    <3>3. TypeOK'
      <4>1. MutexTypeOK'
        BY <1>2, <1>3, <3>1 DEF MutexTypeOK
      <4>2. KernelTypeOK'
        BY <1>1, <2>2, <3>1, <3>2 DEF IInv, TypeOK, KernelTypeOK, bringUp, tick
      <4>. QED BY <1>1, <4>1, <4>2 DEF IInv, TypeOK, SemaphoreTypeOK
    <3>4. Seated' /\ OneRuns' /\ RunningNamed' /\ IdleRunnable' /\ StateAgrees'
      BY <1>1, <3>2 DEF IInv, Seated, Seat, OneRuns, RunningNamed, IdleRunnable,
                        StateAgrees, Created, bringUp
    <3>5. Sorted'
      BY <2>2, <3>2 DEF Sorted, AllOrdered
    <3>6. WaitersOf(m) = {}
      <4>1. ToSet(lists[m]) = {u \in Thread : Seat(u) = m} /\ ToSet(lists[m]) = {}
        BY <1>2, <2>5, KernelLists, ShortLists DEF IInv, Seated
      <4>2. ASSUME NEW u \in Thread, loc[u] = m PROVE FALSE
        <5>1. u # t
          BY <1>2, <4>2, KernelLists
        <5>2. Seat(u) = m
          BY <1>2, <4>2, <5>1, RunningThread DEF t
        <5>. QED BY <4>1, <5>2
      <4>. QED BY <4>2 DEF WaitersOf
    <3>7. OwnersCreated' /\ WaitersHaveOwner'
      BY <1>2, <1>3, <3>1, <3>2, <3>6
         DEF IInv, OwnersCreated, WaitersHaveOwner, WaitersOf, Created
    <3>8. PriorityRestored'
      BY <1>3, <2>3, <3>1
    <3>9. Phase' /\ CallPending' /\ BlockedIsLeaving' /\ ScanSleeps'
      BY <1>2, <3>1, <3>2 DEF IInv, Phase, CallPending, BlockedIsLeaving, ScanSleeps,
                  SwitchDue, Running, Seat, bringUp, tick
    <3>. QED BY <2>2, <3>3, <3>4, <3>5, <3>7, <3>8, <3>9 DEF IInv
  <2>. QED BY <2>4, <2>5
<1>. QED BY <1>4, <1>5

----------------------------------------------------------------------------
(* Bring-up: a thread comes in, the first thread is picked. *)

\* Before xrt_kernel_start nobody runs, calls or ticks.
LEMMA BeforeStart ==
    ASSUME IInv, boot = "create"
    PROVE  /\ lists["running"] = <<>>
           /\ \A t \in Thread : Seat(t) = loc[t] /\ loc[t] # "running"
           /\ cpu = Main /\ ~SwitchDue /\ ~inTick /\ ~started /\ ~firstCS /\ svc = NoCall
           /\ prio = BasePriority
<1>1. lists["running"] = <<>>
  BY KernelLists DEF IInv, TypeOK, KernelTypeOK, OneRuns
<1>2. \A t : lists["running"] # <<t>>
  BY <1>1
<1>3. \A t \in Thread : Seat(t) = loc[t] /\ loc[t] # "running"
  BY <1>2 DEF Seat, IInv, RunningNamed
<1>. QED BY <1>1, <1>3 DEF IInv, Phase, CallPending

\* xrt_thread_create links a new thread into the ready list.
LEMMA CreateKeeps ==
    ASSUME NEW t \in Thread
    PROVE  IInv /\ ThreadCreate(t) /\ UNCHANGED <<primitives, svc>> => IInv'
<1>. SUFFICES ASSUME IInv, ThreadCreate(t), UNCHANGED <<primitives, svc>>
              PROVE  IInv'
  OBVIOUS
<1>1. /\ boot = "create" /\ loc[t] = NoList
      /\ lists' = Push(lists, "ready", t, BasePriority)
      /\ loc' = [loc EXCEPT ![t] = "ready"]
      /\ state' = [state EXCEPT ![t] = "READY"]
      /\ reason' = [reason EXCEPT ![t] = "NONE"]
      /\ prio' = [prio EXCEPT ![t] = BasePriority[t]]
      /\ wakeTick' = [wakeTick EXCEPT ![t] = 0]
      /\ UNCHANGED <<pendSV, switching, cpu, started, firstCS, boot, inTick, scan>>
      /\ UNCHANGED <<value, owner, svc>>
  BY DEF ThreadCreate, bringUp, tick, primitives
<1>2. /\ lists["running"] = <<>>
      /\ \A u \in Thread : Seat(u) = loc[u] /\ loc[u] # "running"
      /\ cpu = Main /\ ~SwitchDue /\ ~inTick /\ ~started /\ ~firstCS /\ svc = NoCall
      /\ prio = BasePriority
  BY <1>1, BeforeStart
<1>3. /\ loc \in [Thread -> ListName \cup {NoList}]
      /\ state \in [Thread -> {"READY", "RUNNING", "BLOCKED"}]
      /\ reason \in [Thread -> {"NONE", "OS_DELAY", "BLOCK_MUTEX", "BLOCK_SEMAPHORE"}]
      /\ wakeTick \in [Thread -> Nat] /\ prio \in [Thread -> Nat]
      /\ lists \in [ListName -> Seq(Thread)]
  BY DEF IInv, TypeOK, KernelTypeOK
<1>4. prio' = prio /\ SafeOrder(prio, Thread) /\ AllOrdered(lists, prio, ListName, {"stopped"})
  BY <1>1, <1>2, <1>3, IInvOrder
<1>5. Placed(lists, SeatMap, ListName, Thread) /\ SeatMap[t] \notin ListName
  BY <1>1, <1>2, IInvPlaced, KernelLists DEF SeatMap
<1>6. lists'["running"] = <<>>
  BY <1>1, <1>2, <1>3, KernelLists DEF Push
<1>7. \A u \in Thread : Seat(u)' = loc'[u] /\ loc'[u] = IF u = t THEN "ready" ELSE SeatMap[u]
  <2>1. \A u : lists'["running"] # <<u>>
    BY <1>6
  <2>. QED BY <1>1, <1>2, <1>3, <2>1 DEF Seat, SeatMap
<1>8. Placed(lists', loc', ListName, Thread)
  <2>1. Placed(Push(lists, "ready", t, prio), loc', ListName, Thread)
    <3>1. "ready" \in ListName /\ t \in Thread /\ prio \in [Thread -> Nat]
      BY <1>3, KernelLists
    <3>2. \A u \in Thread : loc'[u] = IF u = t THEN "ready" ELSE SeatMap[u]
      BY <1>7
    <3>. QED BY ONLY <1>4, <1>5, <3>1, <3>2, PushPlaced
  <2>. QED BY <1>1, <1>2, <2>1
<1>9. AllOrdered(lists', prio', ListName, {"stopped"})
  <2>1. AllOrdered(Push(lists, "ready", t, prio), prio, ListName, {"stopped"})
    BY <1>3, <1>4, <1>5, KernelLists, PushKeepsOrder
  <2>. QED BY <1>1, <1>2, <1>4, <2>1
<1>10. Seated' /\ OneRuns' /\ Sorted'
  BY <1>1, <1>6, <1>7, <1>8, <1>9 DEF Seated, Placed, OneRuns, Sorted, AllOrdered
<1>11. TypeOK'
  <2>1. /\ loc' \in [Thread -> ListName \cup {NoList}]
        /\ state' \in [Thread -> {"READY", "RUNNING", "BLOCKED"}]
        /\ reason' \in [Thread -> {"NONE", "OS_DELAY", "BLOCK_MUTEX", "BLOCK_SEMAPHORE"}]
    BY <1>1, <1>3, KernelLists
  <2>2. lists' \in [ListName -> Seq(Thread)] /\ wakeTick' \in [Thread -> Nat]
    BY <1>1, <1>3, <1>8 DEF Placed
  <2>3. KernelTypeOK'
    BY <1>1, <1>3, <1>4, <2>1, <2>2 DEF IInv, TypeOK, KernelTypeOK
  <2>. QED BY <1>1, <2>3 DEF IInv, TypeOK, SemaphoreTypeOK, MutexTypeOK
<1>12. RunningNamed'
  <2>1. \A u : lists'["running"] # <<u>>
    BY <1>6
  <2>. QED BY <1>2, <1>7, <2>1, KernelLists DEF RunningNamed, SeatMap
<1>13. IdleRunnable' /\ Phase'
  BY <1>1, <1>2, <1>3, <1>4, KernelAssumption
     DEF IInv, IdleRunnable, Phase, SwitchDue
<1>14. CallPending' /\ BlockedIsLeaving' /\ ScanSleeps'
  BY <1>1, <1>2, <1>7 DEF IInv, CallPending, BlockedIsLeaving, ScanSleeps
<1>15. StateAgrees'
  <2>. SUFFICES ASSUME NEW u \in Created' PROVE StateAgrees!(u)'
    BY DEF StateAgrees
  <2>1. CASE u = t
    BY <1>1, <1>3, <2>1, KernelLists DEF Created
  <2>2. CASE u # t
    <3>1. u \in Created /\ loc'[u] = loc[u] /\ state'[u] = state[u] /\ reason'[u] = reason[u]
          /\ wakeTick'[u] = wakeTick[u] /\ boot' = boot
      BY <1>1, <1>3, <2>2 DEF Created
    <3>. QED BY <3>1 DEF IInv, StateAgrees
  <2>. QED BY <2>1, <2>2
<1>16. OwnersCreated' /\ WaitersHaveOwner' /\ PriorityRestored' /\ Uniform'
  <2>1. \A u \in Thread : loc'[u] = IF u = t THEN "ready" ELSE loc[u]
    BY <1>1, <1>3
  <2>2. Created \subseteq Created'
    BY <2>1, KernelLists DEF Created
  <2>3. OwnersCreated' /\ PriorityRestored' /\ Uniform'
    BY <1>1, <1>4, <2>2 DEF IInv, OwnersCreated, PriorityRestored, Uniform
  <2>4. WaitersHaveOwner'
    BY <1>1, <2>1, <2>2, KernelLists DEF IInv, WaitersHaveOwner, WaitersOf
  <2>. QED BY <2>3, <2>4
<1>. QED BY <1>10, <1>11, <1>12, <1>13, <1>14, <1>15, <1>16 DEF IInv

\* xrt_kernel_start moves the head of the ready list to the running list.
LEMMA StartPickKeeps == IInv /\ StartPick /\ UNCHANGED <<primitives, svc>> => IInv'
<1>. SUFFICES ASSUME IInv, StartPick, UNCHANGED <<primitives, svc>>
              PROVE  IInv'
  OBVIOUS
<1> DEFINE t == Head(lists["ready"])
<1>1. /\ boot = "create" /\ boot' = "picked" /\ lists["ready"] # <<>>
      /\ lists' = Push(Unlink(lists, loc[t], t), "running", t, prio)
      /\ loc' = [loc EXCEPT ![t] = "running"]
      /\ state' = [state EXCEPT ![t] = "RUNNING"]
      /\ UNCHANGED <<reason, prio, wakeTick, pendSV, switching, started, firstCS, cpu, inTick, scan>>
      /\ UNCHANGED <<value, owner, svc>>
  BY DEF StartPick, MoveThread, tick, primitives
<1>2. /\ lists["running"] = <<>>
      /\ \A u \in Thread : Seat(u) = loc[u] /\ loc[u] # "running"
      /\ cpu = Main /\ ~SwitchDue /\ ~inTick /\ ~started /\ ~firstCS /\ svc = NoCall
  BY <1>1, BeforeStart
<1>3. /\ loc \in [Thread -> ListName \cup {NoList}]
      /\ state \in [Thread -> {"READY", "RUNNING", "BLOCKED"}]
      /\ lists \in [ListName -> Seq(Thread)]
  BY DEF IInv, TypeOK, KernelTypeOK
<1>4. t \in Thread /\ loc[t] = "ready"
  <2>1. lists["ready"] \in Seq(Thread)
        /\ ToSet(lists["ready"]) = {u \in Thread : Seat(u) = "ready"}
    BY <1>3, KernelLists DEF IInv, Seated
  <2>2. t \in ToSet(lists["ready"]) /\ t \in Thread
    BY <1>1, <2>1, HeadIsIn
  <2>. QED BY <1>2, <2>1, <2>2
<1> HIDE DEF t
<1>5. reason[t] = "NONE" /\ t \in Created
  BY <1>4, KernelLists DEF IInv, StateAgrees, Created
<1>6. \A u \in Thread : loc'[u] = IF u = t THEN "running" ELSE SeatMap[u]
  BY <1>1, <1>2, <1>3 DEF SeatMap
<1>7. /\ Placed(lists, SeatMap, ListName, Thread) /\ SeatMap[t] = "ready"
      /\ prio \in [Thread -> Nat] /\ SafeOrder(prio, Thread)
      /\ AllOrdered(lists, prio, ListName, {"stopped"})
      /\ "ready" \in ListName /\ "running" \in ListName /\ NoList \notin ListName
  BY <1>2, <1>4, IInvPlaced, IInvOrder, KernelLists DEF SeatMap
<1>8. lists' = Push(Unlink(lists, SeatMap[t], t), "running", t, prio)
  BY <1>1, <1>4, <1>7
<1>9. Placed(lists', loc', ListName, Thread)
  <2>1. Placed(Push(Unlink(lists, SeatMap[t], t), "running", t, prio), loc', ListName, Thread)
    BY ONLY <1>4, <1>6, <1>7, MovePlaced
  <2>. QED BY <1>8, <2>1
<1>10. AllOrdered(lists', prio', ListName, {"stopped"})
  <2>1. AllOrdered(Push(Unlink(lists, SeatMap[t], t), "running", t, prio), prio,
                   ListName, {"stopped"})
    BY ONLY <1>4, <1>7, MoveKeepsOrder
  <2>. QED BY <1>1, <1>8, <2>1
<1>11. lists'["running"] = <<t>>
  <2>1. {u \in Thread : loc'[u] = "running"} = {t}
    BY <1>2, <1>4, <1>6 DEF SeatMap
  <2>2. lists'["running"] \in Seq(Thread) /\ IsInjective(lists'["running"])
        /\ ToSet(lists'["running"]) = {t}
    BY <1>7, <1>9, <2>1 DEF Placed
  <2>. QED BY <2>2, OnlyElement
<1>12. \A u \in Thread : u # t => <<t>> # <<u>>
  OBVIOUS
<1>13. \A u \in Thread : Seat(u)' = loc'[u]
  BY <1>1, <1>3, <1>4, <1>11, <1>12 DEF Seat
<1>14. Seated' /\ OneRuns' /\ Sorted'
  BY <1>1, <1>9, <1>10, <1>11, <1>13 DEF Seated, Placed, OneRuns, Sorted, AllOrdered
<1>15. TypeOK'
  <2>1. /\ loc' \in [Thread -> ListName \cup {NoList}]
        /\ state' \in [Thread -> {"READY", "RUNNING", "BLOCKED"}]
        /\ lists' \in [ListName -> Seq(Thread)]
    BY <1>1, <1>3, <1>7, <1>9 DEF Placed
  <2>2. KernelTypeOK'
    BY <1>1, <2>1 DEF IInv, TypeOK, KernelTypeOK
  <2>. QED BY <1>1, <2>2 DEF IInv, TypeOK, SemaphoreTypeOK, MutexTypeOK
<1>16. RunningNamed'
  BY <1>2, <1>4, <1>6, <1>7, <1>11, <1>12 DEF RunningNamed, SeatMap
<1>17. IdleRunnable' /\ Phase'
  BY <1>1, <1>2, <1>3, KernelAssumption DEF IInv, IdleRunnable, Phase, SwitchDue
<1>18. CallPending' /\ BlockedIsLeaving' /\ ScanSleeps'
  <2>1. Running' = t /\ state'[t] = "RUNNING"
    BY <1>1, <1>3, <1>4, <1>11 DEF Running
  <2>. QED BY <1>1, <1>2, <2>1 DEF IInv, CallPending, BlockedIsLeaving, ScanSleeps
<1>19. StateAgrees'
  <2>. SUFFICES ASSUME NEW u \in Created' PROVE StateAgrees!(u)'
    BY DEF StateAgrees
  <2>1. CASE u = t
    BY <1>1, <1>3, <1>4, <1>5, <2>1, KernelLists
  <2>2. CASE u # t
    <3>1. u \in Created /\ loc'[u] = loc[u] /\ state'[u] = state[u] /\ reason' = reason
          /\ wakeTick' = wakeTick /\ loc[u] # "running"
      BY <1>1, <1>2, <1>3, <2>2 DEF Created
    <3>. QED BY <3>1 DEF IInv, StateAgrees
  <2>. QED BY <2>1, <2>2
<1>20. OwnersCreated' /\ WaitersHaveOwner' /\ PriorityRestored' /\ Uniform'
  <2>1. \A u \in Thread : loc'[u] = IF u = t THEN "running" ELSE loc[u]
    BY <1>1, <1>3
  <2>2. Created \subseteq Created'
    BY <2>1, KernelLists DEF Created
  <2>3. OwnersCreated' /\ PriorityRestored' /\ Uniform'
    BY <1>1, <2>2 DEF IInv, OwnersCreated, PriorityRestored, Uniform
  <2>4. WaitersHaveOwner'
    BY <1>1, <2>1, <2>2, KernelLists DEF IInv, WaitersHaveOwner, WaitersOf
  <2>. QED BY <2>3, <2>4
<1>. QED BY <1>14, <1>15, <1>16, <1>17, <1>18, <1>19, <1>20 DEF IInv

----------------------------------------------------------------------------
(* The switch. *)

\* The idle thread is there to take over.
LEMMA RunnableThread == IInv => SomebodyRunnable
<1>. SUFFICES ASSUME IInv, boot # "create", state[Running] = "BLOCKED",
                     lists["ready"] = <<>>
              PROVE  FALSE
  BY DEF SomebodyRunnable
<1>1. Idle \in Created
  BY KernelAssumption, KernelLists DEF IInv, IdleRunnable, Created
<1>2. state[Idle] # "BLOCKED"
  BY <1>1 DEF IInv, IdleRunnable, StateAgrees
<1>3. Seat(Idle) = "ready"
  BY <1>1, <1>2, RunningThread DEF IInv, IdleRunnable, Created
<1>4. Idle \in ToSet(lists["ready"])
  BY <1>1, <1>3, KernelLists DEF IInv, Seated, Created
<1>. QED BY <1>4, ShortLists

\* Where the two threads of a switch are after it, as far as the switch changes
\* the lists at all.
SwitchedTo(out, in) ==
    LET dst == IF state[out] = "BLOCKED" THEN loc[out] ELSE "ready"
    IN  /\ in \in Thread /\ loc[in] = "ready" /\ in # out
        /\ \/ /\ state[out] = "BLOCKED" /\ dst = loc[out] /\ loc[out] # NoList
              /\ loc[out] \notin {"ready", "running"}
           \/ state[out] # "BLOCKED" /\ dst = "ready" /\ loc[out] = "running"
        /\ dst \in ListName /\ dst # "running"
        /\ loc' \in [Thread -> ListName \cup {NoList}]
        /\ state' \in [Thread -> {"READY", "RUNNING", "BLOCKED"}]
        /\ \A u \in Thread : loc'[u] = IF u = in THEN "running" ELSE IF u = out THEN dst ELSE loc[u]
        /\ \A u \in Thread : state'[u] = IF u = in THEN "RUNNING"
                                ELSE IF u # out THEN state[u]
                                ELSE IF state[out] = "BLOCKED" THEN "BLOCKED" ELSE "READY"
        /\ Placed(lists', loc', ListName, Thread)
        /\ AllOrdered(lists', prio', ListName, {"stopped"})
        /\ lists'["running"] = <<in>>

\* What xrt_kernel_schedule does to the lists when it switches.
LEMMA SwitchMoves ==
    ASSUME IInv, PendSVSwitch, ~KeepsCpu
    PROVE  SwitchedTo(Running, Head(lists["ready"]))
<1> DEFINE out == Running
           in == Head(lists["ready"])
           dst == IF state[out] = "BLOCKED" THEN loc[out] ELSE "ready"
           ls == Push(Unlink(lists, "running", out), dst, out, prio)
<1>1. /\ switching /\ ~firstCS /\ ~inTick /\ switching' = FALSE
      /\ Schedule /\ cpu' = Head(lists'["running"])
      /\ UNCHANGED <<reason, prio, wakeTick, pendSV, started, firstCS, boot, inTick, scan>>
  BY DEF PendSVSwitch, bringUp, tick
<1>2. started /\ boot # "create" /\ cpu = out /\ cpu # Main
  BY <1>1 DEF IInv, Phase, SwitchDue
<1>3. /\ out \in Thread /\ lists["running"] = <<out>> /\ Seat(out) = "running"
      /\ \A u \in Thread : u # out => Seat(u) = loc[u] /\ loc[u] # "running"
  BY <1>2, RunningThread
<1>4. /\ loc \in [Thread -> ListName \cup {NoList}]
      /\ state \in [Thread -> {"READY", "RUNNING", "BLOCKED"}]
      /\ lists \in [ListName -> Seq(Thread)]
  BY DEF IInv, TypeOK, KernelTypeOK
<1>5. /\ lists' = Push(Unlink(ls, loc[in], in), "running", in, prio)
      /\ loc' = [loc EXCEPT ![out] = dst, ![in] = "running"]
      /\ state' = [state EXCEPT ![out] = IF @ = "BLOCKED" THEN @ ELSE "READY",
                                ![in] = "RUNNING"]
  BY <1>1 DEF Schedule, MoveThread, SwitchedOut
<1>6. in \in Thread /\ loc[in] = "ready" /\ in # out /\ SeatMap[in] = "ready"
  <2>1. lists["ready"] # <<>>
    BY DEF KeepsCpu
  <2>2. lists["ready"] \in Seq(Thread)
        /\ ToSet(lists["ready"]) = {u \in Thread : Seat(u) = "ready"}
    BY <1>4, KernelLists DEF IInv, Seated
  <2>3. in \in ToSet(lists["ready"]) /\ in \in Thread
    BY <2>1, <2>2, HeadIsIn
  <2>. QED BY <1>3, <2>2, <2>3, KernelLists DEF SeatMap
<1> HIDE DEF in, out
<1>7. \/ /\ state[out] = "BLOCKED" /\ dst = loc[out] /\ loc[out] # NoList
         /\ loc[out] \notin {"ready", "running"}
      \/ /\ state[out] # "BLOCKED" /\ dst = "ready" /\ loc[out] = "running"
  <2>1. loc[out] # NoList
    BY <1>3 DEF IInv, RunningNamed
  <2>2. CASE state[out] = "BLOCKED"
    BY <1>2, <1>3, <2>1, <2>2 DEF IInv, StateAgrees, Created
  <2>3. CASE state[out] # "BLOCKED"
    BY <1>3, <2>3 DEF IInv, RunningNamed
  <2>. QED BY <2>2, <2>3
<1>8. dst \in ListName /\ dst # "running"
  BY <1>3, <1>4, <1>7, KernelLists
<1> HIDE DEF dst
<1>9. /\ loc' \in [Thread -> ListName \cup {NoList}]
      /\ state' \in [Thread -> {"READY", "RUNNING", "BLOCKED"}]
      /\ \A u \in Thread : loc'[u] = IF u = in THEN "running" ELSE IF u = out THEN dst ELSE loc[u]
      /\ \A u \in Thread : state'[u] = IF u = in THEN "RUNNING"
                              ELSE IF u # out THEN state[u]
                              ELSE IF state[out] = "BLOCKED" THEN "BLOCKED" ELSE "READY"
  BY <1>3, <1>4, <1>5, <1>6, <1>8, KernelLists
<1>10. /\ Placed(lists, SeatMap, ListName, Thread) /\ SeatMap[out] = "running"
      /\ prio \in [Thread -> Nat] /\ SafeOrder(prio, Thread)
      /\ AllOrdered(lists, prio, ListName, {"stopped"})
      /\ "ready" \in ListName /\ "running" \in ListName /\ NoList \notin ListName
  BY <1>3, IInvPlaced, IInvOrder, KernelLists DEF SeatMap
<1> DEFINE mid == [u \in Thread |-> IF u = out THEN dst ELSE SeatMap[u]]
<1>11. \A u \in Thread : mid[u] = IF u = out THEN dst ELSE SeatMap[u]
  OBVIOUS
<1>12. mid[in] = "ready"
  BY <1>6
<1> HIDE DEF mid
<1>13. Placed(ls, mid, ListName, Thread) /\ AllOrdered(ls, prio, ListName, {"stopped"})
  <2>1. ls = Push(Unlink(lists, SeatMap[out], out), dst, out, prio)
    BY <1>10
  <2>2. Placed(Push(Unlink(lists, SeatMap[out], out), dst, out, prio), mid, ListName, Thread)
    BY ONLY <1>3, <1>8, <1>10, <1>11, MovePlaced
  <2>3. AllOrdered(Push(Unlink(lists, SeatMap[out], out), dst, out, prio), prio,
                   ListName, {"stopped"})
    BY ONLY <1>3, <1>8, <1>10, MoveKeepsOrder
  <2>. QED BY <2>1, <2>2, <2>3
<1> HIDE DEF ls
<1>14. \A u \in Thread : loc'[u] = IF u = in THEN "running" ELSE mid[u]
  BY <1>3, <1>9, <1>11 DEF SeatMap
<1>15. Placed(lists', loc', ListName, Thread)
       /\ AllOrdered(lists', prio', ListName, {"stopped"})
  <2>1. lists' = Push(Unlink(ls, mid[in], in), "running", in, prio)
    BY <1>5, <1>6, <1>12
  <2>2. Placed(Push(Unlink(ls, mid[in], in), "running", in, prio), loc', ListName, Thread)
    BY ONLY <1>6, <1>10, <1>12, <1>13, <1>14, MovePlaced
  <2>3. AllOrdered(Push(Unlink(ls, mid[in], in), "running", in, prio), prio,
                   ListName, {"stopped"})
    BY ONLY <1>6, <1>10, <1>12, <1>13, MoveKeepsOrder
  <2>. QED BY <1>1, <2>1, <2>2, <2>3
<1>16. lists'["running"] = <<in>>
  <2>1. {u \in Thread : loc'[u] = "running"} = {in}
    BY <1>3, <1>6, <1>8, <1>9
  <2>2. lists'["running"] \in Seq(Thread) /\ IsInjective(lists'["running"])
        /\ ToSet(lists'["running"]) = {in}
    BY <1>10, <1>15, <2>1 DEF Placed
  <2>. QED BY <2>2, OnlyElement
<1>. QED BY <1>6, <1>7, <1>8, <1>9, <1>15, <1>16 DEF SwitchedTo, dst, in, out

\* PendSV_Handler after the first time: save, reschedule, load.
LEMMA SwitchKeeps == IInv /\ PendSVSwitch /\ UNCHANGED <<primitives, svc>> => IInv'
<1>. SUFFICES ASSUME IInv, PendSVSwitch, UNCHANGED <<primitives, svc>>
              PROVE  IInv'
  OBVIOUS
<1> DEFINE out == Running
           in == Head(lists["ready"])
           dst == IF state[out] = "BLOCKED" THEN loc[out] ELSE "ready"
<1>1. /\ switching /\ ~firstCS /\ ~inTick /\ switching' = FALSE
      /\ Schedule /\ cpu' = Head(lists'["running"])
      /\ UNCHANGED <<reason, prio, wakeTick, pendSV, started, firstCS, boot, inTick, scan>>
      /\ UNCHANGED <<value, owner, svc>>
  BY DEF PendSVSwitch, bringUp, tick, primitives
<1>2. started /\ boot # "create" /\ cpu = out /\ cpu # Main /\ svc = NoCall
  BY <1>1 DEF IInv, Phase, SwitchDue, CallPending
<1>3. /\ out \in Thread /\ lists["running"] = <<out>> /\ Seat(out) = "running"
      /\ \A u \in Thread : u # out => Seat(u) = loc[u] /\ loc[u] # "running"
  BY <1>2, RunningThread
<1>4. /\ loc \in [Thread -> ListName \cup {NoList}]
      /\ state \in [Thread -> {"READY", "RUNNING", "BLOCKED"}]
      /\ lists \in [ListName -> Seq(Thread)]
  BY DEF IInv, TypeOK, KernelTypeOK
<1>5. CASE KeepsCpu
  <2>1. UNCHANGED <<lists, loc, state>>
    BY <1>1, <1>5 DEF Schedule
  <2>2. cpu' = out /\ Running' = out
    BY <1>1, <2>1 DEF Running
  <2>3. TypeOK'
    BY <1>1, <1>2, <2>1, <2>2 DEF IInv, TypeOK, KernelTypeOK, SemaphoreTypeOK, MutexTypeOK
  <2>4. (/\ Seated /\ OneRuns /\ RunningNamed /\ Sorted /\ StateAgrees
         /\ IdleRunnable /\ Uniform)'
    BY <1>1, <2>1, Quiet DEF placement
  <2>5. (OwnersCreated /\ WaitersHaveOwner /\ PriorityRestored)'
    BY <1>1, <2>1, QuietOwners
  <2>6. Phase' /\ CallPending' /\ ScanSleeps'
    BY <1>1, <1>2, <2>1, <2>2 DEF IInv, Phase, CallPending, ScanSleeps
  <2>7. BlockedIsLeaving'
    <3>1. state[out] # "BLOCKED"
      BY <1>2, <1>5, RunnableThread DEF KeepsCpu, SomebodyRunnable
    <3>. QED BY <2>1, <2>2, <3>1 DEF BlockedIsLeaving
  <2>. QED BY <2>3, <2>4, <2>5, <2>6, <2>7 DEF IInv
<1>6. CASE ~KeepsCpu
  <2>0. SwitchedTo(out, in)
    BY <1>6, SwitchMoves
  <2>1. /\ in \in Thread /\ loc[in] = "ready" /\ in # out
        /\ \/ /\ state[out] = "BLOCKED" /\ dst = loc[out] /\ loc[out] # NoList
              /\ loc[out] \notin {"ready", "running"}
           \/ state[out] # "BLOCKED" /\ dst = "ready" /\ loc[out] = "running"
        /\ dst \in ListName /\ dst # "running"
        /\ loc' \in [Thread -> ListName \cup {NoList}]
        /\ state' \in [Thread -> {"READY", "RUNNING", "BLOCKED"}]
        /\ \A u \in Thread : loc'[u] = IF u = in THEN "running" ELSE IF u = out THEN dst ELSE loc[u]
        /\ \A u \in Thread : state'[u] = IF u = in THEN "RUNNING"
                                ELSE IF u # out THEN state[u]
                                ELSE IF state[out] = "BLOCKED" THEN "BLOCKED" ELSE "READY"
        /\ Placed(lists', loc', ListName, Thread)
        /\ AllOrdered(lists', prio', ListName, {"stopped"})
        /\ lists'["running"] = <<in>>
    BY <2>0 DEF SwitchedTo
  <2> HIDE DEF in, out, dst
  <2>2. cpu' = in /\ Running' = in
    BY <1>1, <2>1 DEF Running
  <2>3. \A u \in Thread : u # in => <<in>> # <<u>>
    OBVIOUS
  <2>4. \A u \in Thread : Seat(u)' = loc'[u]
    BY <2>1, <2>3 DEF Seat
  <2>5. Seated' /\ OneRuns' /\ Sorted'
    BY <1>1, <1>2, <2>1, <2>4 DEF Seated, Placed, OneRuns, Sorted, AllOrdered
  <2>6. TypeOK'
    <3>1. KernelTypeOK'
      BY <1>1, <2>1, <2>2 DEF IInv, TypeOK, KernelTypeOK, Placed
    <3>. QED BY <1>1, <3>1 DEF IInv, TypeOK, SemaphoreTypeOK, MutexTypeOK
  <2>7. RunningNamed'
    <3>1. loc'[in] = "running" /\ \A u \in Thread : u # in => loc'[u] # "running"
      BY <1>3, <2>1
    <3>. QED BY <2>1, <2>3, <3>1, KernelLists DEF RunningNamed
  <2>8. IdleRunnable'
    <3>1. Idle # in /\ Idle = out => dst = "ready"
      BY <2>1 DEF IInv, IdleRunnable
    <3>. QED BY <2>1, <3>1, KernelAssumption DEF IInv, IdleRunnable
  <2>9. Phase'
    BY <1>1, <1>2, <2>1, <2>2, KernelAssumption DEF IInv, Phase
  <2>10. CallPending' /\ BlockedIsLeaving' /\ ScanSleeps'
    <3>1. state'[in] = "RUNNING"
      BY <2>1
    <3>. QED BY <1>1, <1>2, <2>2, <3>1 DEF IInv, CallPending, BlockedIsLeaving, ScanSleeps
  <2>11. StateAgrees'
    <3>. SUFFICES ASSUME NEW u \in Created' PROVE StateAgrees!(u)'
      BY DEF StateAgrees
    <3>1. u \in Thread /\ u \in Created
      BY <2>1, KernelLists DEF Created
    <3>2. CASE u = in
      <4>1. reason[in] = "NONE"
        BY <2>1, <3>1, <3>2 DEF IInv, StateAgrees
      <4>. QED BY <1>1, <1>2, <2>1, <3>2, <4>1, KernelLists
    <3>3. CASE u = out
      <4>1. CASE state[out] = "BLOCKED"
        <5>1. loc'[u] = loc[u] /\ state'[u] = state[u] /\ reason' = reason /\ wakeTick' = wakeTick
              /\ boot' = boot
          BY <1>1, <1>3, <2>1, <3>3, <4>1
        <5>. QED BY <3>1, <5>1 DEF IInv, StateAgrees
      <4>2. CASE state[out] # "BLOCKED"
        <5>1. loc'[u] = "ready" /\ state'[u] = "READY" /\ loc[u] = "running"
          BY <1>3, <2>1, <3>3, <4>2
        <5>2. reason'[u] = "NONE"
          BY <1>1, <3>1, <5>1 DEF IInv, StateAgrees
        <5>. QED BY <5>1, <5>2, KernelLists
      <4>. QED BY <4>1, <4>2
    <3>4. CASE u # in /\ u # out
      <4>1. loc'[u] = loc[u] /\ state'[u] = state[u] /\ reason' = reason /\ wakeTick' = wakeTick
            /\ boot' = boot
        BY <1>1, <2>1, <3>1, <3>4
      <4>. QED BY <3>1, <4>1 DEF IInv, StateAgrees
    <3>. QED BY <3>2, <3>3, <3>4
  <2>12. OwnersCreated' /\ WaitersHaveOwner' /\ PriorityRestored' /\ Uniform'
    <3>1. Created \subseteq Created'
      BY <2>1, KernelLists DEF Created
    <3>2. OwnersCreated' /\ PriorityRestored' /\ Uniform'
      BY <1>1, <3>1 DEF IInv, OwnersCreated, PriorityRestored, Uniform
    <3>3. \A m \in Mutex : WaitersOf(m)' \subseteq WaitersOf(m)
      BY <1>3, <2>1, KernelLists DEF WaitersOf
    <3>. QED BY <1>1, <3>1, <3>2, <3>3 DEF IInv, WaitersHaveOwner
  <2>. QED BY <2>5, <2>6, <2>7, <2>8, <2>9, <2>10, <2>11, <2>12 DEF IInv
<1>. QED BY <1>5, <1>6

----------------------------------------------------------------------------
(* The theorems. *)

\* xrt_system_calls_dispatch, whatever the call.
LEMMA DispatchKeeps == IInv /\ Dispatch => IInv'
<1>. SUFFICES ASSUME IInv, Dispatch PROVE IInv'
  OBVIOUS
<1>1. /\ svc # NoCall /\ svc' = NoCall /\ ~inTick
      /\ UNCHANGED <<switching, cpu, bringUp, tick>>
  BY DEF Dispatch
<1>2. svc \in Calls
  BY <1>1 DEF IInv, TypeOK
<1>3. CASE LockCall(Running)
  BY <1>1, <1>2, <1>3, LockKeeps
<1>4. CASE UnlockCall(Running)
  BY <1>1, <1>2, <1>4, UnlockKeeps
<1>5. CASE TakeCall(Running)
  BY <1>1, <1>2, <1>5, TakeKeeps
<1>6. CASE ReleaseCall
  BY <1>1, <1>2, <1>6, ReleaseKeeps
<1>7. CASE YieldCall
  BY <1>1, <1>2, <1>7, YieldKeeps
<1>8. CASE DelayCall(Running)
  BY <1>1, <1>2, <1>8, DelayKeeps
<1>. QED BY <1>3, <1>4, <1>5, <1>6, <1>7, <1>8 DEF Dispatch

\* Steps outside the kernel change nothing.
LEMMA StutterKeeps == IInv /\ UNCHANGED vars => IInv'
<1>. SUFFICES ASSUME IInv, UNCHANGED vars PROVE IInv'
  OBVIOUS
<1>1. TypeOK'
  BY DEF IInv, TypeOK, KernelTypeOK, SemaphoreTypeOK, MutexTypeOK, vars, kernelVars
<1>2. (/\ Seated /\ OneRuns /\ RunningNamed /\ Sorted /\ StateAgrees
       /\ IdleRunnable /\ Uniform)'
  BY Quiet DEF vars, kernelVars, placement
<1>3. (OwnersCreated /\ WaitersHaveOwner /\ PriorityRestored)'
  BY QuietOwners DEF vars, kernelVars
<1>4. Phase' /\ CallPending' /\ BlockedIsLeaving' /\ ScanSleeps'
  BY DEF IInv, Phase, CallPending, BlockedIsLeaving, ScanSleeps, SwitchDue, Running, Seat,
         vars, kernelVars
<1>. QED BY <1>1, <1>2, <1>3, <1>4 DEF IInv

\* The inductive step: one lemma per action.
LEMMA StepKeeps == IInv /\ [Next]_vars => IInv'
<1>. SUFFICES ASSUME IInv, [Next]_vars PROVE IInv'
  OBVIOUS
<1>1. CASE KernelStep
  <2>1. CASE \E t \in Thread : ThreadCreate(t)
    BY <1>1, <2>1, CreateKeeps DEF KernelStep
  <2>2. CASE StartStep
    BY <1>1, <2>2, StartPickKeeps, StartArmKeeps, StartGoKeeps, StartRequestKeeps
       DEF KernelStep, StartStep
  <2>3. CASE TickBegin \/ TickVisit \/ TickEnd
    BY <1>1, <2>3, TickBeginKeeps, TickVisitKeeps, TickEndKeeps DEF KernelStep
  <2>4. CASE svc = NoCall /\ PendSVEnter
    BY <1>1, <2>4, PendSVEnterKeeps DEF KernelStep
  <2>5. CASE SwitchStep
    BY <1>1, <2>5, PendSVFirstKeeps, SwitchKeeps DEF KernelStep, SwitchStep
  <2>. QED BY <1>1, <2>1, <2>2, <2>3, <2>4, <2>5 DEF KernelStep
<1>2. CASE \E c \in Calls : Raise(c)
  BY <1>2, RaiseKeeps
<1>3. CASE Dispatch
  BY <1>3, DispatchKeeps
<1>4. CASE \E s \in IsrSemaphore : IsrRelease(s)
  BY <1>4, IsrReleaseKeeps
<1>5. CASE UNCHANGED vars
  BY <1>5, StutterKeeps
<1>. QED BY <1>1, <1>2, <1>3, <1>4, <1>5 DEF Next

\* The inductive invariant holds in every reachable state of the kernel.
THEOREM Invariance == Spec => []IInv
<1>1. Init => IInv
  BY InitIInv
<1>2. IInv /\ [Next]_vars => IInv'
  BY StepKeeps
<1>. QED BY <1>1, <1>2, PTL DEF Spec

\* Every variable has its type: no list, TCB or counter leaves its range,
\* whatever the threads, the tick and the interrupt handlers do.
THEOREM TypeCorrect == Spec => []TypeOK
<1>1. IInv => TypeOK
  BY DEF IInv
<1>. QED BY <1>1, Invariance, PTL

\* No thread is lost, duplicated or linked into the wrong list.
THEOREM NoThreadLost == Spec => []Seated
<1>1. IInv => Seated
  BY DEF IInv
<1>. QED BY <1>1, Invariance, PTL

\* The running list holds exactly one thread once there is one: the handlers may
\* dereference its head.
THEOREM AlwaysOneRuns == Spec => []OneRuns
<1>1. IInv => OneRuns
  BY DEF IInv
<1>. QED BY <1>1, Invariance, PTL

\* The ready list and the wait lists stay in priority order through every boost,
\* restoration, wake-up and switch.
THEOREM AlwaysSorted == Spec => []Sorted
<1>1. IInv => Sorted
  BY DEF IInv
<1>. QED BY <1>1, Invariance, PTL

\* A TCB's state, reason, wake tick and list always agree.
THEOREM TcbsAgree == Spec => []StateAgrees
<1>1. IInv => StateAgrees
  BY DEF IInv
<1>. QED BY <1>1, Invariance, PTL

\* xrt_kernel_schedule always finds somebody to replace a blocked thread.
THEOREM AlwaysSomebody == Spec => []SomebodyRunnable
BY RunnableThread, Invariance, PTL

\* A context is only ever saved into the TCB of the thread it belongs to, and a
\* supervisor call is served for its caller.
THEOREM ContextsSavedRight == Spec => []RightThread
<1>1. IInv => RightThread
  <2>1. ASSUME IInv, SwitchDue PROVE firstCS \/ cpu = Running
    BY <2>1 DEF IInv, Phase
  <2>. QED BY <2>1 DEF RightThread, IInv, Phase, CallPending
<1>. QED BY <1>1, Invariance, PTL

\* A mutex somebody waits for is owned, by a created thread that is not itself
\* among its waiters.
THEOREM WaitedForIsOwned == Spec => []WaitersHaveOwner
<1>1. IInv => WaitersHaveOwner
  BY DEF IInv
<1>. QED BY <1>1, Invariance, PTL

\* A lent priority is given back with the last mutex at the latest.
THEOREM LoansEnd == Spec => []PriorityRestored
<1>1. IInv => PriorityRestored
  BY DEF IInv
<1>. QED BY <1>1, Invariance, PTL

\* The CPU goes from a runnable thread only to one at least as urgent.
THEOREM NeverDown == Spec => NeverYieldsDown
<1>1. ASSUME IInv, [Next]_vars, cpu # Main, cpu' # cpu
      PROVE  state[cpu] = "BLOCKED" \/ prio[cpu'] >= prio[cpu]
  <2>1. PendSVFirst \/ PendSVSwitch
    BY <1>1 DEF Next, KernelStep, StartStep, SwitchStep, ThreadCreate, StartPick,
       StartArmFirstSwitch, StartGo, StartRequestSwitch, TickBegin, TickVisit, TickEnd,
       PendSVEnter, Raise, Dispatch, IsrRelease, vars, kernelVars
  <2>2. PendSVSwitch /\ ~firstCS
    BY <1>1, <2>1 DEF PendSVFirst, PendSVSwitch, IInv, Phase
  <2>3. boot # "create" /\ cpu = Running
    BY <1>1, <2>2 DEF PendSVSwitch, IInv, Phase, SwitchDue
  <2>4. ~KeepsCpu
    BY <1>1, <2>2, <2>3 DEF PendSVSwitch, Schedule, Running
  <2> DEFINE in == Head(lists["ready"])
  <2>5. in \in Thread
    <3>1. lists["ready"] \in Seq(Thread) /\ lists["ready"] # <<>>
      BY <1>1, <2>4, KernelLists DEF KeepsCpu, IInv, TypeOK, KernelTypeOK
    <3>. QED BY <3>1, HeadIsIn
  <2>6. cpu' = in
    <3>1. SwitchedTo(Running, in)
      BY <1>1, <2>2, <2>4, SwitchMoves
    <3>2. lists'["running"] = <<in>>
      BY <3>1 DEF SwitchedTo
    <3>. QED BY <2>2, <3>2 DEF PendSVSwitch
  <2>7. state[cpu] = "BLOCKED" \/ ~(prio[cpu] > prio[in])
    BY <2>3, <2>4 DEF KeepsCpu
  <2>8. prio[cpu] \in Nat /\ prio[in] \in Nat
    BY <1>1, <2>3, <2>5, RunningThread DEF IInv, TypeOK, KernelTypeOK
  <2> HIDE DEF in
  <2>. QED BY <2>6, <2>7, <2>8
<1>2. IInv /\ [Next]_vars => [cpu # Main /\ cpu' # cpu =>
          state[cpu] = "BLOCKED" \/ prio[cpu'] >= prio[cpu]]_vars
  BY <1>1
<1>. QED BY <1>2, Invariance, PTL DEF Spec, NeverYieldsDown

----------------------------------------------------------------------------
(* The counters.  A ceiling below the largest 16-bit value keeps the       *)
(* increment from wrapping.                                                *)

NoFullCounter == \A s \in Semaphore : MaxValue[s] < UINT16_MAX

WithinCeiling == \A s \in Semaphore : value[s] <= MaxValue[s]

\* The ranges of the counters, with 65535 left unexpanded.
LEMMA CounterFacts ==
    ASSUME TypeOK, NEW s \in Semaphore
    PROVE  /\ UINT16_MAX \in Nat
           /\ value \in [Semaphore -> 0..UINT16_MAX]
           /\ value[s] \in Nat /\ MaxValue[s] \in Nat /\ InitialValue[s] \in Nat
           /\ InitialValue[s] <= MaxValue[s]
<1>1. UINT16_MAX \in Nat
  BY Width
<1>2. value[s] \in 0..UINT16_MAX /\ MaxValue[s] \in 1..UINT16_MAX
      /\ InitialValue[s] \in 0..UINT16_MAX
  BY SemaphoreAssumption DEF TypeOK, SemaphoreTypeOK
<1>3. \A n \in Nat : \A v \in 0..n : v \in Nat
  OBVIOUS
<1>4. \A n \in Nat : \A v \in 1..n : v \in Nat
  OBVIOUS
<1>. QED BY <1>1, <1>2, <1>3, <1>4, SemaphoreAssumption DEF TypeOK, SemaphoreTypeOK

\* A release adds one token, unless that would exceed the ceiling.
LEMMA IncrementedBy ==
    ASSUME TypeOK, NoFullCounter, WithinCeiling, NEW s \in Semaphore
    PROVE  value[s] <= Incremented(s) /\ Incremented(s) <= MaxValue[s]
<1>1. /\ UINT16_MAX \in Nat /\ value[s] \in Nat /\ MaxValue[s] \in Nat
      /\ value[s] <= MaxValue[s] /\ MaxValue[s] < UINT16_MAX
  BY CounterFacts DEF NoFullCounter, WithinCeiling
<1>2. \A a, b \in Nat : a < b => a % b = a
  OBVIOUS
<1>3. (value[s] + 1) % (UINT16_MAX + 1) = value[s] + 1
  BY <1>1, <1>2
<1>. QED BY <1>1, <1>3 DEF Incremented

\* What a step does to one counter.
LEMMA CounterStep ==
    ASSUME TypeOK, NoFullCounter, WithinCeiling, [Next]_vars, NEW s \in Semaphore
    PROVE  /\ value'[s] <= MaxValue[s]
           /\ value'[s] < value[s] =>
                 svc = [op |-> "SEMAPHORE_TAKE", arg |-> s] /\ svc' = NoCall
<1>1. /\ value \in [Semaphore -> 0..UINT16_MAX]
      /\ \A r \in Semaphore : value[r] \in Nat /\ MaxValue[r] \in Nat /\ value[r] <= MaxValue[r]
  BY CounterFacts DEF WithinCeiling
<1>2. CASE value' = value
  BY <1>1, <1>2
<1>3. CASE \E r \in Semaphore : SignalLocked(r, value)
  <2>1. PICK r \in Semaphore : SignalLocked(r, value)
    BY <1>3
  <2>2. value' = value \/ value' = [value EXCEPT ![r] = Incremented(r)]
    BY <2>1 DEF SignalLocked
  <2>3. value[r] <= Incremented(r) /\ Incremented(r) <= MaxValue[r]
    BY IncrementedBy
  <2>4. Incremented(r) \in Int
    BY <1>1, CounterFacts DEF Incremented
  <2>5. value'[s] = value[s] \/ (s = r /\ value'[s] = Incremented(r))
    BY <1>1, <2>2
  <2>. QED BY <1>1, <2>3, <2>4, <2>5
<1>4. CASE Dispatch /\ TakeCall(Running)
  <2> DEFINE r == svc.arg
  <2>1. /\ svc' = NoCall /\ svc.op = "SEMAPHORE_TAKE" /\ svc \in Calls
        /\ TakeFromSvc(r, Running)
    BY <1>4 DEF Dispatch, TakeCall, TypeOK
  <2>2. r \in Semaphore /\ svc = [op |-> "SEMAPHORE_TAKE", arg |-> r]
    BY <2>1 DEF Calls
  <2> HIDE DEF r
  <2>3. value' = value \/ value' = [value EXCEPT ![r] = value[r] - 1]
    BY <2>1 DEF TakeFromSvc, Taken
  <2>4. value'[s] = value[s] \/ (s = r /\ value'[s] = value[s] - 1)
    BY <1>1, <2>2, <2>3
  <2>. QED BY <1>1, <2>1, <2>2, <2>4
<1>5. value' = value \/ (\E r \in Semaphore : SignalLocked(r, value)) \/ (Dispatch /\ TakeCall(Running))
  <2>1. CASE KernelStep \/ (\E c \in Calls : Raise(c)) \/ UNCHANGED vars
    BY <2>1 DEF KernelStep, Raise, vars, primitives
  <2>2. CASE Dispatch
    <3>1. CASE ReleaseCall
      BY <2>2, <3>1 DEF Dispatch, ReleaseCall, Calls, TypeOK
    <3>2. CASE LockCall(Running) \/ UnlockCall(Running) \/ YieldCall \/ DelayCall(Running)
      BY <3>2 DEF LockCall, UnlockCall, YieldCall, DelayCall, primitives
    <3>. QED BY <2>2, <3>1, <3>2 DEF Dispatch
  <2>3. CASE \E r \in IsrSemaphore : IsrRelease(r)
    BY <2>3, SystemAssumption DEF IsrRelease
  <2>. QED BY <2>1, <2>2, <2>3 DEF Next
<1>. QED BY <1>2, <1>3, <1>4, <1>5

\* A release never costs a token, and the ceiling holds, for every semaphore
\* whose ceiling is below 65535.
THEOREM TokensSafe == NoFullCounter => (Spec => TokensOnlyTaken)
<1>. SUFFICES ASSUME NoFullCounter PROVE Spec => TokensOnlyTaken
  OBVIOUS
<1>1. Init => WithinCeiling
  <2>. SUFFICES ASSUME Init, NEW s \in Semaphore PROVE value[s] <= MaxValue[s]
    BY DEF WithinCeiling
  <2>. QED BY SemaphoreAssumption DEF Init, SemaphoreInit
<1>2. WithinCeiling /\ TypeOK /\ [Next]_vars => WithinCeiling'
  BY CounterStep DEF WithinCeiling
<1>3. WithinCeiling /\ TypeOK /\ [Next]_vars =>
         [\A s \in Semaphore :
             /\ value'[s] <= MaxValue[s]
             /\ value'[s] < value[s] =>
                   svc = [op |-> "SEMAPHORE_TAKE", arg |-> s] /\ svc' = NoCall]_vars
  BY CounterStep
<1>. QED BY <1>1, <1>2, <1>3, TypeCorrect, PTL DEF Spec, TokensOnlyTaken
=============================================================================
