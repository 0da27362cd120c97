------------------------------ MODULE XrtKernel ------------------------------
(***************************************************************************)
(* Threads, the scheduler, the tick and the context switch of the xrt      *)
(* kernel (xrt_kernel.c, xrt_thread.c, the exception handlers of           *)
(* xrt_port_cm4.c).  Every critical section is one action, except the tick *)
(* handler's scan of the sleeping threads, which takes one step per thread *)
(* with everything it masks disabled in between.                           *)
(***************************************************************************)
EXTENDS XrtThreadLists, FiniteSets

CONSTANTS
    Thread,          \* the TCBs the application and the kernel own
    Idle,            \* the kernel's idle thread
    Semaphore,       \* semaphore objects, each with a list of waiters
    Mutex,           \* mutex objects, each with a list of waiters
    BasePriority,    \* the priority each thread is created with
    MaxNumOfThread   \* XRT_MAX_NUM_OF_THREAD

IDLE_PRIORITY == 0
MAX_NUM_OF_PRIORITY == 4

\* Names of the lists: the three the kernel owns, and one per primitive.
ListName == {"ready", "running", "stopped"} \cup Semaphore \cup Mutex

\* currently_located_list of a TCB that was never created.
NoList == "nolist"

\* What the CPU executes before the first thread: main, on the main stack.
Main == "main"

ASSUME KernelAssumption ==
    /\ Idle \in Thread
    /\ BasePriority \in [Thread -> Nat]
    /\ BasePriority[Idle] = IDLE_PRIORITY
    /\ MaxNumOfThread \in Nat
    /\ Main \notin Thread
    /\ Semaphore \cap Mutex = {}
    /\ {"ready", "running", "stopped", NoList} \cap (Semaphore \cup Mutex) = {}

\* As committed the kernel is only sound where no thread has a lower priority
\* than another: there every insertion is at the tail.
ASSUME InsertionAssumption ==
    AnchorIsNode \/ \A t, u \in Thread : BasePriority[t] = BasePriority[u]

VARIABLES
    lists,     \* the threads of each list, head first
    loc,       \* TCB currently_located_list
    state,     \* TCB state
    reason,    \* TCB blocked_reason
    prio,      \* TCB current_priority
    wakeTick,  \* TCB wake_tick
    pendSV,    \* a context switch is pending
    switching, \* PendSV_Handler is entered and has not raised BASEPRI yet
    started,   \* is_os_kernel_started
    firstCS,   \* is_os_first_cs_occurs
    cpu,       \* whose registers the CPU holds in thread mode
    boot,      \* how far main is through bring-up
    inTick,    \* the tick handler is scanning the stopped list
    scan       \* the threads it has yet to visit

placement == <<lists, loc, state, reason>>
bringUp == <<started, firstCS, boot>>
tick == <<inTick, scan>>
kernelVars == <<lists, loc, state, reason, prio, wakeTick, pendSV, switching,
                started, firstCS, cpu, boot, inTick, scan>>

Created == {t \in Thread : loc[t] # NoList}

\* The thread at the head of the running list.
Running == Head(lists["running"])

KernelTypeOK ==
    /\ lists \in [ListName -> Seq(Thread)]
    /\ loc \in [Thread -> ListName \cup {NoList}]
    /\ state \in [Thread -> {"READY", "RUNNING", "BLOCKED"}]
    /\ reason \in [Thread -> {"NONE", "OS_DELAY", "BLOCK_MUTEX", "BLOCK_SEMAPHORE"}]
    /\ prio \in [Thread -> Nat]
    /\ wakeTick \in [Thread -> Nat]
    /\ pendSV \in BOOLEAN /\ switching \in BOOLEAN
    /\ started \in BOOLEAN /\ firstCS \in BOOLEAN
    /\ cpu \in Thread \cup {Main}
    /\ boot \in {"create", "picked", "armed", "started", "done"}
    /\ inTick \in BOOLEAN /\ scan \in Seq(Thread)

----------------------------------------------------------------------------
(* Helpers every handler is built from. *)

\* Mutant: the thread stays linked into the list it comes from.
MoveWithoutUnlink(ls, t, dst, pr) == Push(ls, dst, t, pr)

MoveThread(ls, t, dst, pr) == Push(Unlink(ls, loc[t], t), dst, t, pr)

\* Mutant: the reason of the block is not reset.
WakeKeepsReason(ls, t, pr) ==
    /\ state' = [state EXCEPT ![t] = "READY"]
    /\ lists' = Push(ls, "ready", t, pr)
    /\ loc' = [loc EXCEPT ![t] = "ready"]
    /\ pendSV' = (pendSV \/ pr[t] > pr[Running])
    /\ UNCHANGED reason

\* Mutant: no switch is requested for a thread of higher priority.
WakeQuietly(ls, t, pr) ==
    /\ state' = [state EXCEPT ![t] = "READY"]
    /\ reason' = [reason EXCEPT ![t] = "NONE"]
    /\ lists' = Push(ls, "ready", t, pr)
    /\ loc' = [loc EXCEPT ![t] = "ready"]
    /\ UNCHANGED pendSV

\* Wakes thread t, already unlinked from its wait list in ls.
WakeThread(ls, t, pr) ==
    /\ state' = [state EXCEPT ![t] = "READY"]
    /\ reason' = [reason EXCEPT ![t] = "NONE"]
    /\ lists' = Push(ls, "ready", t, pr)
    /\ loc' = [loc EXCEPT ![t] = "ready"]
    /\ pendSV' = (pendSV \/ pr[t] > pr[Running])

\* Mutant: the switch that takes the thread off the CPU is not requested.
BlockQuietly(t, waitList, why) ==
    /\ state' = [state EXCEPT ![t] = "BLOCKED"]
    /\ reason' = [reason EXCEPT ![t] = why]
    /\ loc' = [loc EXCEPT ![t] = waitList]
    /\ UNCHANGED pendSV

\* Marks thread t blocked.  It stays in the running list until PendSV: only
\* its TCB already names the list it is about to move into.
BlockThread(t, waitList, why) ==
    /\ state' = [state EXCEPT ![t] = "BLOCKED"]
    /\ reason' = [reason EXCEPT ![t] = why]
    /\ loc' = [loc EXCEPT ![t] = waitList]
    /\ pendSV' = TRUE

----------------------------------------------------------------------------
(* Bring-up: xrt_kernel_init, then threads, then xrt_kernel_start, which   *)
(* runs in main with interrupts enabled.                                   *)

KernelInit ==
    /\ lists = [l \in ListName |-> IF l = "ready" THEN <<Idle>> ELSE <<>>]
    /\ loc = [t \in Thread |-> IF t = Idle THEN "ready" ELSE NoList]
    /\ state = [t \in Thread |-> "READY"]
    /\ reason = [t \in Thread |-> "NONE"]
    /\ prio = BasePriority
    /\ wakeTick = [t \in Thread |-> 0]
    /\ pendSV = FALSE /\ switching = FALSE /\ started = FALSE /\ firstCS = FALSE
    /\ cpu = Main /\ boot = "create"
    /\ inTick = FALSE /\ scan = <<>>

ThreadCreate(t) ==
    /\ boot = "create"
    /\ loc[t] = NoList
    /\ BasePriority[t] < MAX_NUM_OF_PRIORITY
    /\ Cardinality(Created) < MaxNumOfThread
    /\ lists' = Push(lists, "ready", t, BasePriority)
    /\ loc' = [loc EXCEPT ![t] = "ready"]
    /\ state' = [state EXCEPT ![t] = "READY"]
    /\ reason' = [reason EXCEPT ![t] = "NONE"]
    /\ prio' = [prio EXCEPT ![t] = BasePriority[t]]
    /\ wakeTick' = [wakeTick EXCEPT ![t] = 0]
    /\ UNCHANGED <<pendSV, switching, cpu, bringUp, tick>>

\* Main goes on only while no exception is pending or active.
InMain == cpu = Main /\ ~pendSV /\ ~switching /\ ~inTick

\* Mutant: the picked thread's TCB still says it is ready.
PickWithoutState ==
    /\ InMain /\ boot = "create" /\ lists["ready"] # <<>>
    /\ LET t == Head(lists["ready"])
       IN  /\ lists' = MoveThread(lists, t, "running", prio)
           /\ loc' = [loc EXCEPT ![t] = "running"]
    /\ boot' = "picked"
    /\ UNCHANGED <<state, reason, prio, wakeTick, pendSV, switching, started, firstCS, cpu, tick>>

StartPick ==
    /\ InMain /\ boot = "create" /\ lists["ready"] # <<>>
    /\ LET t == Head(lists["ready"])
       IN  /\ lists' = MoveThread(lists, t, "running", prio)
           /\ loc' = [loc EXCEPT ![t] = "running"]
           /\ state' = [state EXCEPT ![t] = "RUNNING"]
    /\ boot' = "picked"
    /\ UNCHANGED <<reason, prio, wakeTick, pendSV, switching, started, firstCS, cpu, tick>>

StartArmFirstSwitch ==
    /\ InMain /\ boot = "picked"
    /\ firstCS' = TRUE
    /\ boot' = "armed"
    /\ UNCHANGED <<placement, prio, wakeTick, pendSV, switching, started, cpu, tick>>

StartGo ==
    /\ InMain /\ boot = "armed"
    /\ started' = TRUE
    /\ boot' = "started"
    /\ UNCHANGED <<placement, prio, wakeTick, pendSV, switching, firstCS, cpu, tick>>

StartRequestSwitch ==
    /\ InMain /\ boot = "started"
    /\ pendSV' = TRUE
    /\ boot' = "done"
    /\ UNCHANGED <<placement, prio, wakeTick, switching, started, firstCS, cpu, tick>>

\* Mutant: the kernel is declared started before the first switch is armed.
StartedFirst ==
    \/ StartPick \/ StartRequestSwitch
    \/ /\ InMain /\ boot = "picked"
       /\ started' = TRUE /\ boot' = "armed"
       /\ UNCHANGED <<placement, prio, wakeTick, pendSV, switching, firstCS, cpu, tick>>
    \/ /\ InMain /\ boot = "armed"
       /\ firstCS' = TRUE /\ boot' = "started"
       /\ UNCHANGED <<placement, prio, wakeTick, pendSV, switching, started, cpu, tick>>

StartStep == StartPick \/ StartArmFirstSwitch \/ StartGo \/ StartRequestSwitch

----------------------------------------------------------------------------
(* The context switch. *)

\* Mutants: the priorities are not looked at; the blocked state is not; a thread
\* does not make room for its equals.
KeepsOnlyAlone == lists["ready"] = <<>>

KeepsThoughBlocked ==
    \/ lists["ready"] = <<>>
    \/ prio[Running] > prio[Head(lists["ready"])]

KeepsFromEquals ==
    \/ lists["ready"] = <<>>
    \/ /\ state[Running] # "BLOCKED"
       /\ prio[Running] >= prio[Head(lists["ready"])]

\* The outgoing thread keeps the CPU: nobody else is runnable, or it is
\* runnable and nobody else has its priority or a higher one.
KeepsCpu ==
    \/ lists["ready"] = <<>>
    \/ /\ state[Running] # "BLOCKED"
       /\ prio[Running] > prio[Head(lists["ready"])]

\* Mutants: the outgoing thread stays in the running list; one that could go on
\* is not put back among the ready ones.
StaysLinked(dst) == Push(lists, dst, Running, prio)

Forgotten(dst) ==
    IF dst = "ready" THEN Unlink(lists, "running", Running)
    ELSE Push(Unlink(lists, "running", Running), dst, Running, prio)

\* The lists when the outgoing thread went from the running list to dst.
SwitchedOut(dst) == Push(Unlink(lists, "running", Running), dst, Running, prio)

Schedule ==
    LET out == Running
        in  == Head(lists["ready"])
        dst == IF state[out] = "BLOCKED" THEN loc[out] ELSE "ready"
    IN  IF KeepsCpu THEN UNCHANGED <<lists, loc, state>>
        ELSE /\ lists' = MoveThread(SwitchedOut(dst), in, "running", prio)
             /\ loc' = [loc EXCEPT ![out] = dst, ![in] = "running"]
             /\ state' = [state EXCEPT ![out] = IF @ = "BLOCKED" THEN @ ELSE "READY",
                                       ![in] = "RUNNING"]

\* Entry of PendSV_Handler clears the pending bit.  Until the handler raises
\* BASEPRI an interrupt can still come, and pend the switch again.
PendSVEnter ==
    /\ pendSV /\ ~switching /\ ~inTick
    /\ pendSV' = FALSE
    /\ switching' = TRUE
    /\ UNCHANGED <<placement, prio, wakeTick, cpu, bringUp, tick>>

\* The first switch has no context to save and nothing to reschedule.
PendSVFirst ==
    /\ switching /\ firstCS /\ ~inTick
    /\ switching' = FALSE
    /\ firstCS' = FALSE
    /\ cpu' = Running
    /\ UNCHANGED <<placement, prio, wakeTick, pendSV, started, boot, tick>>

PendSVSwitch ==
    /\ switching /\ ~firstCS /\ ~inTick
    /\ switching' = FALSE
    /\ Schedule
    /\ cpu' = Head(lists'["running"])
    /\ UNCHANGED <<reason, prio, wakeTick, pendSV, bringUp, tick>>

SwitchStep == PendSVFirst \/ PendSVSwitch

----------------------------------------------------------------------------
(* The tick: xrt_kernel_check_sleeping_threads, in a critical section. *)

TickBegin ==
    /\ started /\ ~inTick
    /\ inTick' = TRUE
    /\ scan' = lists["stopped"]
    /\ UNCHANGED <<placement, prio, wakeTick, pendSV, switching, cpu, bringUp>>

Sleeping(t) == reason[t] = "OS_DELAY" /\ wakeTick[t] > 0

\* For the mutant: the k threads that follow t in the ring of l.
Following(l, t, k) ==
    LET at == CHOOSE i \in 1..Len(l) : l[i] = t
    IN  [i \in 1..k |-> l[((at + i - 1) % Len(l)) + 1]]

\* Mutant: the thread after the visited one is read when that one may have moved,
\* so the scan goes on in the ready list.
TickVisitLate ==
    /\ inTick /\ scan # <<>>
    /\ LET t == Head(scan)
           woken == Sleeping(t) /\ wakeTick[t] = 1
       IN  /\ wakeTick' = IF Sleeping(t) THEN [wakeTick EXCEPT ![t] = @ - 1] ELSE wakeTick
           /\ \/ /\ ~woken
                 /\ scan' = Tail(scan)
                 /\ UNCHANGED placement
              \/ /\ woken
                 /\ reason' = [reason EXCEPT ![t] = "NONE"]
                 /\ state' = [state EXCEPT ![t] = "READY"]
                 /\ lists' = MoveThread(lists, t, "ready", prio)
                 /\ loc' = [loc EXCEPT ![t] = "ready"]
                 /\ scan' = Following(lists'["ready"], t, Len(scan) - 1)
    /\ UNCHANGED <<prio, pendSV, switching, cpu, bringUp, inTick>>

\* One round of the loop.  `scan' is what is left of the ring from the next thread
\* on: the code reads that one before it moves the visited thread away, and while
\* the tick runs nobody else moves any.
TickVisit ==
    /\ inTick /\ scan # <<>>
    /\ scan' = Tail(scan)
    /\ LET t == Head(scan)
       IN  \/ /\ ~Sleeping(t)
              /\ UNCHANGED <<placement, wakeTick>>
           \/ /\ Sleeping(t)
              /\ wakeTick' = [wakeTick EXCEPT ![t] = @ - 1]
              /\ wakeTick[t] > 1
              /\ UNCHANGED placement
           \/ /\ Sleeping(t)
              /\ wakeTick' = [wakeTick EXCEPT ![t] = @ - 1]
              /\ wakeTick[t] = 1
              /\ reason' = [reason EXCEPT ![t] = "NONE"]
              /\ state' = [state EXCEPT ![t] = "READY"]
              /\ lists' = MoveThread(lists, t, "ready", prio)
              /\ loc' = [loc EXCEPT ![t] = "ready"]
    /\ UNCHANGED <<prio, pendSV, switching, cpu, bringUp, inTick>>

\* Mutant: the tick does not request a switch.
TickEndQuietly ==
    /\ inTick /\ scan = <<>>
    /\ inTick' = FALSE
    /\ UNCHANGED <<placement, prio, wakeTick, pendSV, switching, cpu, bringUp, scan>>

TickEnd ==
    /\ inTick /\ scan = <<>>
    /\ inTick' = FALSE
    /\ pendSV' = TRUE
    /\ UNCHANGED <<placement, prio, wakeTick, switching, cpu, bringUp, scan>>
=============================================================================
