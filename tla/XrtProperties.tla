--------------------------- MODULE XrtProperties ---------------------------
(***************************************************************************)
(* What the kernel of module XrtSystem owes its threads.                   *)
(***************************************************************************)
EXTENDS XrtSystem

\* A switch is requested or under way.
SwitchDue == pendSV \/ switching

\* The threads that wait for primitive p, the one about to be queued included.
WaitersOf(p) == {t \in Thread : loc[t] = p}

----------------------------------------------------------------------------
(* Placement: the lists and the TCBs tell the same story. *)

\* The list thread t is linked into.  Between the call that blocks a thread and
\* PendSV its TCB already names the next list, and the thread still runs.
Seat(t) ==
    IF state[t] = "BLOCKED" /\ lists["running"] = <<t>> THEN "running" ELSE loc[t]

\* Every created thread is linked into exactly one list, once, and no list
\* holds anybody else: no primitive, tick or switch loses or duplicates a thread
\* (xrt_kernel_move_thread, wake_thread, block_thread, schedule).
Seated ==
    \A l \in ListName :
       /\ IsInjective(lists[l])
       /\ ToSet(lists[l]) = {t \in Thread : Seat(t) = l}

\* Exactly one thread runs from the moment xrt_kernel_start picked one; the
\* handlers dereference running_list.head without a test.
OneRuns == Len(lists["running"]) = IF boot = "create" THEN 0 ELSE 1

\* The ready list and every wait list stay in priority order, whatever is boosted
\* or restored meanwhile: waking the head wakes the best waiter.
Sorted == \A l \in ListName \ {"stopped"} : Ordered(lists[l], prio)

\* state, blocked_reason, wake_tick and currently_located_list of a TCB agree.
StateAgrees ==
    \A t \in Created :
       /\ loc[t] = "ready" => state[t] = "READY" /\ reason[t] = "NONE"
       /\ loc[t] = "running" =>
             reason[t] = "NONE" /\ state[t] = IF boot = "create" THEN "READY" ELSE "RUNNING"
       /\ loc[t] = "stopped" =>
             state[t] = "BLOCKED" /\ reason[t] = "OS_DELAY" /\ wakeTick[t] > 0
       /\ loc[t] \in Semaphore => state[t] = "BLOCKED" /\ reason[t] = "BLOCK_SEMAPHORE"
       /\ loc[t] \in Mutex => state[t] = "BLOCKED" /\ reason[t] = "BLOCK_MUTEX"

\* Somebody can take over whenever the running thread is blocked: the early
\* return of xrt_kernel_schedule never leaves a blocked thread on the CPU.
SomebodyRunnable ==
    boot # "create" /\ state[Running] = "BLOCKED" => lists["ready"] # <<>>

----------------------------------------------------------------------------
(* The switch. *)

\* A switch saves the registers of the thread whose TCB receives them, and a
\* supervisor call is served on behalf of the thread that made it.  Before the
\* first switch there is nothing to save: a tick between the steps of
\* xrt_kernel_start must not make PendSV save main's registers into a thread.
RightThread ==
    /\ SwitchDue => firstCS \/ cpu = Running
    /\ svc # NoCall => cpu = Running /\ state[Running] = "RUNNING" /\ ~switching
    /\ cpu # Main => cpu = Running

\* Unless a switch is due, no ready thread has a higher priority than the one
\* that runs: no wake-up, boost or restore forgets to request the switch.
HighestRuns ==
    cpu # Main /\ ~SwitchDue /\ ~inTick =>
       \A t \in Thread : loc[t] = "ready" => prio[t] <= prio[Running]

\* A switch takes the CPU from a thread that could go on only for a thread of
\* the same or a higher priority.
NeverYieldsDown ==
    [][cpu # Main /\ cpu' # cpu =>
          state[cpu] = "BLOCKED" \/ prio[cpu'] >= prio[cpu]]_vars

\* Threads of one priority stay in their order while they share a list: nothing
\* but leaving the list lets one overtake another.
Precedes(s, a, b) == \E i, j \in 1..Len(s) : i < j /\ s[i] = a /\ s[j] = b

NoOvertaking ==
    [][\A l \in ListName : \A a, b \in ToSet(lists[l]) :
          /\ Precedes(lists[l], a, b)
          /\ prio[a] = prio[b]
          /\ prio'[a] = prio[a] /\ prio'[b] = prio[b]
          => ~Precedes(lists'[l], b, a)]_vars

----------------------------------------------------------------------------
(* The primitives. *)

\* A mutex with waiters has an owner, and nobody waits for what it owns.
WaitersHaveOwner ==
    \A m \in Mutex : \A t \in WaitersOf(m) : owner[m] \in Created \ {t}

\* The owner of a mutex runs at least at the base priority of every waiter.
Inheritance ==
    \A m \in Mutex : \A t \in WaitersOf(m) : prio[owner[m]] >= BasePriority[t]

\* A thread that owns no mutex is back at its base priority; none ever is below.
PriorityRestored ==
    \A t \in Thread :
       /\ prio[t] >= BasePriority[t]
       /\ prio[t] > BasePriority[t] => \E m \in Mutex : owner[m] = t

\* Nobody waits for a token that is there, where only threads release: a waiter
\* is linked in before any other thread can release (block_thread, schedule).
NoIdleToken ==
    \A s \in Semaphore \ IsrSemaphore : WaitersOf(s) # {} => value[s] = 0

\* Tokens only grow up to the ceiling, and only a take consumes one: a release
\* past the ceiling is dropped, whatever the width of the counter.
TokensOnlyTaken ==
    [][\A s \in Semaphore :
          /\ value'[s] <= MaxValue[s]
          /\ value'[s] < value[s] =>
                svc = [op |-> "SEMAPHORE_TAKE", arg |-> s] /\ svc' = NoCall]_vars

\* The supervisor call about primitive p that was raised and not yet dispatched.
Asked(p, ops) == IF svc.op \in ops /\ svc.arg = p THEN svc.op ELSE "NONE"

SemaphoreCalls == {"SEMAPHORE_TAKE", "SEMAPHORE_RELEASE"}
MutexCalls == {"MUTEX_LOCK", "MUTEX_UNLOCK"}

\* Each semaphore that no interrupt handler releases does what its header
\* promises, call by call: a take gets a token or waits, a token given back goes to
\* the best waiter, to the counter or over the ceiling, never to two of them and,
\* below the ceiling, never to none; without a call nothing happens.
Contract(s) ==
    INSTANCE SemaphoreContract WITH
        Initial <- InitialValue[s], Ceiling <- MaxValue[s],
        available <- value[s], waiting <- WaitersOf(s),
        pending <- Asked(s, SemaphoreCalls), caller <- cpu, level <- prio

SemaphoreContracts ==
    /\ \A s \in Semaphore \ IsrSemaphore : Contract(s)!Init
    /\ [][\A s \in Semaphore \ IsrSemaphore :
             [Contract(s)!Next]_<<value[s], WaitersOf(s), Asked(s, SemaphoreCalls)>>]_vars

\* Each mutex does what its header promises, call by call: a lock is granted or
\* waits, an unlock by the owner frees it or hands it to the best waiter, and a
\* foreign unlock does nothing.
Exclusion(m) ==
    INSTANCE MutexContract WITH
        Nobody <- Null,
        holder <- owner[m], waiting <- WaitersOf(m),
        pending <- Asked(m, MutexCalls), caller <- cpu, level <- prio

MutexContracts ==
    /\ \A m \in Mutex : Exclusion(m)!Init
    /\ [][\A m \in Mutex :
             [Exclusion(m)!Next]_<<owner[m], WaitersOf(m), Asked(m, MutexCalls)>>]_vars

----------------------------------------------------------------------------
(* What eventually happens, under the fairness of XrtSystem. *)

\* A delay ends, although a tick in the window between the call and PendSV does
\* not count it and the scan runs while threads leave the list it scans.
DelayExpires == \A t \in Thread : reason[t] = "OS_DELAY" ~> reason[t] = "NONE"

\* A thread that blocked itself gets off the CPU.
BlockedLeavesCpu == \A t \in Thread : (state[t] = "BLOCKED" /\ cpu = t) ~> cpu # t

\* A ready thread of the highest priority there is gets the CPU: at once if it is
\* alone there, in turn if it has equals.
TurnComes ==
    \A t \in Thread :
       (\A u \in Thread : BasePriority[u] <= BasePriority[t]) =>
          (loc[t] = "ready" ~> cpu = t)
=============================================================================
