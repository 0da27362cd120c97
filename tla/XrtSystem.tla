----------------------------- MODULE XrtSystem -----------------------------
(***************************************************************************)
(* The whole kernel under a general client.  The threads call the          *)
(* primitives in any order, interrupt handlers release semaphores at any   *)
(* moment, the tick comes at any moment once main enabled it.  The         *)
(* exceptions of the Cortex-M4 port preempt one another by priority:       *)
(* SysTick and device interrupts come first; the supervisor call and       *)
(* PendSV share the lowest priority, and of the two the call is taken      *)
(* first.  Critical sections mask them all, so each is one step, but the   *)
(* gaps are real: a tick or an interrupt comes between the SVC instruction *)
(* and its critical section, between that and PendSV, and between the      *)
(* entry of PendSV and the rescheduling.                                   *)
(***************************************************************************)
EXTENDS XrtSemaphore, XrtMutex

CONSTANTS
    IsrSemaphore,   \* the semaphores interrupt handlers release
    MaxDelay        \* the longest delay a thread asks for

ASSUME SystemAssumption ==
    /\ IsrSemaphore \subseteq Semaphore
    /\ MaxDelay \in Nat

VARIABLE svc        \* the supervisor call raised and not yet dispatched

NoCall == [op |-> "NONE", arg |-> 0]

\* The calls a thread makes; a delay of zero ticks is a yield.
Calls ==
    [op : {"MUTEX_LOCK", "MUTEX_UNLOCK"}, arg : Mutex]
      \cup [op : {"SEMAPHORE_TAKE", "SEMAPHORE_RELEASE"}, arg : Semaphore]
      \cup [op : {"THREAD_YIELD"}, arg : {0}]
      \cup [op : {"OS_DELAY"}, arg : 1..MaxDelay]

vars == <<kernelVars, value, owner, svc>>
primitives == <<value, owner>>

TypeOK == KernelTypeOK /\ SemaphoreTypeOK /\ MutexTypeOK /\ svc \in Calls \cup {NoCall}

Init == KernelInit /\ SemaphoreInit /\ MutexInit /\ svc = NoCall

----------------------------------------------------------------------------
\* The running thread executes an SVC instruction.
Raise(c) ==
    /\ cpu \in Thread \ {Idle}
    /\ ~pendSV /\ ~switching /\ ~inTick /\ svc = NoCall
    /\ svc' = c
    /\ UNCHANGED <<kernelVars, primitives>>

\* What a call does for the thread t that made it.
LockCall(t) ==
    /\ svc.op = "MUTEX_LOCK"
    /\ MutexLockFromSvc(svc.arg, t)
    /\ UNCHANGED <<value, wakeTick>>

UnlockCall(t) ==
    /\ svc.op = "MUTEX_UNLOCK"
    /\ MutexUnlockFromSvc(svc.arg, t)
    /\ UNCHANGED <<value, wakeTick>>

TakeCall(t) ==
    /\ svc.op = "SEMAPHORE_TAKE"
    /\ TakeFromSvc(svc.arg, t)
    /\ UNCHANGED <<owner, prio, wakeTick>>

ReleaseCall ==
    /\ svc.op = "SEMAPHORE_RELEASE"
    /\ SignalLocked(svc.arg, value)
    /\ UNCHANGED <<owner, prio, wakeTick>>

YieldCall ==
    /\ svc.op = "THREAD_YIELD"
    /\ pendSV' = TRUE
    /\ UNCHANGED <<placement, primitives, prio, wakeTick>>

DelayCall(t) ==
    /\ svc.op = "OS_DELAY"
    /\ wakeTick' = [wakeTick EXCEPT ![t] = svc.arg]
    /\ BlockThread(t, "stopped", "OS_DELAY")
    /\ UNCHANGED <<lists, primitives, prio>>

\* xrt_system_calls_dispatch: the caller is the head of the running list.
Dispatch ==
    /\ svc # NoCall /\ ~inTick
    /\ svc' = NoCall
    /\ \/ LockCall(Running) \/ UnlockCall(Running)
       \/ TakeCall(Running) \/ ReleaseCall
       \/ YieldCall \/ DelayCall(Running)
    /\ UNCHANGED <<switching, cpu, bringUp, tick>>

\* An interrupt handler releases a semaphore.  Its device is on once the
\* application is initialised, which may be before the kernel runs.
IsrRelease(s) ==
    /\ boot # "create" /\ ~inTick
    /\ SignalLocked(s, value)
    /\ UNCHANGED <<owner, svc, prio, wakeTick, switching, cpu, bringUp, tick>>

KernelStep ==
    /\ \/ \E t \in Thread : ThreadCreate(t)
       \/ StartStep
       \/ TickBegin \/ TickVisit \/ TickEnd
       \/ svc = NoCall /\ PendSVEnter
       \/ SwitchStep
    /\ UNCHANGED <<primitives, svc>>

Next ==
    \/ KernelStep
    \/ \E c \in Calls : Raise(c)
    \/ Dispatch
    \/ \E s \in IsrSemaphore : IsrRelease(s)

Spec == Init /\ [][Next]_vars

\* A client whose threads hold one mutex at a time: each is given back before the
\* next is locked.
SingleLock == svc.op = "MUTEX_LOCK" => \A m \in Mutex : owner[m] = cpu => m = svc.arg

SingleLockSpec == Init /\ [][Next /\ SingleLock']_vars

(***************************************************************************)
(* Fairness.  Main is straight-line code.  SysTick keeps coming.  The      *)
(* handlers finish, and since they take less than a tick period together,  *)
(* a pending supervisor call or switch is not put off by ticks forever     *)
(* (strong fairness).  Threads and devices owe nothing.                    *)
(***************************************************************************)
Within(A) == A /\ UNCHANGED <<primitives, svc>>

Fairness ==
    /\ WF_vars(Within(StartStep))
    /\ WF_vars(Within(TickBegin))
    /\ WF_vars(Within(TickVisit))
    /\ WF_vars(Within(TickEnd))
    /\ SF_vars(Within(svc = NoCall /\ PendSVEnter))
    /\ SF_vars(Within(SwitchStep))
    /\ SF_vars(Dispatch)

FairSpec == Spec /\ Fairness
=============================================================================
