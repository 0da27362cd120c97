---------------------------- MODULE XrtSemaphore ----------------------------
(***************************************************************************)
(* The counting semaphores of xrt_semaphore.c.  Both operations run in a   *)
(* critical section: take and release in the supervisor call, release also *)
(* in an interrupt handler.                                                *)
(***************************************************************************)
EXTENDS XrtKernel

CONSTANTS
    InitialValue,   \* semaphore -> initial_value given to xrt_semaphore_init
    MaxValue        \* semaphore -> max_value given to xrt_semaphore_init

UINT16_MAX == 65535

\* What xrt_semaphore_init accepts; a semaphore it refuses is never used.
ASSUME SemaphoreAssumption ==
    /\ InitialValue \in [Semaphore -> 0..UINT16_MAX]
    /\ MaxValue \in [Semaphore -> 1..UINT16_MAX]
    /\ \A s \in Semaphore : InitialValue[s] <= MaxValue[s]

VARIABLE value   \* semaphore_value

SemaphoreTypeOK == value \in [Semaphore -> 0..UINT16_MAX]

SemaphoreInit == value = InitialValue

\* Mutant: the ceiling is not applied.
IncrementedFreely(s) == (value[s] + 1) % (UINT16_MAX + 1)

\* Mutant: the ceiling is applied one token early; the last one goes nowhere.
IncrementedShort(s) == IF value[s] + 1 < MaxValue[s] THEN value[s] + 1 ELSE value[s]

\* The 16-bit increment and the ceiling applied after it.
Incremented(s) ==
    LET v == (value[s] + 1) % (UINT16_MAX + 1)
    IN  IF v > MaxValue[s] THEN MaxValue[s] ELSE v

\* The counters when a token of semaphore s was taken.
Taken(s) == [value EXCEPT ![s] = @ - 1]

\* Mutant: a release that serves a waiter counts too.
SignalAndCount(s, v) ==
    /\ value' = [v EXCEPT ![s] = Incremented(s)]
    /\ \/ /\ lists[s] # <<>>
          /\ WakeThread(Unlink(lists, s, Head(lists[s])), Head(lists[s]), prio)
       \/ lists[s] = <<>> /\ UNCHANGED <<placement, pendSV>>

\* A release goes to the head waiter; the count moves only when there is none.
\* The counters are v when it is called.
SignalLocked(s, v) ==
    \/ /\ lists[s] # <<>>
       /\ WakeThread(Unlink(lists, s, Head(lists[s])), Head(lists[s]), prio)
       /\ value' = v
    \/ /\ lists[s] = <<>>
       /\ value' = [v EXCEPT ![s] = Incremented(s)]
       /\ UNCHANGED <<placement, pendSV>>

\* Mutant: the count is not tested.
TakeUnchecked(s, t) ==
    /\ value' = Taken(s)
    /\ UNCHANGED <<placement, pendSV>>

\* Thread t takes a token, or is marked as a waiter when there is none.
TakeFromSvc(s, t) ==
    \/ /\ value[s] > 0
       /\ value' = Taken(s)
       /\ UNCHANGED <<placement, pendSV>>
    \/ /\ value[s] = 0
       /\ BlockThread(t, s, "BLOCK_SEMAPHORE")
       /\ UNCHANGED <<value, lists>>
=============================================================================
