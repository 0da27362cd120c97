-------------------------- MODULE SemaphoreContract --------------------------
(***************************************************************************)
(* What a semaphore promises its callers (xrt_semaphore.h).  A take is     *)
(* given an available token, or its caller waits.  A release serves the    *)
(* waiter of the highest priority if there is one and adds a token, up to  *)
(* the ceiling, only if there is none.  A call that is over has done one   *)
(* of these; nothing happens without a call.                               *)
(***************************************************************************)
EXTENDS Naturals

CONSTANTS Initial, Ceiling

VARIABLES
    available,   \* the tokens
    waiting,     \* the threads that asked for one in vain
    pending,     \* the call that was made and has not taken effect
    caller,      \* the thread that calls (not changed here)
    level        \* the threads' priorities (not changed here)

Init == available = Initial /\ waiting = {} /\ pending = "NONE"

Ask ==
    /\ pending = "NONE"
    /\ pending' \in {"SEMAPHORE_TAKE", "SEMAPHORE_RELEASE"}
    /\ UNCHANGED <<available, waiting>>

Answer(call) == pending = call /\ pending' = "NONE"

Take ==
    /\ Answer("SEMAPHORE_TAKE")
    /\ available > 0
    /\ available' = available - 1
    /\ UNCHANGED waiting

Wait ==
    /\ Answer("SEMAPHORE_TAKE")
    /\ available = 0 /\ caller \notin waiting
    /\ waiting' = waiting \cup {caller}
    /\ UNCHANGED available

Put ==
    /\ Answer("SEMAPHORE_RELEASE")
    /\ waiting = {}
    /\ available' = IF available < Ceiling THEN available + 1 ELSE available
    /\ UNCHANGED waiting

Serve ==
    /\ Answer("SEMAPHORE_RELEASE")
    /\ \E t \in waiting :
          /\ \A u \in waiting : level[u] <= level[t]
          /\ waiting' = waiting \ {t}
    /\ UNCHANGED available

Next == Ask \/ Take \/ Wait \/ Put \/ Serve

Spec == Init /\ [][Next]_<<available, waiting, pending>>
=============================================================================
