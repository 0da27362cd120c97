---------------------------- MODULE MutexContract ----------------------------
(***************************************************************************)
(* What a mutex promises its callers (xrt_mutex.h).  A lock of a free      *)
(* mutex is granted, a lock of a taken one waits, and the holder's own     *)
(* lock changes nothing.  An unlock by the holder frees it, or passes it   *)
(* straight to the waiter of the highest priority, so nobody comes in      *)
(* between; anybody else's unlock changes nothing.                         *)
(***************************************************************************)
EXTENDS Naturals

CONSTANT Nobody

VARIABLES
    holder,    \* the thread that has the mutex
    waiting,   \* the threads that asked for it in vain
    pending,   \* the call that was made and has not taken effect
    caller,    \* the thread that calls (not changed here)
    level      \* the threads' priorities (not changed here)

Init == holder = Nobody /\ waiting = {} /\ pending = "NONE"

Ask ==
    /\ pending = "NONE"
    /\ pending' \in {"MUTEX_LOCK", "MUTEX_UNLOCK"}
    /\ UNCHANGED <<holder, waiting>>

Answer(call) == pending = call /\ pending' = "NONE"

Acquire ==
    /\ Answer("MUTEX_LOCK")
    /\ holder = Nobody
    /\ holder' = caller
    /\ UNCHANGED waiting

LockAgain ==
    /\ Answer("MUTEX_LOCK")
    /\ holder = caller
    /\ UNCHANGED <<holder, waiting>>

Wait ==
    /\ Answer("MUTEX_LOCK")
    /\ holder \notin {caller, Nobody}
    /\ caller \notin waiting
    /\ waiting' = waiting \cup {caller}
    /\ UNCHANGED holder

Free ==
    /\ Answer("MUTEX_UNLOCK")
    /\ holder = caller /\ waiting = {}
    /\ holder' = Nobody
    /\ UNCHANGED waiting

HandOver ==
    /\ Answer("MUTEX_UNLOCK")
    /\ holder = caller
    /\ \E t \in waiting :
          /\ \A u \in waiting : level[u] <= level[t]
          /\ holder' = t
          /\ waiting' = waiting \ {t}

Refuse ==
    /\ Answer("MUTEX_UNLOCK")
    /\ holder # caller
    /\ UNCHANGED <<holder, waiting>>

Next == Ask \/ Acquire \/ LockAgain \/ Wait \/ Free \/ HandOver \/ Refuse

Spec == Init /\ [][Next]_<<holder, waiting, pending>>
=============================================================================
