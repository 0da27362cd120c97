------------------------------ MODULE XrtMutex ------------------------------
(***************************************************************************)
(* The mutexes of xrt_mutex.c: ownership, priority inheritance and         *)
(* hand-off.  Both operations run inside the supervisor call.              *)
(***************************************************************************)
EXTENDS XrtKernel

\* mutex_owner of a mutex nobody holds.
Null == "null"

ASSUME MutexAssumption == Null \notin Thread

VARIABLE owner   \* mutex_owner

MutexTypeOK == owner \in [Mutex -> Thread \cup {Null}]

MutexInit == owner = [m \in Mutex |-> Null]

\* Puts thread t back into its list by the priorities pr.
ReorderThread(t, pr) == MoveThread(lists, t, loc[t], pr)

\* Mutants: the owner is not moved; a delayed owner is not boosted; an owner of the
\* caller's own priority is moved too.
BoostInPlace(o, t) ==
    /\ prio' = [prio EXCEPT ![o] = IF prio[t] > @ THEN prio[t] ELSE @]
    /\ UNCHANGED lists

BoostUnlessDelayed(o, t) ==
    LET pr == [prio EXCEPT ![o] = prio[t]]
    IN  IF prio[t] > prio[o] /\ loc[o] # "stopped"
        THEN prio' = pr /\ lists' = ReorderThread(o, pr)
        ELSE UNCHANGED <<prio, lists>>

BoostEquals(o, t) ==
    LET pr == [prio EXCEPT ![o] = prio[t]]
    IN  IF prio[t] >= prio[o]
        THEN prio' = pr /\ lists' = IF loc[o] = "stopped" THEN lists ELSE ReorderThread(o, pr)
        ELSE UNCHANGED <<prio, lists>>

(***************************************************************************)
(* Lock by thread t.  A taken mutex lends the owner t's priority if that   *)
(* is higher, moving the owner within its list unless it is delayed, and   *)
(* marks t as a waiter.  Locking a mutex one already holds does nothing.   *)
(***************************************************************************)
Boost(o, t) ==
    LET pr == [prio EXCEPT ![o] = prio[t]]
    IN  \/ /\ prio[t] > prio[o]
           /\ prio' = pr
           /\ lists' = IF loc[o] = "stopped" THEN lists ELSE ReorderThread(o, pr)
        \/ /\ prio[t] <= prio[o]
           /\ UNCHANGED <<prio, lists>>

MutexLockFromSvc(m, t) ==
    \/ /\ owner[m] = t
       /\ UNCHANGED <<placement, prio, pendSV, owner>>
    \/ /\ owner[m] = Null
       /\ owner' = [owner EXCEPT ![m] = t]
       /\ UNCHANGED <<placement, prio, pendSV>>
    \/ /\ owner[m] \notin {t, Null}
       /\ Boost(owner[m], t)
       /\ BlockThread(t, m, "BLOCK_MUTEX")
       /\ UNCHANGED owner

\* Mutant: the lent priority is kept.
NotRestored(t) == prio

\* What the unlocking owner t goes back to.
RestoredPriority(t) ==
    [prio EXCEPT ![t] = IF @ > BasePriority[t] THEN BasePriority[t] ELSE @]

\* Mutant: the mutex is left free for whoever asks next.
HandToNobody(m, pr) ==
    LET w == Head(lists[m])
    IN  WakeThread(Unlink(lists, m, w), w, pr) /\ owner' = [owner EXCEPT ![m] = Null]

\* The mutex goes straight to the head waiter, by the priorities pr.
HandOver(m, pr) ==
    LET w == Head(lists[m])
    IN  WakeThread(Unlink(lists, m, w), w, pr) /\ owner' = [owner EXCEPT ![m] = w]

\* Mutant: anybody's unlock counts.
UnlockUnchecked(m, t) ==
    /\ prio' = RestoredPriority(t)
    /\ \/ lists[m] # <<>> /\ HandOver(m, prio')
       \/ /\ lists[m] = <<>>
          /\ owner' = [owner EXCEPT ![m] = Null]
          /\ UNCHANGED <<placement, pendSV>>

\* Unlock by thread t; only the owner's call has an effect.
MutexUnlockFromSvc(m, t) ==
    \/ /\ owner[m] # t
       /\ UNCHANGED <<placement, prio, pendSV, owner>>
    \/ /\ owner[m] = t
       /\ prio' = RestoredPriority(t)
       /\ \/ lists[m] # <<>> /\ HandOver(m, prio')
          \/ /\ lists[m] = <<>>
             /\ owner' = [owner EXCEPT ![m] = Null]
             /\ UNCHANGED <<placement, pendSV>>
=============================================================================
