---------------------------- MODULE XrtInvariant ----------------------------
(***************************************************************************)
(* The inductive invariant behind the safety properties of the kernel.     *)
(***************************************************************************)
EXTENDS XrtProperties

\* How far bring-up is, and who can be on the CPU then.
Phase ==
    /\ firstCS <=> cpu = Main /\ boot \in {"armed", "started", "done"}
    /\ started <=> boot \in {"started", "done"}
    /\ boot = "create" => prio = BasePriority
    /\ ~started => cpu = Main /\ ~SwitchDue /\ ~inTick
    /\ cpu = Main => \A t \in Thread : loc[t] \in {NoList, "ready", "running"}
    /\ cpu # Main => cpu = Running

\* A pending supervisor call belongs to the running thread.
CallPending ==
    svc # NoCall =>
       /\ boot # "create" /\ cpu = Running
       /\ Running # Idle /\ state[Running] = "RUNNING" /\ ~switching

\* A thread that is blocked and still runs is about to be switched out.
BlockedIsLeaving ==
    boot # "create" /\ state[Running] = "BLOCKED" => SwitchDue /\ svc = NoCall

\* What the tick still has to visit are sleeping threads, each once.
ScanSleeps ==
    /\ IsInjective(scan)
    /\ \A t \in ToSet(scan) : inTick /\ loc[t] = "stopped" /\ Seat(t) = "stopped"

\* The idle thread makes no calls, so it is always runnable.
IdleRunnable == loc[Idle] \in {"ready", "running"}

\* TCBs that name the running list are the running thread's.
RunningNamed ==
    \A t \in Thread :
       /\ loc[t] = "running" => lists["running"] = <<t>>
       /\ lists["running"] = <<t>> =>
             loc[t] # NoList /\ (state[t] = "BLOCKED" \/ loc[t] = "running")

OwnersCreated == \A m \in Mutex : owner[m] # Null => owner[m] \in Created

\* As committed, nobody's priority ever differs.
Uniform == AnchorIsNode \/ prio = BasePriority

IInv ==
    /\ TypeOK
    /\ Seated /\ OneRuns /\ RunningNamed /\ Sorted /\ StateAgrees
    /\ Phase /\ CallPending /\ BlockedIsLeaving /\ ScanSleeps /\ IdleRunnable
    /\ OwnersCreated /\ WaitersHaveOwner /\ PriorityRestored /\ Uniform
=============================================================================
