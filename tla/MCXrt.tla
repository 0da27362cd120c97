------------------------------- MODULE MCXrt -------------------------------
(* Instances of the kernel for TLC: the idle thread and up to three more.  *)
EXTENDS XrtInvariant

TwoThreads == {"idle", "t1", "t2"}
ThreeThreads == {"idle", "t1", "t2", "t3"}

Rank == [idle |-> 0, t1 |-> 1, t2 |-> 2, t3 |-> 3]

\* One priority per thread, as XRT_MAX_NUM_OF_THREAD and the four priorities allow.
Distinct == [t \in Thread |-> Rank[t]]
\* Two equals below a third.
PairAndOne == [t \in Thread |-> IF t = "idle" THEN 0 ELSE IF t = "t3" THEN 3 ELSE 2]
\* Everybody at the idle thread's priority.
AllIdle == [t \in Thread |-> 0]
\* The application's threads: all at MEDIUM_PRIORITY.
AllMedium == [t \in Thread |-> IF t = "idle" THEN 0 ELSE 2]

Zeros == [s \in Semaphore |-> 0]
Ones == [s \in Semaphore |-> 1]
\* A counter at the end of its sixteen bits.
Full16 == [s \in Semaphore |-> UINT16_MAX]
=============================================================================
