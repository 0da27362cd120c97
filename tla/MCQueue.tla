------------------------------ MODULE MCQueue ------------------------------
(* Instances of a queue between threads for TLC. *)
EXTENDS XrtQueue, MCXrt

\* The semaphores of a queue of BlockCount blocks.
QueueTokens == [s \in Semaphore |-> IF s = "write" THEN BlockCount ELSE 0]
QueueCeilings == [s \in Semaphore |-> BlockCount]
=============================================================================
