--------------------------- MODULE XrtThreadLists ---------------------------
(***************************************************************************)
(* The kernel's thread lists as the kernel uses them: sequences of threads *)
(* read from a list's head along the `next' links (module XrtListHeap has  *)
(* the links themselves).  A list is ordered by effective priority when    *)
(* every insertion goes through PushThreadByPriority.                      *)
(***************************************************************************)
EXTENDS Integers, Sequences, SequencesExt

CONSTANT
    AnchorIsNode  \* what xrt_kernel.c:211 hands to cdll_insert_node_before as
                  \* the element to insert before: FALSE, the TCB (the code as
                  \* committed); TRUE, the TCB's list node (the repaired call)

ASSUME AnchorAssumption == AnchorIsNode \in BOOLEAN

(***************************************************************************)
(* Insertion of thread t by the priorities pr: before the first thread of  *)
(* strictly lower priority, at the tail when there is none, so equals keep *)
(* their arrival order.  As committed, the insertion before a thread gets  *)
(* a TCB where a node is expected: it rewrites that TCB's saved stack      *)
(* pointer and leaves the ring read from the head as it was, so t is in no *)
(* list at all (module XrtThreadHeap follows the links).  What the kernel  *)
(* does after that is not modelled: InsertionAssumption of module          *)
(* XrtKernel excludes it.                                                  *)
(***************************************************************************)
PushThreadByPriority(s, t, pr) ==
    LET first == SelectInSeq(s, LAMBDA u : pr[u] < pr[t])
    IN  IF first = 0 THEN Append(s, t)
        ELSE IF AnchorIsNode THEN InsertAt(s, first, t)
        ELSE s

\* The order PushThreadByPriority maintains.
Ordered(s, pr) == \A i, j \in 1..Len(s) : i < j => pr[s[i]] >= pr[s[j]]

(***************************************************************************)
(* The two list operations lifted to the family of all lists, a function   *)
(* from list names to sequences.                                           *)
(***************************************************************************)
Push(ls, l, t, pr) == [ls EXCEPT ![l] = PushThreadByPriority(@, t, pr)]

Unlink(ls, l, t) == [ls EXCEPT ![l] = RemoveFirst(@, t)]
=============================================================================
