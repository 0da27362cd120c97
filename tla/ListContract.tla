---------------------------- MODULE ListContract ----------------------------
(***************************************************************************)
(* What xrt_list.h promises: lists are sequences of nodes and a node is in *)
(* at most one of them.  Each operation names its list and its nodes: a    *)
(* new node becomes the last, or goes right before the existing one that   *)
(* is named; the node that is named leaves and the others stay.            *)
(***************************************************************************)
EXTENDS Integers, Sequences, SequencesExt

CONSTANTS List, Node

VARIABLE lists

Unlisted(n) == \A l \in List : n \notin ToSet(lists[l])

Init == lists = [l \in List |-> <<>>]

AddLast(l, n) ==
    /\ Unlisted(n)
    /\ lists' = [lists EXCEPT ![l] = Append(@, n)]

AddBefore(l, existing, n) ==
    /\ Unlisted(n)
    /\ \E i \in 1..Len(lists[l]) :
          /\ lists[l][i] = existing
          /\ lists' = [lists EXCEPT ![l] = InsertAt(@, i, n)]

TakeOut(l, n) ==
    \E i \in 1..Len(lists[l]) :
       /\ lists[l][i] = n
       /\ lists' = [lists EXCEPT ![l] = RemoveAt(@, i)]

Next ==
    \E l \in List, n \in Node :
       AddLast(l, n) \/ TakeOut(l, n) \/ \E existing \in Node : AddBefore(l, existing, n)

Spec == Init /\ [][Next]_lists
=============================================================================
