---------------------------- MODULE XrtListHeap ----------------------------
(***************************************************************************)
(* The circular doubly linked list of xrt_list.c, link by link.  A heap    *)
(* holds every list anchor and the two links of every cell; each function  *)
(* of the source is an operator from a heap to the heap it leaves.         *)
(***************************************************************************)
EXTENDS Integers, Sequences, SequencesExt

CONSTANTS
    List,    \* the list anchors
    Cell,    \* the memory cells that can be read as nodes
    Node,    \* the cells that really are nodes
    NULL

UINT8_MAX == 255

ASSUME HeapAssumption == Node \subseteq Cell /\ NULL \notin Cell

Heap == [head : [List -> Cell \cup {NULL}], size : [List -> 0..UINT8_MAX],
         next : [Cell -> Cell \cup {NULL}], prev : [Cell -> Cell \cup {NULL}]]

\* cdll_increment_list_size and cdll_decrement_list_size; size is a uint8_t.
Incremented(h, l) == (h.size[l] + 1) % (UINT8_MAX + 1)
Decremented(h, l) == IF h.size[l] > 0 THEN h.size[l] - 1 ELSE 0

\* Mutant: the new node becomes the head, as if it had been inserted before it.
InsertNodeToHead(h, l, n) ==
    LET first == h.head[l]
        last  == h.prev[first]
        sized == [h EXCEPT !.size[l] = Incremented(h, l), !.head[l] = n]
    IN  IF first = NULL
        THEN [sized EXCEPT !.prev[n] = n, !.next[n] = n]
        ELSE [sized EXCEPT !.next[n] = first, !.prev[n] = last,
                           !.next[last] = n, !.prev[first] = n]

\* cdll_insert_node_to_tail.
InsertNodeToTail(h, l, n) ==
    LET first == h.head[l]
        last  == h.prev[first]
        sized == [h EXCEPT !.size[l] = Incremented(h, l)]
    IN  IF first = NULL
        THEN [sized EXCEPT !.head[l] = n, !.prev[n] = n, !.next[n] = n]
        ELSE [sized EXCEPT !.next[n] = first, !.prev[n] = last,
                           !.next[last] = n, !.prev[first] = n]

\* Mutants of the insertion: existing does not link back; the node before it is
\* not linked to the new one.
InsertOneWay(h, l, existing, n) ==
    LET before == h.prev[existing]
    IN  [h EXCEPT !.next[n] = existing, !.prev[n] = before, !.next[before] = n,
                  !.head[l] = IF @ = existing THEN n ELSE @,
                  !.size[l] = Incremented(h, l)]

InsertUnseen(h, l, existing, n) ==
    LET before == h.prev[existing]
    IN  [h EXCEPT !.next[n] = existing, !.prev[n] = before, !.prev[existing] = n,
                  !.head[l] = IF @ = existing THEN n ELSE @,
                  !.size[l] = Incremented(h, l)]

\* cdll_insert_node_before; existing is taken to be a node of the list.
InsertNodeBefore(h, l, existing, n) ==
    LET before == h.prev[existing]
    IN  [h EXCEPT !.next[n] = existing, !.prev[n] = before,
                  !.next[before] = n, !.prev[existing] = n,
                  !.head[l] = IF @ = existing THEN n ELSE @,
                  !.size[l] = Incremented(h, l)]

\* cdll_remove_known_node_from_list; n is taken to be in the list.
RemoveKnownNode(h, l, n) ==
    LET after  == h.next[n]
        before == h.prev[n]
    IN  IF h.size[l] = 1
        THEN [h EXCEPT !.size[l] = 0, !.head[l] = NULL, !.next[n] = n, !.prev[n] = n]
        ELSE [h EXCEPT !.prev[after] = before, !.next[before] = after,
                       !.head[l] = IF @ = n THEN after ELSE @,
                       !.next[n] = n, !.prev[n] = n,
                       !.size[l] = Decremented(h, l)]

\* The cells one meets following next from the head, size of them.
Walk(h, l) ==
    LET step[i \in 1..h.size[l]] ==
            IF i = 1 THEN h.head[l] ELSE h.next[step[i - 1]]
    IN  IF h.head[l] = NULL THEN <<>> ELSE step

Linked(h, n) == \E l \in List : n \in ToSet(Walk(h, l))

----------------------------------------------------------------------------
(* A client that uses the functions as their headers ask: a node goes into *)
(* a list when it is in none, and comes out of the list it is in.          *)

VARIABLE heap

ListInit ==
    heap = [head |-> [l \in List |-> NULL], size |-> [l \in List |-> 0],
            next |-> [c \in Cell |-> c], prev |-> [c \in Cell |-> c]]

InsertLast(l, n) ==
    /\ ~Linked(heap, n) /\ heap.size[l] < UINT8_MAX
    /\ heap' = InsertNodeToTail(heap, l, n)

InsertBefore(l, existing, n) ==
    /\ existing \in ToSet(Walk(heap, l))
    /\ ~Linked(heap, n) /\ heap.size[l] < UINT8_MAX
    /\ heap' = InsertNodeBefore(heap, l, existing, n)

Take(l, n) ==
    /\ n \in ToSet(Walk(heap, l))
    /\ heap' = RemoveKnownNode(heap, l, n)

ListNext ==
    \E l \in List, n \in Node :
       \/ InsertLast(l, n)
       \/ \E existing \in Node : InsertBefore(l, existing, n)
       \/ Take(l, n)

ListSpec == ListInit /\ [][ListNext]_heap

----------------------------------------------------------------------------
\* The position after the i-th in a ring.
Around(w, i) == IF i = Len(w) THEN 1 ELSE i + 1

Ring(h, w) ==
    \A i \in 1..Len(w) :
       /\ h.next[w[i]] = w[Around(w, i)]
       /\ h.prev[w[Around(w, i)]] = w[i]

\* The anchors and links of h are those of the sequences s, one for each list.
Rings(h, s) ==
    /\ \A l \in List :
          /\ h.head[l] = IF s[l] = <<>> THEN NULL ELSE s[l][1]
          /\ h.size[l] = Len(s[l])
          /\ IsInjective(s[l]) /\ ToSet(s[l]) \subseteq Node
          /\ Ring(h, s[l])
    /\ \A l, k \in List : l # k => ToSet(s[l]) \cap ToSet(s[k]) = {}
    /\ \A n \in Node :
          (\A l \in List : n \notin ToSet(s[l])) => h.next[n] = n /\ h.prev[n] = n

Walks(h) == [l \in List |-> Walk(h, l)]

\* Every list is a ring: prev undoes next, the last cell links back to the head,
\* and a cell occurs once and in one list.  A node in no list is linked to itself,
\* "so it is safe to insert elsewhere" (xrt_list.h:69).
RingsClosed ==
    /\ heap \in Heap /\ Walks(heap) \in [List -> Seq(Node)]
    /\ Rings(heap, Walks(heap))

\* The links implement sequences, call by call: an insertion at the tail makes the
\* named node the last of the named list, an insertion before a node puts it right
\* before that one, a removal takes the named node out, and nothing else moves.  In
\* a ring the place after the tail and the place before the head have the same
\* links: only the anchor tells them apart (xrt_list.c:88).
AsSequences == INSTANCE ListContract WITH lists <- Walks(heap)

DoneAsCalled ==
    \A l \in List, n \in Node :
       /\ InsertLast(l, n) => AsSequences!AddLast(l, n)
       /\ \A existing \in Node :
             InsertBefore(l, existing, n) => AsSequences!AddBefore(l, existing, n)
       /\ Take(l, n) => AsSequences!TakeOut(l, n)

ImplementsSequences == AsSequences!Spec /\ [][DoneAsCalled]_heap
=============================================================================
