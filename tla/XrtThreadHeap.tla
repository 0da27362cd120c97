--------------------------- MODULE XrtThreadHeap ---------------------------
(***************************************************************************)
(* The kernel's thread lists in memory: the insertion by priority and the  *)
(* moves of xrt_kernel.c on the links of xrt_list.c.  A thread owns a list *)
(* node, a TCB and a stack; what the list code takes for a node it reads   *)
(* and writes as one, and a TCB read as a node has its thread_sp where a   *)
(* node has prev and its thread_base_ptr where a node has next.            *)
(***************************************************************************)
EXTENDS XrtListHeap, XrtThreadLists

CONSTANTS Thread, Priority

NodeOf(t)  == <<"node", t>>
TcbOf(t)   == <<"tcb", t>>
FrameOf(t) == <<"frame", t>>   \* the initial frame, where thread_sp points
StackOf(t) == <<"stack", t>>   \* the lowest word of the stack

ThreadNodes == {NodeOf(t) : t \in Thread}
ThreadCells == {"node", "tcb", "frame", "stack"} \X Thread

\* The data field of a node: the TCB it belongs to.
ThreadOf(c) == c[2]

NoList == "nolist"

ASSUME ThreadHeapAssumption ==
    /\ IsFiniteSet(Thread) /\ Cardinality(Thread) <= UINT8_MAX
    /\ Cell = ThreadCells /\ Node = ThreadNodes
    /\ "ready" \in List /\ NoList \notin List
    /\ Priority \subseteq Nat

VARIABLES
    located,   \* TCB currently_located_list
    prio       \* TCB current_priority

heapVars == <<heap, located, prio>>

Created == {t \in Thread : located[t] # NoList}

\* Mutants: the TCB is handed over for its node; equals are overtaken.
PushBeforeTcb(h, l, t, pr) ==
    LET nodes == Walk(h, l)
        first == SelectInSeq(nodes, LAMBDA c : pr[ThreadOf(c)] < pr[t])
    IN  IF first = 0 THEN InsertNodeToTail(h, l, NodeOf(t))
        ELSE InsertNodeBefore(h, l, TcbOf(ThreadOf(nodes[first])), NodeOf(t))

PushBeforeEquals(h, l, t, pr) ==
    LET nodes == Walk(h, l)
        first == SelectInSeq(nodes, LAMBDA c : pr[ThreadOf(c)] <= pr[t])
    IN  IF first = 0 THEN InsertNodeToTail(h, l, NodeOf(t))
        ELSE InsertNodeBefore(h, l, nodes[first], NodeOf(t))

\* xrt_kernel_push_thread_by_priority: at most size nodes are looked at.
PushByPriority(h, l, t, pr) ==
    LET nodes == Walk(h, l)
        first == SelectInSeq(nodes, LAMBDA c : pr[ThreadOf(c)] < pr[t])
        anchor == IF AnchorIsNode THEN nodes[first] ELSE TcbOf(ThreadOf(nodes[first]))
    IN  IF first = 0 THEN InsertNodeToTail(h, l, NodeOf(t))
        ELSE InsertNodeBefore(h, l, anchor, NodeOf(t))

\* xrt_thread_create's writes before the insertion.
Prepared(h, t) ==
    [h EXCEPT !.next[NodeOf(t)] = NodeOf(t), !.prev[NodeOf(t)] = NodeOf(t),
              !.prev[TcbOf(t)] = FrameOf(t), !.next[TcbOf(t)] = StackOf(t)]

Init ==
    /\ ListInit
    /\ located = [t \in Thread |-> NoList]
    /\ prio \in [Thread -> Priority]

ThreadCreate(t) ==
    /\ located[t] = NoList
    /\ heap' = PushByPriority(Prepared(heap, t), "ready", t, prio)
    /\ located' = [located EXCEPT ![t] = "ready"]
    /\ UNCHANGED prio

\* xrt_kernel_move_thread to dst, after a boost or a restoration made t's
\* priority p: what the scheduler, the tick, a wake-up and a reordering do.
MoveThread(t, dst, p) ==
    /\ t \in Created
    /\ prio' = [prio EXCEPT ![t] = p]
    /\ heap' = PushByPriority(RemoveKnownNode(heap, located[t], NodeOf(t)), dst, t, prio')
    /\ located' = [located EXCEPT ![t] = dst]

Next ==
    \E t \in Thread :
       \/ ThreadCreate(t)
       \/ \E dst \in List, p \in Priority : MoveThread(t, dst, p)

Spec == Init /\ [][Next]_heapVars

----------------------------------------------------------------------------
\* The threads of a list, as its links give them.
Threads(l) == [i \in 1..Len(Walk(heap, l)) |-> ThreadOf(Walk(heap, l)[i])]

\* A thread is linked into the list its TCB names and into no other: "places it in
\* the ready list" (xrt_thread.h:70) is true of the thread created, and stays so of
\* the others.
InItsList == \A t \in Thread, l \in List : t \in ToSet(Threads(l)) <=> located[t] = l

\* No list operation touches a TCB: the saved stack pointer of a thread that has
\* not run still points at its first frame.
FramesIntact ==
    \A t \in Created : heap.prev[TcbOf(t)] = FrameOf(t) /\ heap.next[TcbOf(t)] = StackOf(t)

\* The links do to the sequences of threads what XrtThreadLists says, which is
\* what module XrtKernel builds on.
ThreadLists == [l \in List |-> Threads(l)]

OneMoved(t) ==
    ThreadLists' =
       Push(IF t \in Created THEN Unlink(ThreadLists, located[t], t) ELSE ThreadLists,
            located'[t], t, prio')

LinksImplementLists ==
    /\ ThreadLists = [l \in List |-> <<>>]
    /\ [][\E t \in Created' : OneMoved(t)]_heapVars
=============================================================================
