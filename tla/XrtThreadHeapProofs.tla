------------------------ MODULE XrtThreadHeapProofs ------------------------
(***************************************************************************)
(* The thread lists in memory, for any set of at most 255 threads, of      *)
(* lists and of priorities: the links are those of sequences of threads,   *)
(* and what xrt_kernel.c does to them is what module XrtThreadLists says.  *)
(***************************************************************************)
EXTENDS XrtThreadHeap, XrtListHeapProofs, FiniteSetTheorems

\* A node where the list code expects one, or nobody of lower priority to insert
\* before.
Repaired == AnchorIsNode \/ \A p, q \in Priority : p = q

\* The nodes of some sequences of threads.
Nodes(w) == [i \in 1..Len(w) |-> NodeOf(w[i])]
NodeLists(ls) == [l \in List |-> Nodes(ls[l])]

\* The links are those of the lists, each thread is in the list its TCB names,
\* and no TCB of a created thread has been written to.
HeapInv ==
    /\ heap \in Heap /\ Rings(heap, NodeLists(ThreadLists))
    /\ located \in [Thread -> List \cup {NoList}]
    /\ prio \in [Thread -> Priority]
    /\ Placed(ThreadLists, located, List, Thread)
    /\ FramesIntact

----------------------------------------------------------------------------
(* Cells, nodes and sequences of either. *)

\* The parts of a thread are cells of their own.
LEMMA CellsApart ==
    ASSUME NEW t \in Thread
    PROVE  /\ NodeOf(t) \in Node /\ NodeOf(t) \in Cell
           /\ TcbOf(t) \in Cell /\ TcbOf(t) \notin Node
           /\ FrameOf(t) \in Cell /\ StackOf(t) \in Cell
           /\ ThreadOf(NodeOf(t)) = t
BY ThreadHeapAssumption DEF NodeOf, TcbOf, FrameOf, StackOf, ThreadOf, ThreadNodes, ThreadCells

\* A sequence of nodes has the length, elements and distinctness of its threads.
LEMMA NodesAre ==
    ASSUME NEW w \in Seq(Thread)
    PROVE  /\ Nodes(w) \in Seq(Node) /\ Len(Nodes(w)) = Len(w)
           /\ \A i \in 1..Len(w) : Nodes(w)[i] = NodeOf(w[i])
           /\ \A t \in Thread : NodeOf(t) \in ToSet(Nodes(w)) <=> t \in ToSet(w)
<1>1. Nodes(w) \in Seq(Node) /\ Len(Nodes(w)) = Len(w)
      /\ \A i \in 1..Len(w) : Nodes(w)[i] = NodeOf(w[i])
  <2>1. \A i \in 1..Len(w) : NodeOf(w[i]) \in Node
    BY CellsApart
  <2>2. Len(w) \in Nat
    OBVIOUS
  <2>. QED BY <2>1, <2>2 DEF Nodes
<1>2. ASSUME NEW t \in Thread
      PROVE  NodeOf(t) \in ToSet(Nodes(w)) <=> t \in ToSet(w)
  <2>1. \A i \in 1..Len(w) : NodeOf(w[i]) = NodeOf(t) <=> w[i] = t
    BY DEF NodeOf
  <2>. QED BY <1>1, <2>1 DEF ToSet
<1>. QED BY <1>1, <1>2

\* The families too.
LEMMA NodeListsAre ==
    ASSUME NEW ls \in [List -> Seq(Thread)]
    PROVE  /\ NodeLists(ls) \in [List -> Seq(Node)]
           /\ \A l \in List : NodeLists(ls)[l] = Nodes(ls[l])
BY NodesAre DEF NodeLists

\* A changed list changes its nodes.
LEMMA NodeListsChange ==
    ASSUME NEW ls \in [List -> Seq(Thread)], NEW l \in List, NEW w \in Seq(Thread)
    PROVE  NodeLists([ls EXCEPT ![l] = w]) = [NodeLists(ls) EXCEPT ![l] = Nodes(w)]
BY DEF NodeLists

\* Sequences of one length that agree everywhere are the same.
LEMMA SameSequences ==
    ASSUME NEW S, NEW v \in Seq(S), NEW w \in Seq(S), Len(v) = Len(w),
           \A i \in 1..Len(w) : v[i] = w[i]
    PROVE  v = w
OBVIOUS

\* Nodes commutes with the insertions and the removal.
LEMMA NodesAppend ==
    ASSUME NEW w \in Seq(Thread), NEW t \in Thread
    PROVE  Nodes(Append(w, t)) = Append(Nodes(w), NodeOf(t))
<1> DEFINE a == Append(w, t)
           b == Append(Nodes(w), NodeOf(t))
<1>1. a \in Seq(Thread) /\ Len(a) = Len(w) + 1
      /\ \A i \in 1..Len(w) + 1 : a[i] = IF i = Len(w) + 1 THEN t ELSE w[i]
  OBVIOUS
<1> HIDE DEF a
<1>2. Nodes(a) \in Seq(Node) /\ Len(Nodes(a)) = Len(w) + 1
      /\ \A i \in 1..Len(w) + 1 : Nodes(a)[i] = NodeOf(a[i])
  BY <1>1, NodesAre
<1>3. b \in Seq(Node) /\ Len(b) = Len(w) + 1
      /\ \A i \in 1..Len(w) + 1 : b[i] = IF i = Len(w) + 1 THEN NodeOf(t) ELSE Nodes(w)[i]
  <2>1. NodeOf(t) \in Node /\ Nodes(w) \in Seq(Node) /\ Len(Nodes(w)) = Len(w)
    BY CellsApart, NodesAre
  <2>. QED BY <2>1
<1>4. \A i \in 1..Len(w) + 1 : i = Len(w) + 1 \/ i \in 1..Len(w)
  OBVIOUS
<1>5. \A i \in 1..Len(w) : Nodes(w)[i] = NodeOf(w[i])
  BY NodesAre
<1> HIDE DEF b
<1>6. \A i \in 1..Len(w) + 1 : Nodes(a)[i] = b[i]
  BY <1>1, <1>2, <1>3, <1>4, <1>5
<1>7. Nodes(a) = b
  BY <1>2, <1>3, <1>6, SameSequences
<1>. QED BY <1>7 DEF a, b

LEMMA NodesInsertAt ==
    ASSUME NEW w \in Seq(Thread), NEW i \in 1..Len(w), NEW t \in Thread
    PROVE  Nodes(InsertAt(w, i, t)) = InsertAt(Nodes(w), i, NodeOf(t))
<1> DEFINE a == InsertAt(w, i, t)
           v == Nodes(w)
           n == NodeOf(t)
           b == InsertAt(v, i, n)
<1>1. a \in Seq(Thread) /\ Len(a) = Len(w) + 1
      /\ \A j \in 1..Len(w) + 1 : a[j] = IF j < i THEN w[j] ELSE IF j = i THEN t ELSE w[j - 1]
  BY InsertAtShape
<1>2. n \in Node /\ v \in Seq(Node) /\ Len(v) = Len(w) /\ \A j \in 1..Len(w) : v[j] = NodeOf(w[j])
  BY CellsApart, NodesAre
<1> HIDE DEF a, v
<1>3. Nodes(a) \in Seq(Node) /\ Len(Nodes(a)) = Len(w) + 1
      /\ \A j \in 1..Len(w) + 1 : Nodes(a)[j] = NodeOf(a[j])
  BY <1>1, NodesAre
<1>4. b \in Seq(Node) /\ Len(b) = Len(w) + 1
      /\ \A j \in 1..Len(w) + 1 : b[j] = IF j < i THEN v[j] ELSE IF j = i THEN n ELSE v[j - 1]
  <2> HIDE DEF n
  <2>1. i \in 1..Len(v)
    BY <1>2
  <2>2. b \in Seq(Node) /\ Len(b) = Len(v) + 1
        /\ \A j \in 1..Len(v) + 1 : b[j] = IF j < i THEN v[j] ELSE IF j = i THEN n ELSE v[j - 1]
    BY <1>2, <2>1, InsertAtShape
  <2>. QED BY <1>2, <2>2
<1>5. \A j \in 1..Len(w) + 1 : (j < i => j \in 1..Len(w)) /\ (~(j < i) /\ j # i => j - 1 \in 1..Len(w))
  OBVIOUS
<1> HIDE DEF b
<1>6. \A j \in 1..Len(w) + 1 : Nodes(a)[j] = b[j]
  BY <1>1, <1>2, <1>3, <1>4, <1>5
<1>7. Nodes(a) = b
  BY <1>3, <1>4, <1>6, SameSequences
<1>. QED BY <1>7 DEF a, b, v

LEMMA NodesRemoveAt ==
    ASSUME NEW w \in Seq(Thread), NEW i \in 1..Len(w)
    PROVE  Nodes(RemoveAt(w, i)) = RemoveAt(Nodes(w), i)
<1> DEFINE a == RemoveAt(w, i)
           v == Nodes(w)
           b == RemoveAt(v, i)
<1>1. a \in Seq(Thread) /\ Len(a) = Len(w) - 1
      /\ \A j \in 1..Len(w) - 1 : a[j] = IF j < i THEN w[j] ELSE w[j + 1]
  BY RemoveAtShape
<1>2. v \in Seq(Node) /\ Len(v) = Len(w) /\ \A j \in 1..Len(w) : v[j] = NodeOf(w[j])
  BY NodesAre
<1> HIDE DEF a, v
<1>3. Nodes(a) \in Seq(Node) /\ Len(Nodes(a)) = Len(w) - 1
      /\ \A j \in 1..Len(w) - 1 : Nodes(a)[j] = NodeOf(a[j])
  BY <1>1, NodesAre
<1>4. b \in Seq(Node) /\ Len(b) = Len(w) - 1
      /\ \A j \in 1..Len(w) - 1 : b[j] = IF j < i THEN v[j] ELSE v[j + 1]
  <2>1. i \in 1..Len(v)
    BY <1>2
  <2>. QED BY <1>2, <2>1, RemoveAtShape
<1>5. \A j \in 1..Len(w) - 1 : j \in 1..Len(w) /\ j + 1 \in 1..Len(w)
  OBVIOUS
<1> HIDE DEF b
<1>6. \A j \in 1..Len(w) - 1 : Nodes(a)[j] = b[j]
  BY <1>1, <1>2, <1>3, <1>4, <1>5
<1>7. Nodes(a) = b
  BY <1>3, <1>4, <1>6, SameSequences
<1>. QED BY <1>7 DEF a, b, v

\* The threads of a heap are the sequences its links are the nodes of.
ThreadsIn(h) ==
    [l \in List |-> [i \in 1..Len(Walk(h, l)) |-> ThreadOf(Walk(h, l)[i])]]

LEMMA ThreadsAre ==
    ASSUME NEW h \in Heap, NEW ls \in [List -> Seq(Thread)], Rings(h, NodeLists(ls))
    PROVE  ThreadsIn(h) = ls
<1> DEFINE s == NodeLists(ls)
<1>1. s \in [List -> Seq(Node)] /\ \A l \in List : s[l] = Nodes(ls[l])
  BY NodeListsAre
<1> HIDE DEF s
<1>2. Walks(h) = s
  BY <1>1, WalksAre DEF s
<1>3. ASSUME NEW l \in List
      PROVE  [i \in 1..Len(Walk(h, l)) |-> ThreadOf(Walk(h, l)[i])] = ls[l]
  <2> DEFINE w == ls[l]
  <2>1. w \in Seq(Thread)
    OBVIOUS
  <2>2. Walk(h, l) = Nodes(w)
    BY <1>1, <1>2 DEF Walks
  <2> HIDE DEF w
  <2>3. Len(Nodes(w)) = Len(w) /\ \A i \in 1..Len(w) : ThreadOf(Nodes(w)[i]) = w[i]
    BY <2>1, NodesAre, CellsApart
  <2>4. [i \in 1..Len(w) |-> ThreadOf(Nodes(w)[i])] = w
    <3>1. w = [i \in 1..Len(w) |-> w[i]]
      BY <2>1
    <3>. QED BY <2>3, <3>1
  <2>. QED BY <2>2, <2>3, <2>4 DEF w
<1>. QED BY <1>3 DEF ThreadsIn

\* Which is what ThreadLists is.
LEMMA ThreadListsAre == ThreadLists = ThreadsIn(heap) /\ ThreadLists' = ThreadsIn(heap')
BY DEF ThreadLists, Threads, ThreadsIn

----------------------------------------------------------------------------
(* What the kernel does to a list, on the links. *)

\* The insertion by priority, where a node is free and the list is not full.
LEMMA PushKeepsLinks ==
    ASSUME NEW h \in Heap, NEW ls \in [List -> Seq(Thread)], Rings(h, NodeLists(ls)),
           NEW l \in List, h.size[l] < UINT8_MAX,
           NEW t \in Thread, \A k \in List : t \notin ToSet(ls[k]),
           NEW pr \in [Thread -> Nat], SafeOrder(pr, Thread)
    PROVE  Becomes(h, PushByPriority(h, l, t, pr), NodeLists(Push(ls, l, t, pr)))
<1> DEFINE s == NodeLists(ls)
           w == ls[l]
           v == Nodes(w)
           r == PushThreadByPriority(w, t, pr)
           g == PushByPriority(h, l, t, pr)
           I == {i \in 1..Len(w) : pr[w[i]] < pr[t]}
           J == {i \in 1..Len(v) : pr[ThreadOf(v[i])] < pr[t]}
           n == NodeOf(t)
<1>1. w \in Seq(Thread) /\ s \in [List -> Seq(Node)] /\ s[l] = v
  BY NodeListsAre
<1>2. \A k \in List : n \notin ToSet(s[k])
  BY NodeListsAre, NodesAre
<1>3. n \in Node
  BY CellsApart
<1>4. Walk(h, l) = v
  <2>1. Walks(h) = s
    BY <1>1, WalksAre
  <2>. QED BY <1>1, <2>1 DEF Walks
<1>5. Len(v) = Len(w) /\ \A i \in 1..Len(w) : v[i] = NodeOf(w[i]) /\ ThreadOf(v[i]) = w[i]
  <2> HIDE DEF w
  <2>1. Len(v) = Len(w) /\ \A i \in 1..Len(w) : v[i] = NodeOf(w[i])
    BY <1>1, NodesAre
  <2>2. \A i \in 1..Len(w) : w[i] \in Thread
    BY <1>1
  <2>3. \A i \in 1..Len(w) : ThreadOf(NodeOf(w[i])) = w[i]
    BY <2>2, CellsApart
  <2> HIDE DEF v
  <2>. QED BY <2>1, <2>3
<1>6. J = I
  BY <1>5
<1>7. Insertable(w, t, pr)
  BY <1>1, SafeInsertable
<1>8. Push(ls, l, t, pr) = [ls EXCEPT ![l] = r]
  BY DEF Push
<1>9. CASE I = {}
  <2>1. SelectInSeq(w, LAMBDA u : pr[u] < pr[t]) = 0
    BY <1>9 DEF SelectInSeq
  <2>2. r = Append(w, t)
    BY <2>1 DEF PushThreadByPriority
  <2>3. SelectInSeq(v, LAMBDA c : pr[ThreadOf(c)] < pr[t]) = 0
    BY <1>6, <1>9 DEF SelectInSeq
  <2>4. g = InsertNodeToTail(h, l, n)
    BY <1>4, <2>3 DEF PushByPriority
  <2>5. NodeLists([ls EXCEPT ![l] = r]) = [s EXCEPT ![l] = Append(v, n)]
    <3>1. r \in Seq(Thread) /\ Nodes(r) = Append(v, n)
      BY <1>1, <2>2, NodesAppend
    <3> HIDE DEF r, n
    <3>2. NodeLists([ls EXCEPT ![l] = r]) = [s EXCEPT ![l] = Nodes(r)]
      BY <3>1, NodeListsChange
    <3>. QED BY <3>1, <3>2
  <2> HIDE DEF s, v, r, g, n
  <2>6. Becomes(h, InsertNodeToTail(h, l, n), [s EXCEPT ![l] = Append(s[l], n)])
    <3>1. Rings(h, s)
      BY DEF s
    <3>. QED BY <1>1, <1>2, <1>3, <3>1, InsertNodeToTailKeeps
  <2>7. Becomes(h, g, NodeLists(Push(ls, l, t, pr)))
    BY <1>1, <1>8, <2>4, <2>5, <2>6
  <2>. QED BY <2>7 DEF g
<1>10. CASE I # {}
  <2> DEFINE m == Min(I)
  <2>1. I \in SUBSET Nat
    OBVIOUS
  <2>2. m \in I
    <3> HIDE DEF I
    <3>. QED BY <1>10, <2>1, SelectedIsFirst
  <2>3. m \in 1..Len(w) /\ pr[w[m]] < pr[t] /\ m # 0
    BY <2>2
  <2> HIDE DEF m
  <2>4. AnchorIsNode
    <3>1. w[m] \in Thread /\ w[m] \in ToSet(w)
      BY <1>1, <2>3 DEF ToSet
    <3>2. pr[w[m]] \in Nat /\ pr[t] \in Nat
      BY <3>1
    <3>3. ~(pr[w[m]] >= pr[t])
      BY <2>3, <3>2
    <3>. QED BY <1>7, <3>1, <3>3 DEF Insertable
  <2>5. SelectInSeq(w, LAMBDA u : pr[u] < pr[t]) = m
    BY <1>10 DEF SelectInSeq, m
  <2>6. r = InsertAt(w, m, t)
    BY <2>3, <2>4, <2>5 DEF PushThreadByPriority
  <2>7. SelectInSeq(v, LAMBDA c : pr[ThreadOf(c)] < pr[t]) = m
    BY <1>6, <1>10 DEF SelectInSeq, m
  <2>8. g = InsertNodeBefore(h, l, v[m], n)
    BY <1>4, <2>3, <2>4, <2>7 DEF PushByPriority
  <2>9. NodeLists([ls EXCEPT ![l] = r]) = [s EXCEPT ![l] = InsertAt(v, m, n)]
    <3>1. r \in Seq(Thread) /\ Nodes(r) = InsertAt(v, m, n)
      BY <1>1, <2>3, <2>6, NodesInsertAt, InsertAtShape
    <3> HIDE DEF r, n
    <3>2. NodeLists([ls EXCEPT ![l] = r]) = [s EXCEPT ![l] = Nodes(r)]
      BY <3>1, NodeListsChange
    <3>. QED BY <3>1, <3>2
  <2>10. m \in 1..Len(v)
    BY <1>5, <2>3
  <2> HIDE DEF s, v, r, g, n
  <2>11. Becomes(h, InsertNodeBefore(h, l, s[l][m], n), [s EXCEPT ![l] = InsertAt(@, m, n)])
    <3>1. Rings(h, s)
      BY DEF s
    <3>2. m \in 1..Len(s[l])
      BY <1>1, <2>10
    <3>. QED BY <1>1, <1>2, <1>3, <3>1, <3>2, InsertNodeBeforeKeeps
  <2>12. Becomes(h, g, NodeLists(Push(ls, l, t, pr)))
    BY <1>1, <1>8, <2>8, <2>9, <2>11
  <2>. QED BY <2>12 DEF g
<1>. QED BY <1>9, <1>10

\* The removal of a linked thread.
LEMMA RemoveKeepsLinks ==
    ASSUME NEW h \in Heap, NEW ls \in [List -> Seq(Thread)], Rings(h, NodeLists(ls)),
           NEW l \in List, NEW t \in ToSet(ls[l])
    PROVE  Becomes(h, RemoveKnownNode(h, l, NodeOf(t)), NodeLists(Unlink(ls, l, t)))
<1> DEFINE s == NodeLists(ls)
           w == ls[l]
           v == Nodes(w)
<1>1. w \in Seq(Thread) /\ s \in [List -> Seq(Node)] /\ s[l] = v
  BY NodeListsAre
<1>2. PICK i \in 1..Len(w) : w[i] = t /\ RemoveFirst(w, t) = RemoveAt(w, i)
  <2> HIDE DEF w
  <2>1. t \in ToSet(w)
    BY DEF w
  <2>. QED BY <1>1, <2>1, RemoveFirstIsRemoveAt
<1>3. Len(v) = Len(w) /\ v[i] = NodeOf(t)
  BY <1>1, <1>2, NodesAre
<1>4. RemoveAt(w, i) \in Seq(Thread) /\ Nodes(RemoveAt(w, i)) = RemoveAt(v, i)
  BY <1>1, <1>2, RemoveAtShape, NodesRemoveAt
<1>5. Unlink(ls, l, t) = [ls EXCEPT ![l] = RemoveAt(w, i)]
  BY <1>2 DEF Unlink
<1>6. NodeLists([ls EXCEPT ![l] = RemoveAt(w, i)]) = [s EXCEPT ![l] = RemoveAt(v, i)]
  <2> DEFINE r == RemoveAt(w, i)
  <2>1. r \in Seq(Thread) /\ Nodes(r) = RemoveAt(v, i)
    BY <1>4
  <2> HIDE DEF r
  <2>2. NodeLists([ls EXCEPT ![l] = r]) = [s EXCEPT ![l] = Nodes(r)]
    BY <2>1, NodeListsChange
  <2>. QED BY <2>1, <2>2 DEF r
<1> HIDE DEF s, v, w
<1>7. Becomes(h, RemoveKnownNode(h, l, s[l][i]), [s EXCEPT ![l] = RemoveAt(@, i)])
  <2>1. Rings(h, s)
    BY DEF s
  <2>2. i \in 1..Len(s[l])
    BY <1>1, <1>2, <1>3
  <2>. QED BY <1>1, <2>1, <2>2, RemoveKnownNodeKeeps
<1>. QED BY <1>1, <1>3, <1>5, <1>6, <1>7

\* A list that a thread is not in has room for it.
LEMMA RoomForOne ==
    ASSUME NEW w \in Seq(Thread), IsInjective(w), NEW t \in Thread, t \notin ToSet(w)
    PROVE  Len(w) < UINT8_MAX
<1> DEFINE rest == Thread \ {t}
<1>1. IsFiniteSet(rest) /\ Cardinality(rest) = Cardinality(Thread) - 1
  BY ThreadHeapAssumption, FS_RemoveElement
<1>2. Cardinality(Thread) \in Nat /\ Cardinality(rest) \in Nat
  BY <1>1, ThreadHeapAssumption, FS_CardinalityType
<1>3. w \in Injection(1..Len(w), rest)
  <2>1. \A i \in 1..Len(w) : w[i] \in rest
    BY DEF ToSet
  <2>2. w \in [1..Len(w) -> rest]
    BY <2>1
  <2>. QED BY <2>2 DEF Injection
<1>4. Cardinality(1..Len(w)) <= Cardinality(rest)
  <2> HIDE DEF rest
  <2>. QED BY <1>1, <1>3, FS_Injection
<1>5. Cardinality(1..Len(w)) = Len(w)
  <2> DEFINE n == Len(w)
  <2>1. n \in Nat
    OBVIOUS
  <2> HIDE DEF n
  <2>2. Cardinality(1..n) = n
    BY <2>1, FS_Interval
  <2>. QED BY <2>2 DEF n
<1>6. UINT8_MAX \in Nat /\ Cardinality(Thread) <= UINT8_MAX
  BY ThreadHeapAssumption DEF UINT8_MAX
<1>7. Len(w) \in Nat
  OBVIOUS
<1> HIDE DEF rest
<1>. QED BY <1>1, <1>2, <1>4, <1>5, <1>6, <1>7

\* The rings are in the nodes and the anchors.
LEMMA SameNodesSameRings ==
    ASSUME NEW h, NEW g, NEW s \in [List -> Seq(Node)], Rings(h, s),
           g.head = h.head, g.size = h.size,
           \A c \in Node : g.next[c] = h.next[c] /\ g.prev[c] = h.prev[c]
    PROVE  Rings(g, s)
<1>1. ASSUME NEW l \in List PROVE Ring(g, s[l])
  <2> DEFINE w == s[l]
  <2>1. w \in Seq(Node) /\ Len(w) \in Nat /\ Ring(h, w)
    BY DEF Rings
  <2> HIDE DEF w
  <2>2. \A i \in 1..Len(w) : Around(w, i) \in 1..Len(w)
    BY <2>1 DEF Around
  <2>3. \A i \in 1..Len(w) : w[i] \in Node /\ w[Around(w, i)] \in Node
    BY <2>1, <2>2
  <2>4. Ring(g, w)
    BY <2>1, <2>3 DEF Ring
  <2>. QED BY <2>4 DEF w
<1>. QED BY <1>1 DEF Rings

\* xrt_thread_create writes to cells that are linked nowhere.
LEMMA PreparedKeepsLinks ==
    ASSUME NEW h \in Heap, NEW ls \in [List -> Seq(Thread)], Rings(h, NodeLists(ls)),
           NEW t \in Thread, \A k \in List : t \notin ToSet(ls[k])
    PROVE  /\ Prepared(h, t) \in Heap /\ Rings(Prepared(h, t), NodeLists(ls))
           /\ \A c \in Cell :
                 /\ Prepared(h, t).prev[c] = IF c = TcbOf(t) THEN FrameOf(t) ELSE h.prev[c]
                 /\ Prepared(h, t).next[c] = IF c = TcbOf(t) THEN StackOf(t) ELSE h.next[c]
           /\ Prepared(h, t).size = h.size
<1> DEFINE s == NodeLists(ls)
           n == NodeOf(t)
           tcb == TcbOf(t)
           g == Prepared(h, t)
<1>1. s \in [List -> Seq(Node)] /\ Rings(h, s) /\ \A k \in List : n \notin ToSet(s[k])
  BY NodeListsAre, NodesAre
<1>2. /\ n \in Node /\ n \in Cell /\ tcb \in Cell /\ tcb \notin Node
      /\ FrameOf(t) \in Cell /\ StackOf(t) \in Cell
  BY CellsApart
<1>3. h.next[n] = n /\ h.prev[n] = n
  BY <1>1, <1>2 DEF Rings
<1>4. /\ h.head \in [List -> Cell \cup {NULL}] /\ h.size \in [List -> 0..UINT8_MAX]
      /\ h.next \in [Cell -> Cell \cup {NULL}] /\ h.prev \in [Cell -> Cell \cup {NULL}]
  BY DEF Heap
<1> HIDE DEF s, n, tcb
<1>5. Parts(g, h.head, h.size, [[h.next EXCEPT ![n] = n] EXCEPT ![tcb] = StackOf(t)],
            [[h.prev EXCEPT ![n] = n] EXCEPT ![tcb] = FrameOf(t)])
  <2>1. g = [h EXCEPT !.next[n] = n, !.prev[n] = n,
                      !.prev[tcb] = FrameOf(t), !.next[tcb] = StackOf(t)]
    BY DEF Prepared, n, tcb
  <2>. QED BY <2>1 DEF Parts, Heap
<1> HIDE DEF g
<1>6. /\ g.head = h.head /\ g.size = h.size
      /\ g.next = [[h.next EXCEPT ![n] = n] EXCEPT ![tcb] = StackOf(t)]
      /\ g.prev = [[h.prev EXCEPT ![n] = n] EXCEPT ![tcb] = FrameOf(t)]
      /\ g = [head |-> g.head, size |-> g.size, next |-> g.next, prev |-> g.prev]
  BY <1>5 DEF Parts
<1>7. g \in Heap
  <2>1. [[h.next EXCEPT ![n] = n] EXCEPT ![tcb] = StackOf(t)] \in [Cell -> Cell \cup {NULL}]
    BY <1>2, <1>4, TwoWrites, Zenon
  <2>2. [[h.prev EXCEPT ![n] = n] EXCEPT ![tcb] = FrameOf(t)] \in [Cell -> Cell \cup {NULL}]
    BY <1>2, <1>4, TwoWrites, Zenon
  <2>. QED BY <1>4, <1>6, <2>1, <2>2 DEF Heap
<1>8. \A c \in Cell :
         /\ g.prev[c] = IF c = tcb THEN FrameOf(t) ELSE h.prev[c]
         /\ g.next[c] = IF c = tcb THEN StackOf(t) ELSE h.next[c]
  BY <1>2, <1>3, <1>4, <1>6
<1>9. \A c \in Node : g.next[c] = h.next[c] /\ g.prev[c] = h.prev[c]
  BY <1>2, <1>8, HeapAssumption
<1>10. Rings(g, s)
  <2>1. s \in [List -> Seq(Node)] /\ Rings(h, s) /\ g.head = h.head /\ g.size = h.size
    BY <1>1, <1>6
  <2>. QED BY <1>9, <2>1, SameNodesSameRings
<1>. QED BY <1>6, <1>7, <1>8, <1>10 DEF g, s, tcb

----------------------------------------------------------------------------
(* The invariant. *)

\* The heap g has the threads ls in its lists, as seat says.
Holds(g, ls, seat) ==
    /\ g \in Heap /\ Rings(g, NodeLists(ls))
    /\ Placed(ls, seat, List, Thread)

\* Inserting a thread that is in no list.
LEMMA PushHolds ==
    ASSUME NEW h, NEW ls, NEW seat, Holds(h, ls, seat),
           NEW t \in Thread, seat[t] \notin List, NEW l \in List,
           NEW pr \in [Thread -> Priority], Repaired,
           NEW seat2, \A u \in Thread : seat2[u] = IF u = t THEN l ELSE seat[u]
    PROVE  /\ Holds(PushByPriority(h, l, t, pr), Push(ls, l, t, pr), seat2)
           /\ \A c \in Cell \ Node :
                 /\ PushByPriority(h, l, t, pr).next[c] = h.next[c]
                 /\ PushByPriority(h, l, t, pr).prev[c] = h.prev[c]
<1>1. h \in Heap /\ Rings(h, NodeLists(ls)) /\ Placed(ls, seat, List, Thread)
  BY DEF Holds
<1>2. ls \in [List -> Seq(Thread)]
      /\ \A k \in List : IsInjective(ls[k]) /\ ToSet(ls[k]) = {u \in Thread : seat[u] = k}
  BY <1>1 DEF Placed
<1>3. \A k \in List : t \notin ToSet(ls[k])
  BY <1>2
<1>4. pr \in [Thread -> Nat] /\ SafeOrder(pr, Thread)
  BY ThreadHeapAssumption DEF Repaired, SafeOrder
<1>5. h.size[l] < UINT8_MAX
  <2>1. ls[l] \in Seq(Thread) /\ IsInjective(ls[l]) /\ t \notin ToSet(ls[l])
    BY <1>2, <1>3
  <2>2. Len(ls[l]) < UINT8_MAX
    BY <2>1, RoomForOne
  <2>3. NodeLists(ls)[l] = Nodes(ls[l])
    BY <1>2, NodeListsAre
  <2>4. h.size[l] = Len(Nodes(ls[l]))
    BY <1>1, <2>3 DEF Rings
  <2>. QED BY <2>1, <2>2, <2>4, NodesAre
<1>6. Becomes(h, PushByPriority(h, l, t, pr), NodeLists(Push(ls, l, t, pr)))
  BY <1>1, <1>2, <1>3, <1>4, <1>5, PushKeepsLinks
<1>7. Placed(Push(ls, l, t, pr), seat2, List, Thread)
  BY <1>1, <1>4, PushPlaced
<1>. QED BY <1>6, <1>7 DEF Becomes, Holds

\* Removing a thread from its list.
LEMMA RemoveHolds ==
    ASSUME NEW h, NEW ls, NEW seat, Holds(h, ls, seat),
           NEW t \in Thread, seat[t] \in List
    PROVE  /\ Holds(RemoveKnownNode(h, seat[t], NodeOf(t)), Unlink(ls, seat[t], t),
                    [u \in Thread |-> IF u = t THEN NoList ELSE seat[u]])
           /\ \A c \in Cell \ Node :
                 /\ RemoveKnownNode(h, seat[t], NodeOf(t)).next[c] = h.next[c]
                 /\ RemoveKnownNode(h, seat[t], NodeOf(t)).prev[c] = h.prev[c]
<1>1. h \in Heap /\ Rings(h, NodeLists(ls)) /\ Placed(ls, seat, List, Thread)
  BY DEF Holds
<1>2. ls \in [List -> Seq(Thread)] /\ t \in ToSet(ls[seat[t]])
  BY <1>1 DEF Placed
<1>3. Becomes(h, RemoveKnownNode(h, seat[t], NodeOf(t)), NodeLists(Unlink(ls, seat[t], t)))
  BY <1>1, <1>2, RemoveKeepsLinks
<1>4. Placed(Unlink(ls, seat[t], t), [u \in Thread |-> IF u = t THEN NoList ELSE seat[u]],
             List, Thread)
  BY <1>1, ThreadHeapAssumption, UnlinkPlaced
<1>. QED BY <1>3, <1>4 DEF Becomes, Holds

\* The parts of HeapInv.
LEMMA HeapInvParts ==
    HeapInv <=> /\ Holds(heap, ThreadLists, located) /\ FramesIntact
                /\ located \in [Thread -> List \cup {NoList}]
                /\ prio \in [Thread -> Priority]
BY DEF HeapInv, Holds

\* In the beginning no thread is in a list.
LEMMA HeapInit == Init => HeapInv /\ ThreadLists = [l \in List |-> <<>>]
<1>. SUFFICES ASSUME Init PROVE HeapInv /\ ThreadLists = [l \in List |-> <<>>]
  OBVIOUS
<1> DEFINE ls == [l \in List |-> <<>>]
<1>1. RingsClosed
  BY ListInitRings DEF Init
<1>2. Walks(heap) = [l \in List |-> <<>>]
  BY DEF Init, ListInit, Walks, Walk
<1>3. ls \in [List -> Seq(Thread)] /\ NodeLists(ls) = [l \in List |-> <<>>]
  BY DEF NodeLists, Nodes
<1>4. heap \in Heap /\ Rings(heap, NodeLists(ls))
  <2> HIDE DEF ls
  <2>. QED BY <1>1, <1>2, <1>3 DEF RingsClosed
<1>5. ThreadLists = ls
  <2> HIDE DEF ls
  <2>. QED BY <1>3, <1>4, ThreadsAre, ThreadListsAre
<1>6. located \in [Thread -> List \cup {NoList}] /\ prio \in [Thread -> Priority]
      /\ \A t \in Thread : located[t] \notin List /\ located[t] = NoList
  BY ThreadHeapAssumption DEF Init
<1>7. Placed(ls, located, List, Thread)
  <2>1. \A l \in List : {t \in Thread : located[t] = l} = {}
    BY <1>6
  <2>2. \A l \in List : ls[l] = <<>>
    OBVIOUS
  <2> HIDE DEF ls
  <2>. QED BY <1>3, <2>1, <2>2, ShortLists DEF Placed
<1>8. FramesIntact
  BY <1>6 DEF FramesIntact, Created
<1>. QED BY <1>4, <1>5, <1>6, <1>7, <1>8 DEF HeapInv

\* What a step that puts t into list l has to show.
LEMMA StepHolds ==
    ASSUME NEW t \in Thread, NEW l \in List, NEW ls,
           ls = IF t \in Created THEN Unlink(ThreadLists, located[t], t) ELSE ThreadLists,
           Holds(heap', Push(ls, l, t, prio'), located'),
           located \in [Thread -> List \cup {NoList}],
           located' = [located EXCEPT ![t] = l], prio' \in [Thread -> Priority],
           FramesIntact'
    PROVE  HeapInv' /\ t \in Created' /\ OneMoved(t)
<1> DEFINE to == Push(ls, l, t, prio')
<1>1. heap' \in Heap /\ Rings(heap', NodeLists(to)) /\ Placed(to, located', List, Thread)
  BY DEF Holds
<1>2. ThreadLists' = to
  <2>1. to \in [List -> Seq(Thread)]
    BY <1>1 DEF Placed
  <2> HIDE DEF to
  <2>. QED BY <1>1, <2>1, ThreadsAre, ThreadListsAre
<1>3. located' \in [Thread -> List \cup {NoList}] /\ located'[t] = l /\ l # NoList
  BY ThreadHeapAssumption
<1>4. t \in Created'
  BY <1>3 DEF Created
<1>5. OneMoved(t)
  BY <1>2, <1>3 DEF OneMoved
<1> HIDE DEF to
<1>6. HeapInv'
  BY <1>1, <1>2, <1>3 DEF HeapInv
<1>. QED BY <1>4, <1>5, <1>6

\* Every step keeps it, and does to the sequences what XrtThreadLists says.
LEMMA HeapStep ==
    ASSUME Repaired
    PROVE  HeapInv /\ [Next]_heapVars => HeapInv' /\ [\E t \in Created' : OneMoved(t)]_heapVars
<1>. SUFFICES ASSUME HeapInv, [Next]_heapVars
              PROVE  HeapInv' /\ [\E t \in Created' : OneMoved(t)]_heapVars
  OBVIOUS
<1>1. /\ Holds(heap, ThreadLists, located) /\ FramesIntact
      /\ located \in [Thread -> List \cup {NoList}] /\ prio \in [Thread -> Priority]
  BY HeapInvParts
<1>2. ASSUME NEW t \in Thread, ThreadCreate(t)
      PROVE  HeapInv' /\ \E u \in Created' : OneMoved(u)
  <2> DEFINE h == Prepared(heap, t)
  <2>1. /\ located[t] = NoList /\ located' = [located EXCEPT ![t] = "ready"] /\ prio' = prio
        /\ heap' = PushByPriority(h, "ready", t, prio')
    BY <1>2 DEF ThreadCreate
  <2>2. "ready" \in List /\ NoList \notin List
    BY ThreadHeapAssumption
  <2>3. /\ heap \in Heap /\ Rings(heap, NodeLists(ThreadLists))
        /\ ThreadLists \in [List -> Seq(Thread)] /\ \A k \in List : t \notin ToSet(ThreadLists[k])
        /\ Placed(ThreadLists, located, List, Thread)
    BY <1>1, <2>1, <2>2 DEF Holds, Placed
  <2>4. /\ h \in Heap /\ Rings(h, NodeLists(ThreadLists))
        /\ \A c \in Cell : /\ h.prev[c] = IF c = TcbOf(t) THEN FrameOf(t) ELSE heap.prev[c]
                           /\ h.next[c] = IF c = TcbOf(t) THEN StackOf(t) ELSE heap.next[c]
    BY <2>3, PreparedKeepsLinks
  <2> HIDE DEF h
  <2>5. Holds(h, ThreadLists, located)
    BY <2>3, <2>4 DEF Holds
  <2>6. \A u \in Thread : located'[u] = IF u = t THEN "ready" ELSE located[u]
    BY <1>1, <2>1
  <2>7. /\ Holds(heap', Push(ThreadLists, "ready", t, prio'), located')
        /\ \A c \in Cell \ Node : heap'.next[c] = h.next[c] /\ heap'.prev[c] = h.prev[c]
    <3>1. prio' \in [Thread -> Priority] /\ located[t] \notin List
      BY <1>1, <2>1, <2>2
    <3>2. /\ Holds(PushByPriority(h, "ready", t, prio'), Push(ThreadLists, "ready", t, prio'), located')
          /\ \A c \in Cell \ Node :
                /\ PushByPriority(h, "ready", t, prio').next[c] = h.next[c]
                /\ PushByPriority(h, "ready", t, prio').prev[c] = h.prev[c]
      BY <2>2, <2>5, <2>6, <3>1, PushHolds
    <3>. QED BY <2>1, <3>2
  <2>8. FramesIntact'
    <3>. SUFFICES ASSUME NEW u \in Thread, located'[u] # NoList
                  PROVE  heap'.prev[TcbOf(u)] = FrameOf(u) /\ heap'.next[TcbOf(u)] = StackOf(u)
      BY DEF FramesIntact, Created
    <3>1. TcbOf(u) \in Cell \ Node
      BY CellsApart
    <3>2. TcbOf(u) = TcbOf(t) <=> u = t
      BY DEF TcbOf
    <3>3. u # t => heap.prev[TcbOf(u)] = FrameOf(u) /\ heap.next[TcbOf(u)] = StackOf(u)
      BY <1>1, <2>6 DEF FramesIntact, Created
    <3>. QED BY <2>4, <2>7, <3>1, <3>2, <3>3
  <2>9. t \notin Created
    BY <2>1 DEF Created
  <2>10. HeapInv' /\ t \in Created' /\ OneMoved(t)
    BY <1>1, <2>1, <2>2, <2>7, <2>8, <2>9, StepHolds
  <2>. QED BY <2>10
<1>3. ASSUME NEW t \in Thread, NEW dst \in List, NEW p \in Priority, MoveThread(t, dst, p)
      PROVE  HeapInv' /\ \E u \in Created' : OneMoved(u)
  <2> DEFINE src == located[t]
             h == RemoveKnownNode(heap, src, NodeOf(t))
             mid == [u \in Thread |-> IF u = t THEN NoList ELSE located[u]]
             ls == Unlink(ThreadLists, src, t)
  <2>1. /\ t \in Created /\ prio' = [prio EXCEPT ![t] = p]
        /\ located' = [located EXCEPT ![t] = dst]
        /\ heap' = PushByPriority(h, dst, t, prio')
    BY <1>3 DEF MoveThread
  <2>2. src \in List /\ NoList \notin List
    BY <1>1, <2>1, ThreadHeapAssumption DEF Created
  <2>3. /\ Holds(h, ls, mid)
        /\ \A c \in Cell \ Node : h.next[c] = heap.next[c] /\ h.prev[c] = heap.prev[c]
    BY <1>1, <2>2, RemoveHolds
  <2>4. mid[t] \notin List /\ \A u \in Thread : located'[u] = IF u = t THEN dst ELSE mid[u]
    BY <1>1, <2>1, <2>2
  <2>5. prio' \in [Thread -> Priority]
    BY <1>1, <2>1
  <2> HIDE DEF h, mid, ls
  <2>6. /\ Holds(heap', Push(ls, dst, t, prio'), located')
        /\ \A c \in Cell \ Node : heap'.next[c] = h.next[c] /\ heap'.prev[c] = h.prev[c]
    <3>1. /\ Holds(PushByPriority(h, dst, t, prio'), Push(ls, dst, t, prio'), located')
          /\ \A c \in Cell \ Node :
                /\ PushByPriority(h, dst, t, prio').next[c] = h.next[c]
                /\ PushByPriority(h, dst, t, prio').prev[c] = h.prev[c]
      BY <2>3, <2>4, <2>5, PushHolds
    <3>. QED BY <2>1, <3>1
  <2>7. FramesIntact'
    <3>. SUFFICES ASSUME NEW u \in Thread, located'[u] # NoList
                  PROVE  heap'.prev[TcbOf(u)] = FrameOf(u) /\ heap'.next[TcbOf(u)] = StackOf(u)
      BY DEF FramesIntact, Created
    <3>1. TcbOf(u) \in Cell \ Node
      BY CellsApart
    <3>2. u \in Created
      BY <1>1, <2>1 DEF Created
    <3>3. heap.prev[TcbOf(u)] = FrameOf(u) /\ heap.next[TcbOf(u)] = StackOf(u)
      BY <1>1, <3>2 DEF FramesIntact
    <3>. QED BY <2>3, <2>6, <3>1, <3>3
  <2>8. ls = IF t \in Created THEN Unlink(ThreadLists, located[t], t) ELSE ThreadLists
    BY <2>1 DEF ls
  <2>9. HeapInv' /\ t \in Created' /\ OneMoved(t)
    BY <1>1, <2>1, <2>5, <2>6, <2>7, <2>8, StepHolds
  <2>. QED BY <2>9
<1>4. ASSUME UNCHANGED heapVars PROVE HeapInv'
  <2>1. heap' = heap /\ located' = located /\ prio' = prio
    BY <1>4 DEF heapVars
  <2>2. ThreadLists' = ThreadLists
    BY <2>1, ThreadListsAre
  <2>3. FramesIntact'
    BY <1>1, <2>1 DEF FramesIntact, Created
  <2>. QED BY <2>1, <2>2, <2>3 DEF HeapInv
<1>. QED BY <1>2, <1>3, <1>4 DEF Next

\* The invariant is one.
LEMMA HeapInvariance == Repaired => (Spec => []HeapInv)
<1>. SUFFICES ASSUME Repaired PROVE Spec => []HeapInv
  OBVIOUS
<1>1. Init => HeapInv
  BY HeapInit
<1>2. HeapInv /\ [Next]_heapVars => HeapInv'
  BY HeapStep
<1>. QED BY <1>1, <1>2, PTL DEF Spec

\* The kernel's insertions and removals leave every list a closed ring, each
\* thread's node in one list, once.
THEOREM HeapRingsClosed == Repaired => (Spec => []RingsClosed)
<1>1. HeapInv => RingsClosed
  <2>. SUFFICES ASSUME HeapInv PROVE RingsClosed
    OBVIOUS
  <2> DEFINE s == NodeLists(ThreadLists)
  <2>1. heap \in Heap /\ Rings(heap, s) /\ ThreadLists \in [List -> Seq(Thread)]
    BY DEF HeapInv, Placed
  <2>2. s \in [List -> Seq(Node)]
    BY <2>1, NodeListsAre
  <2> HIDE DEF s
  <2>3. Walks(heap) = s
    BY <2>1, <2>2, WalksAre
  <2>. QED BY <2>1, <2>2, <2>3 DEF RingsClosed
<1>. QED BY <1>1, HeapInvariance, PTL

\* A thread is linked into the list its TCB names and into no other, when the
\* insertion is handed the node it means.
THEOREM ThreadsInTheirLists == Repaired => (Spec => []InItsList)
<1>1. HeapInv => InItsList
  BY DEF HeapInv, Placed, InItsList, ThreadLists
<1>. QED BY <1>1, HeapInvariance, PTL

\* No list operation writes to the TCB of a created thread, whose first two words
\* are where a node has its links.
THEOREM TcbsUntouched == Repaired => (Spec => []FramesIntact)
<1>1. HeapInv => FramesIntact
  BY DEF HeapInv
<1>. QED BY <1>1, HeapInvariance, PTL

\* The links do to the sequences of threads what module XrtThreadLists says: a
\* thread leaves its list and goes before the first of lower priority.
THEOREM LinksDoAsLists == Repaired => (Spec => LinksImplementLists)
<1>. SUFFICES ASSUME Repaired PROVE Spec => LinksImplementLists
  OBVIOUS
<1>1. Init => ThreadLists = [l \in List |-> <<>>]
  BY HeapInit
<1>2. HeapInv /\ [Next]_heapVars => [\E t \in Created' : OneMoved(t)]_heapVars
  BY HeapStep
<1>. QED BY <1>1, <1>2, HeapInvariance, PTL DEF Spec, LinksImplementLists
=============================================================================
