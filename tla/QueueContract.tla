---------------------------- MODULE QueueContract ----------------------------
(***************************************************************************)
(* What a queue promises its callers (xrt_queue.h): blocks come out in the *)
(* order they went in, each once and as it was sent; none goes into a full *)
(* queue and none comes out of an empty one.  A client's call has three    *)
(* stages: it is made, with the block to be sent; the block goes in or     *)
(* out, one for each call; the call is over.  An interrupt handler sends   *)
(* in one step, and only where there is one that sends.                    *)
(***************************************************************************)
EXTENDS Naturals, Sequences

CONSTANTS Capacity, Block, Client, HandlerSends

VARIABLES
    queue,    \* the blocks sent and not yet received
    buffer,   \* each client's own block: what it sends, what it received
    stage     \* where each client's call is

Init ==
    /\ queue = <<>>
    /\ buffer \in [Client -> Block]
    /\ stage = [c \in Client |-> "none"]

Moves(c, from, to) == stage[c] = from /\ stage' = [stage EXCEPT ![c] = to]

Put(b) == Len(queue) < Capacity /\ queue' = Append(queue, b)

CallSend(c) ==
    /\ Moves(c, "none", "sending")
    /\ \E b \in Block : buffer' = [buffer EXCEPT ![c] = b]
    /\ UNCHANGED queue

Send(c) ==
    /\ Moves(c, "sending", "sent")
    /\ Put(buffer[c])
    /\ UNCHANGED buffer

CallReceive(c) ==
    /\ Moves(c, "none", "receiving")
    /\ UNCHANGED <<queue, buffer>>

Receive(c) ==
    /\ Moves(c, "receiving", "received")
    /\ queue # <<>>
    /\ buffer' = [buffer EXCEPT ![c] = Head(queue)]
    /\ queue' = Tail(queue)

\* What the client does with its block afterwards is its own business.
Return(c) ==
    /\ Moves(c, "sent", "none") \/ Moves(c, "received", "none")
    /\ \E b \in Block : buffer' = [buffer EXCEPT ![c] = b]
    /\ UNCHANGED queue

SendFromInterrupt(b) ==
    /\ HandlerSends
    /\ Put(b)
    /\ UNCHANGED <<buffer, stage>>

Next ==
    \/ \E c \in Client : CallSend(c) \/ Send(c) \/ CallReceive(c) \/ Receive(c) \/ Return(c)
    \/ \E b \in Block : SendFromInterrupt(b)

Spec == Init /\ [][Next]_<<queue, buffer, stage>>
=============================================================================
