------------------------------ MODULE XrtQueue ------------------------------
(***************************************************************************)
(* A queue of xrt_queue.c on the kernel of XrtSystem.  Threads send and    *)
(* receive, an interrupt handler sends; between their queue calls threads  *)
(* make other supervisor calls.  A call of a thread is three steps with    *)
(* the rest of the system in between: the supervisor call that takes a     *)
(* token, the critical section that copies the block, and the supervisor   *)
(* call that gives a token to the other side.  The interrupt handler does  *)
(* all of it in one critical section.                                      *)
(***************************************************************************)
EXTENDS XrtInvariant

CONSTANTS
    WriteAccess,     \* write_access_sem: counts free slots
    ReadAccess,      \* read_access_sem: counts filled slots
    Block,           \* what a block can hold
    BlockSize,       \* block_size, in bytes
    QueueCapacity    \* queue_capacity, in bytes

\* block_count of xrt_queue_init.
BlockCount == QueueCapacity \div BlockSize

\* What xrt_queue_init accepts.
Accepted ==
    /\ BlockSize \in Nat \ {0} /\ QueueCapacity \in Nat \ {0}
    /\ QueueCapacity % BlockSize = 0
    /\ BlockCount <= UINT16_MAX
    /\ {WriteAccess, ReadAccess} \subseteq Semaphore

\* How it sets up the semaphores.
TokensSetUp ==
    /\ InitialValue[WriteAccess] = BlockCount /\ MaxValue[WriteAccess] = BlockCount
    /\ InitialValue[ReadAccess] = 0 /\ MaxValue[ReadAccess] = BlockCount

\* Only the queue uses its two semaphores, and of interrupt handlers only one that
\* sends: where ReadAccess may be released by one.
ASSUME QueueAssumption ==
    /\ Accepted /\ TokensSetUp
    /\ WriteAccess \notin IsrSemaphore /\ ReadAccess # WriteAccess
    /\ Block # {} /\ IsFiniteSet(Thread)

\* What a caller's variable holds between calls is of no interest.
Unread == CHOOSE b \in Block : TRUE

VARIABLES
    slots,      \* the blocks in queue_data, by the offset of their first byte
    writePtr,   \* write_ptr - queue_data
    readPtr,    \* read_ptr - queue_data
    job,        \* where each thread is in xrt_queue_send or xrt_queue_receive
    data        \* what each thread's `data' argument points to

queueVars == <<slots, writePtr, readPtr, job, data>>
allVars == <<vars, queueVars>>

Offset == {i * BlockSize : i \in 0..(BlockCount - 1)}

QueueTypeOK ==
    /\ slots \in [Offset -> Block]
    /\ writePtr \in Offset /\ readPtr \in Offset
    /\ job \in [Thread -> {"none", "sending", "sent", "receiving", "received"}]
    /\ data \in [Thread -> Block]

\* The contents of the buffer do not matter when xrt_queue_init gets it.
QueueInit ==
    /\ slots = [o \in Offset |-> Unread]
    /\ writePtr = 0 /\ readPtr = 0
    /\ job = [t \in Thread |-> "none"]
    /\ data = [t \in Thread |-> Unread]

----------------------------------------------------------------------------
Take(s) == [op |-> "SEMAPHORE_TAKE", arg |-> s]
Release(s) == [op |-> "SEMAPHORE_RELEASE", arg |-> s]

\* Mutant: the pointer runs off the buffer.
AdvanceOn(p) == p + BlockSize

\* A pointer one block further, back at the start from the end of the buffer.
Advance(p) == IF p + BlockSize = QueueCapacity THEN 0 ELSE p + BlockSize

\* Mutant: the pointer moves before the copy, so the block goes into the next slot.
WriteLate(b) ==
    /\ writePtr' = Advance(writePtr)
    /\ slots' = [slots EXCEPT ![writePtr'] = b]
    /\ UNCHANGED readPtr

\* Copies block b in.
Write(b) ==
    /\ slots' = [slots EXCEPT ![writePtr] = b]
    /\ writePtr' = Advance(writePtr)
    /\ UNCHANGED readPtr

\* Copies the next block out, to thread t.
Read(t) ==
    /\ data' = [data EXCEPT ![t] = slots[readPtr]]
    /\ readPtr' = Advance(readPtr)
    /\ UNCHANGED <<slots, writePtr>>

\* Thread t goes on with its call of a queue function: it is back on the CPU,
\* and its last supervisor call, with the wait that may have come of it, is over.
Continues(t, from, to) ==
    /\ cpu = t /\ ~pendSV /\ ~switching /\ ~inTick /\ svc = NoCall
    /\ job[t] = from
    /\ job' = [job EXCEPT ![t] = to]

SendCall(t) ==
    /\ Continues(t, "none", "sending")
    /\ Raise(Take(WriteAccess))
    /\ \E b \in Block : data' = [data EXCEPT ![t] = b]
    /\ UNCHANGED <<slots, writePtr, readPtr>>

SendCopy(t) ==
    /\ Continues(t, "sending", "sent")
    /\ Write(data[t])
    /\ UNCHANGED <<vars, data>>

\* Mutant: the slot is announced as free again.
SendDoneAsFree(t) ==
    /\ Continues(t, "sent", "none")
    /\ Raise(Release(WriteAccess))
    /\ data' = [data EXCEPT ![t] = Unread]
    /\ UNCHANGED <<slots, writePtr, readPtr>>

SendDone(t) ==
    /\ Continues(t, "sent", "none")
    /\ Raise(Release(ReadAccess))
    /\ data' = [data EXCEPT ![t] = Unread]
    /\ UNCHANGED <<slots, writePtr, readPtr>>

ReceiveCall(t) ==
    /\ Continues(t, "none", "receiving")
    /\ Raise(Take(ReadAccess))
    /\ UNCHANGED <<slots, writePtr, readPtr, data>>

ReceiveCopy(t) ==
    /\ Continues(t, "receiving", "received")
    /\ Read(t)
    /\ UNCHANGED vars

\* Mutant: the slot is announced as filled again.
ReceiveDoneAsFilled(t) ==
    /\ Continues(t, "received", "none")
    /\ Raise(Release(ReadAccess))
    /\ data' = [data EXCEPT ![t] = Unread]
    /\ UNCHANGED <<slots, writePtr, readPtr>>

ReceiveDone(t) ==
    /\ Continues(t, "received", "none")
    /\ Raise(Release(WriteAccess))
    /\ data' = [data EXCEPT ![t] = Unread]
    /\ UNCHANGED <<slots, writePtr, readPtr>>

\* Mutant: the handler does not look for a free slot.
IsrSendUnchecked(b) ==
    /\ boot # "create" /\ ~inTick
    /\ Write(b)
    /\ SignalLocked(ReadAccess, value)
    /\ UNCHANGED <<owner, svc, prio, wakeTick, switching, cpu, bringUp, tick, job, data>>

\* An interrupt handler sends.  Without a free slot it fails and changes nothing.
IsrSend(b) ==
    /\ boot # "create" /\ ~inTick
    /\ value[WriteAccess] > 0
    /\ Write(b)
    /\ SignalLocked(ReadAccess, Taken(WriteAccess))
    /\ UNCHANGED <<owner, svc, prio, wakeTick, switching, cpu, bringUp, tick, job, data>>

\* What the threads call besides the queue.
OtherCall ==
    /\ cpu \in Thread /\ job[cpu] = "none"
    /\ \E c \in Calls \ UNION {{Take(s), Release(s)} : s \in {WriteAccess, ReadAccess}} : Raise(c)

\* What is not the queue's: the kernel, other calls, other interrupts.
Elsewhere ==
    /\ \/ KernelStep
       \/ OtherCall
       \/ Dispatch
       \/ \E s \in IsrSemaphore \ {ReadAccess} : IsrRelease(s)
    /\ UNCHANGED queueVars

SendStep(t) == SendCall(t) \/ SendCopy(t) \/ SendDone(t)
ReceiveStep(t) == ReceiveCall(t) \/ ReceiveCopy(t) \/ ReceiveDone(t)

QueueNext ==
    \/ Elsewhere
    \/ \E t \in Thread \ {Idle} : SendStep(t) \/ ReceiveStep(t)
    \/ ReadAccess \in IsrSemaphore /\ \E b \in Block : IsrSend(b)

QueueSpec == Init /\ QueueInit /\ [][QueueNext]_allVars

(***************************************************************************)
(* Fairness.  Besides what the kernel has of it (XrtSystem): a thread that *)
(* is in a queue function and has the CPU again and again gets through it. *)
(* The rest of the function is straight-line code and a tick period is     *)
(* long: whoever is given the CPU executes some of it.  Strong fairness of *)
(* the steps would not say so, since ticks may hit every state in which    *)
(* they are enabled.                                                       *)
(***************************************************************************)
GoesOn(t) == SendCopy(t) \/ SendDone(t) \/ ReceiveCopy(t) \/ ReceiveDone(t)

HasCpu(t) == cpu = t /\ job[t] # "none" /\ state[t] = "RUNNING" /\ svc = NoCall

QueueFairness ==
    /\ Fairness
    /\ \A t \in Thread \ {Idle} : []<>HasCpu(t) => []<><<GoesOn(t)>>_allVars

QueueFairSpec == QueueSpec /\ QueueFairness

\* The same with a device that never gives up sending.
DeviceFairSpec == QueueFairSpec /\ WF_allVars(\E b \in Block : IsrSend(b))

----------------------------------------------------------------------------
(* Tokens and blocks.  A thread in a queue function holds the token it took  *)
(* until it released one to the other side.                                  *)

\* The take of thread t, in its queue function, has been granted.
Granted(t, s) == loc[t] # s /\ (svc = Take(s) => cpu # t)

InTransit(s) == IF svc = Release(s) THEN 1 ELSE 0

\* Who has a token of semaphore s: taken for job `asks', or to be released when job
\* `done' is over.
Holders(s, asks, done) ==
    {t \in Thread : job[t] = done \/ (job[t] = asks /\ Granted(t, s))}

Tokens(s, asks, done) == value[s] + InTransit(s) + Cardinality(Holders(s, asks, done))

FreeSlots == Tokens(WriteAccess, "sending", "received")
FilledSlots == Tokens(ReadAccess, "receiving", "sent")

\* Every slot is free or filled, exactly once, through all interleavings of the
\* three steps of a call with other calls and with interrupts: no token is lost or
\* made up, so neither semaphore is ever released past its ceiling
\* (xrt_queue_send, xrt_queue_receive, xrt_queue_send_from_ISR).
Conserved == FreeSlots + FilledSlots = BlockCount

\* The blocks that are in, oldest first.
Contents ==
    [i \in 1..FilledSlots |-> slots[(readPtr + (i - 1) * BlockSize) % QueueCapacity]]

\* The queue is a bounded FIFO of blocks, call by call: every send of a thread puts
\* its own block behind the others, and every receive takes the first out, although
\* the token a thread holds names no slot and others copy between its take and its
\* copy.  So none is lost, duplicated, overwritten before it was received or
\* received before it was written.  A handler's send puts in the handler's block.
Fifo ==
    INSTANCE QueueContract WITH
        Capacity <- BlockCount, Client <- Thread, HandlerSends <- ReadAccess \in IsrSemaphore,
        queue <- Contents, buffer <- data, stage <- job

HandlerSendsItsBlock ==
    ReadAccess \in IsrSemaphore =>
       \A b \in Block : IsrSend(b) => Fifo!SendFromInterrupt(b)

ImplementsFifo == Fifo!Spec /\ [][HandlerSendsItsBlock]_allVars

\* A token of semaphore s is free, or on its way: a thread has copied its block
\* and, in job j, has yet to release s.
OnItsWay(s, j) == value[s] > 0 \/ svc = Release(s) \/ \E t \in Thread : job[t] = j

\* No thread waits for ever beside a slot or a block it could have
\* ("blocking while it is full", "blocking while it is empty").  Threads of lower
\* priority can be kept from the CPU.  Where an interrupt handler sends, the second
\* does not hold.
Highest(t) == \A u \in Thread : BasePriority[u] <= BasePriority[t]

SlotsReachSenders ==
    \A t \in Thread : Highest(t) =>
       (loc[t] = WriteAccess /\ OnItsWay(WriteAccess, "received") ~> loc[t] # WriteAccess)

BlocksReachReceivers ==
    \A t \in Thread : Highest(t) =>
       (loc[t] = ReadAccess /\ OnItsWay(ReadAccess, "sent") ~> loc[t] # ReadAccess)
=============================================================================
