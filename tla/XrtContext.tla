----------------------------- MODULE XrtContext -----------------------------
(***************************************************************************)
(* The registers and the thread stacks under the kernel of XrtSystem, and  *)
(* what the Cortex-M4 and its port do to them: the frame the core pushes   *)
(* when it leaves thread mode and pops when it comes back, the two halves  *)
(* of the context switch, the frame a thread is created with, and the      *)
(* supervisor call read from the frame of its caller.  Handlers run on the *)
(* main stack, which is not modelled; the first switch abandons it.        *)
(***************************************************************************)
EXTENDS XrtProperties

CONSTANT Code   \* thread -> the instructions of its function, in order

\* XRT_THREAD_MIN_STACK_WORDS
MinStackWords == 32

\* The core's frame and the port's, from the highest address down, and how many
\* words each register is above the frame's end.
HwFrame == <<"xPSR", "PC", "LR", "R12", "R3", "R2", "R1", "R0">>
SwFrame == <<"R4", "R5", "R6", "R7", "R8", "R9", "R10", "R11">>
HW == Len(HwFrame)
SW == Len(SwFrame)
HwOffset == [r \in ToSet(HwFrame) |-> HW - SelectInSeq(HwFrame, LAMBDA q : q = r)]
SwOffset == [r \in ToSet(SwFrame) |-> SW - SelectInSeq(SwFrame, LAMBDA q : q = r)]
Reg == DOMAIN HwOffset \cup DOMAIN SwOffset

\* Words.  Nothing is computed with them; they only have to be told apart.
Pc(t, n) == <<"pc", t, n>>
Argument(n) == <<"arg", n>>
Zero == <<"zero">>
Junk == <<"junk">>

(***************************************************************************)
(* The core: its registers, the process stack pointer, the words of each   *)
(* stack from its top down to the lowest one in use, and the thread_sp of  *)
(* each TCB.  A stack pointer is a number of words below the top of        *)
(* somebody's stack.                                                       *)
(***************************************************************************)
VARIABLE core

Pointer(t, n) == [of |-> t, used |-> n]

\* The k-th word above the stack pointer p.
WordAt(c, p, k) == c.stack[p.of][p.used - k]

\* The stacks when a frame with the registers of order was put below p.
Framed(c, p, order) ==
    [c.stack EXCEPT ![p.of] =
        SubSeq(@, 1, p.used) \o [i \in 1..Len(order) |-> c.regs[order[i]]]]

\* The registers when those of a frame were taken from the one that ends at p.
Fetched(c, p, offset) ==
    [r \in Reg |-> IF r \in DOMAIN offset THEN WordAt(c, p, offset[r]) ELSE c.regs[r]]

\* Exception entry.  The registers of the frame are the handlers' to spoil.
Stacked(c) ==
    [c EXCEPT !.stack = Framed(c, c.psp, HwFrame),
              !.psp.used = @ + HW,
              !.regs = [r \in Reg |-> IF r \in DOMAIN HwOffset THEN Junk ELSE @[r]]]

\* Exception return.
Unstacked(c) ==
    [c EXCEPT !.regs = Fetched(c, c.psp, HwOffset),
              !.psp.used = @ - HW]

\* Mutant: two registers change places.
StoredCrossed(c, t) ==
    [c EXCEPT !.stack = Framed(c, c.psp, Reverse(SwFrame)),
              !.sp[t] = Pointer(c.psp.of, c.psp.used + SW)]

\* xrt_thread_store_context, where t heads the running list.
Stored(c, t) ==
    [c EXCEPT !.stack = Framed(c, c.psp, SwFrame),
              !.sp[t] = Pointer(c.psp.of, c.psp.used + SW)]

\* Mutant: PSP is left at the software frame.
LoadedHere(c, t) ==
    [c EXCEPT !.regs = Fetched(c, c.sp[t], SwOffset),
              !.psp = c.sp[t]]

\* xrt_load_context, where t heads the running list.
Loaded(c, t) ==
    [c EXCEPT !.regs = Fetched(c, c.sp[t], SwOffset),
              !.psp = Pointer(c.sp[t].of, c.sp[t].used - SW)]

\* Mutant: the entry function and the exception return change places.
InitialFrameCrossed(t) ==
    <<<<"thumb">>, <<"exc_return">>, Pc(t, 1)>> \o [i \in 1..(HW + SW - 3) |-> Zero]

\* What xrt_thread_stack_frame_init leaves on the stack of thread t: the two
\* frames of a thread that was interrupted before its first instruction.
InitialFrame(t) ==
    <<<<"thumb">>, Pc(t, 1), <<"exc_return">>>> \o [i \in 1..(HW + SW - 3) |-> Zero]

Prepared(c, t) ==
    [c EXCEPT !.stack[t] = InitialFrame(t), !.sp[t] = Pointer(t, HW + SW)]

NoContext ==
    [regs  |-> [r \in Reg |-> Junk],
     psp   |-> Pointer(Main, 0),
     stack |-> [t \in Thread |-> <<>>],
     sp    |-> [t \in Thread |-> Pointer(Main, 0)]]

ContextInit == core = Prepared(NoContext, Idle)

----------------------------------------------------------------------------
(* When frames are pushed and popped.  Exceptions that follow one another  *)
(* without a return to thread mode in between share one frame; one that    *)
(* preempts another's handler pushes on the main stack.                    *)

ThreadMode == ~pendSV /\ ~switching /\ ~inTick /\ svc = NoCall

Entered(c) == IF ThreadMode /\ ~ThreadMode' /\ cpu # Main THEN Stacked(c) ELSE c
Left(c) == IF ~ThreadMode /\ ThreadMode' /\ cpu' # Main THEN Unstacked(c) ELSE c

Create(t) ==
    /\ ThreadCreate(t) /\ UNCHANGED <<primitives, svc>>
    /\ core' = Prepared(core, t)

\* The steps of XrtSystem that move no context between registers and TCBs.
Handle ==
    /\ \/ /\ \/ StartStep
             \/ TickBegin \/ TickVisit \/ TickEnd
             \/ svc = NoCall /\ PendSVEnter
          /\ UNCHANGED <<primitives, svc>>
       \/ Dispatch
    /\ core' = Left(Entered(core))

FirstSwitch ==
    /\ PendSVFirst /\ UNCHANGED <<primitives, svc>>
    /\ core' = Left(Loaded(core, Running))

\* The store comes before the rescheduling, the load after it.
Switch ==
    /\ PendSVSwitch /\ UNCHANGED <<primitives, svc>>
    /\ core' = Left(Loaded(Stored(core, Running), Head(lists'["running"])))

\* Thread t executes its n-th instruction, i.
Executes(t, n, i) ==
    /\ cpu = t /\ ThreadMode
    /\ core.regs["PC"] = Pc(t, n)
    /\ i = Code[t][n]

\* Mutant: the word below the program counter's is read.
CalledFromLr(c) == WordAt(c, c.psp, 5)

\* SVC_Handler: R0 is the word PSP points to, the PC is six words above it, and
\* the call's number is in the instruction before.
CalledAt(c) == WordAt(c, c.psp, 6)

DecodedArgument(c) == WordAt(c, c.psp, 0)
DecodedNumber(c) ==
    LET pc == CalledAt(c)
    IN  IF pc[1] = "pc" /\ pc[3] > 1 THEN Code[pc[2]][pc[3] - 1].op ELSE "garbage"

----------------------------------------------------------------------------
(* Where the context of a thread is. *)

\* How much of its stack thread t itself uses, frames of exceptions aside.
Depth(t) ==
    IF cpu # t THEN core.sp[t].used - HW - SW
    ELSE IF ThreadMode THEN core.psp.used ELSE core.psp.used - HW

\* What thread t has in register r, or will find there when it goes on.
RegisterOf(t, r) ==
    IF cpu = t /\ (ThreadMode \/ r \in DOMAIN SwOffset) THEN core.regs[r]
    ELSE IF cpu = t THEN WordAt(core, core.psp, HwOffset[r])
    ELSE WordAt(core, core.sp[t],
                IF r \in DOMAIN SwOffset THEN SwOffset[r] ELSE SW + HwOffset[r])

ContextOf(t) ==
    [regs |-> [r \in Reg |-> RegisterOf(t, r)], words |-> SubSeq(core.stack[t], 1, Depth(t))]

\* A thread finds its sixteen registers and its stack as it left them, through
\* every chain of ticks, calls and switches that comes between two instructions of
\* its own (PendSV_Handler, SVC_Handler, xrt_kernel_schedule in between).
ContextKept ==
    [][\A t \in Created :
          \/ ContextOf(t)' = ContextOf(t)
          \/ cpu = t /\ ThreadMode /\ UNCHANGED <<kernelVars, primitives>>]_<<vars, core>>

\* Stacks do not mix and do not leak: every saved stack pointer is into its own
\* thread's stack, the PSP is into that of the thread on the CPU, and no stack grows
\* past what xrt_thread_create insists on however often its thread is switched.
StacksApart ==
    /\ cpu # Main => core.psp.of = cpu
    /\ \A t \in Created :
          /\ core.sp[t].of = t
          /\ Depth(t) \in 0..(MinStackWords - HW - SW)

\* The call SVC_Handler reads from the stack is the one the thread raised, although
\* ticks and interrupts come between the instruction and the dispatch.
CallDecoded ==
    svc # NoCall =>
       DecodedNumber(core) = svc.op /\ DecodedArgument(core) = Argument(svc.arg)
=============================================================================
