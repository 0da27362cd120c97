-------------------------- MODULE XrtAppInvariant --------------------------
(***************************************************************************)
(* The inductive invariant behind the safety of the example on its         *)
(* registers and stacks.                                                   *)
(***************************************************************************)
EXTENDS XrtApp, XrtInvariant

\* What a register or a word of a stack can hold.
Word ==
    {Junk, Zero, <<"thumb">>, <<"exc_return">>}
      \cup {Pc(t, n) : t \in Thread, n \in 1..9}
      \cup {Argument(n) : n \in 1..MaxDelay}
      \cup {<<"own", t, r>> : t \in Thread, r \in Reg \cup {"SP"}}

Pointers == [of : Thread \cup {Main}, used : Nat]

CoreTypeOK ==
    core \in [regs : [Reg -> Word], psp : Pointers,
              stack : [Thread -> Seq(Word)], sp : [Thread -> Pointers]]

\* The frames on the stack of thread t that its registers are in are complete: one
\* while a handler serves it, two while it is not on the CPU.
FramesOn(t) ==
    /\ core.sp[t].of = t
    /\ IF cpu = t
       THEN /\ core.psp.of = t /\ core.psp.used <= Len(core.stack[t])
            /\ ThreadMode \/ HW <= core.psp.used
       ELSE HW + SW <= core.sp[t].used /\ core.sp[t].used <= Len(core.stack[t])

\* Thread t goes on with its n-th instruction.
GoesOnAt(t, n) == RegisterOf(t, "PC") = Pc(t, n)

\* A thread is in its own function, its frame is that of the place it is at, and
\* what it passes to xrt_thread_delay stays in R0 until the delay is over.
InItsFunction(t) ==
    \E n \in 1..Len(Code[t]) :
       /\ GoesOnAt(t, n)
       /\ Depth(t) = IF n = 1 THEN 0 ELSE FrameWords
       /\ Code[t][n].op \in {"OS_DELAY", "JUMP"} => RegisterOf(t, "R0") = Argument(Delay)

\* A pending call is the one delay, and its caller has just gone past it.
CallMade ==
    svc # NoCall =>
       /\ svc = [op |-> "OS_DELAY", arg |-> Delay]
       /\ \E n \in 1..Len(Code[cpu]) : GoesOnAt(cpu, n) /\ Code[cpu][n].op = "JUMP"

\* Thread t is putting LEDs out, and has yet to put out this one.
StillPutsOut(t, led) ==
    /\ t \in Created
    /\ \E n, k \in 1..Len(Code[t]) :
          /\ GoesOnAt(t, n) /\ n <= k
          /\ Code[t][n].op = "RESET" /\ Code[t][k] = Do("RESET", led)

\* All lit LEDs but one, the one lit last, are about to be put out by somebody.
LastStays ==
    /\ lit \subseteq Leds
    /\ \E last \in Leds : \A led \in lit \ {last} : \E t \in Thread : StillPutsOut(t, led)

AppIInv ==
    /\ IInv /\ CoreTypeOK
    /\ \A t \in Created : FramesOn(t) /\ InItsFunction(t)
    /\ CallMade /\ LastStays
=============================================================================
