------------------------------- MODULE XrtApp -------------------------------
(***************************************************************************)
(* The example: main brings the kernel up with the application's threads,  *)
(* each of which for ever lights its own LED, puts the other three out and *)
(* sleeps.  The threads run on the registers and stacks of XrtContext and  *)
(* share the LEDs without a lock.                                          *)
(***************************************************************************)
EXTENDS XrtContext

CONSTANTS
    AppThreads,  \* the threads xrt_app_init creates, in its order
    Function,    \* thread -> which of the five functions it executes
    Delay,       \* what it gives to xrt_thread_delay
    FrameWords   \* the words its function pushes when it is entered

ASSUME AppAssumption ==
    /\ AppThreads \in Seq(Thread) /\ IsInjective(AppThreads)
    /\ ToSet(AppThreads) = Thread \ {Idle}
    /\ Function \in [Thread -> 1..5]
    /\ Delay \in 1..MaxDelay
    /\ FrameWords \in Nat

VARIABLE lit    \* the LEDs that are on

appVars == <<vars, core, lit>>

Do(op, led) == [op |-> op, led |-> led]

Leds == {"LD3", "LD4", "LD5", "LD6"}

\* The LED each function lights, and the others in the order it puts them out.
OwnLed == <<"LD3", "LD4", "LD5", "LD6", "LD6">>
OtherLeds ==
    <<<<"LD4", "LD5", "LD6">>, <<"LD3", "LD5", "LD6">>, <<"LD3", "LD4", "LD6">>,
      <<"LD3", "LD4", "LD5">>, <<"LD3", "LD5", "LD4">>>>

PutOut(f) == [i \in 1..3 |-> Do("RESET", OtherLeds[f][i])]

\* Mutant: the others are put out before the own LED is lit.
BodyLate(f) == PutOut(f) \o <<Do("SET", OwnLed[f])>>

\* What function f does in each round before it sleeps.
Body(f) == <<Do("SET", OwnLed[f])>> \o PutOut(f)

\* The functions of the threads; idle_exec_function is a jump to itself.
AppCode ==
    [t \in Thread |->
       IF t = Idle THEN <<Do("LOOP", "none")>>
       ELSE <<Do("ENTER", "none")>> \o Body(Function[t])
              \o <<Do("ARGUMENT", "none"), Do("OS_DELAY", "none"), Do("JUMP", "none")>>]

ASSUME CodeAssumption == Code = AppCode

\* main: HAL_Init and MX_GPIO_Init, xrt_kernel_init.
AppInit == Init /\ ContextInit /\ lit = {}

\* xrt_app_init: the next thread in order.
CreateNext ==
    /\ Cardinality(Created) <= Len(AppThreads)
    /\ Create(AppThreads[Cardinality(Created)])
    /\ UNCHANGED lit

\* Everything else main and the handlers do; xrt_app_start follows xrt_app_init.
Kernel ==
    /\ Created = Thread
    /\ Handle \/ FirstSwitch \/ Switch
    /\ UNCHANGED lit

----------------------------------------------------------------------------
(* The instructions. *)

\* The registers when thread t has done its n-th instruction and left values of
\* its own in those of used.
After(t, n, used) ==
    [r \in Reg |-> IF r = "PC" THEN Pc(t, n + 1)
                   ELSE IF r \in used THEN <<"own", t, r>>
                   ELSE core.regs[r]]

\* The prologue; from here on every register the function may keep has a value.
Enter(t, n) ==
    /\ Executes(t, n, Do("ENTER", "none"))
    /\ core' = [core EXCEPT
                  !.stack[t] = SubSeq(@, 1, core.psp.used) \o [i \in 1..FrameWords |-> <<"own", t, "SP">>],
                  !.psp.used = @ + FrameWords,
                  !.regs = After(t, n, DOMAIN SwOffset)]
    /\ UNCHANGED <<vars, lit>>

\* A call of HAL_GPIO_WritePin.
WritePin(t, n) ==
    /\ \E led \in Leds :
          \/ Executes(t, n, Do("SET", led)) /\ lit' = lit \cup {led}
          \/ Executes(t, n, Do("RESET", led)) /\ lit' = lit \ {led}
    /\ core' = [core EXCEPT !.regs = After(t, n, DOMAIN HwOffset \ {"xPSR"})]
    /\ UNCHANGED vars

\* xrt_thread_delay puts its argument into R0 ...
PassDelay(t, n) ==
    /\ Executes(t, n, Do("ARGUMENT", "none"))
    /\ core' = [core EXCEPT !.regs = [After(t, n, {}) EXCEPT !["R0"] = Argument(Delay)]]
    /\ UNCHANGED <<vars, lit>>

\* ... and raises the call.
CallDelay(t, n) ==
    /\ Executes(t, n, Do("OS_DELAY", "none"))
    /\ Raise([op |-> "OS_DELAY", arg |-> Delay])
    /\ core' = Entered([core EXCEPT !.regs = After(t, n, {})])
    /\ UNCHANGED lit

LoopBack(t, n) ==
    /\ Executes(t, n, Do("JUMP", "none"))
    /\ core' = [core EXCEPT !.regs["PC"] = Pc(t, 2)]
    /\ UNCHANGED <<vars, lit>>

Instruction(t) ==
    \E n \in 1..Len(Code[t]) :
       Enter(t, n) \/ WritePin(t, n) \/ PassDelay(t, n) \/ CallDelay(t, n) \/ LoopBack(t, n)

AppNext == CreateNext \/ Kernel \/ \E t \in Thread \ {Idle} : Instruction(t)

AppSpec == AppInit /\ [][AppNext]_appVars

(***************************************************************************)
(* Fairness.  The kernel's; main creates its threads; a thread that has    *)
(* the CPU again and again gets on.  A tick period is long: ticks do not   *)
(* come before every instruction of a thread.                              *)
(***************************************************************************)
AppFairness ==
    /\ Fairness
    /\ WF_appVars(CreateNext)
    /\ \A t \in Thread \ {Idle} :
          []<>(cpu = t /\ state[t] = "RUNNING" /\ svc = NoCall) => []<><<Instruction(t)>>_appVars

AppFairSpec == AppSpec /\ AppFairness

----------------------------------------------------------------------------
\* Thread t is created and executes an instruction like this next.
At(t, op) ==
    /\ t \in Created
    /\ LET pc == RegisterOf(t, "PC") IN Code[pc[2]][pc[3]].op = op

\* Whenever no thread is in the middle of its round at most one LED is lit, in
\* whatever order the rounds overlapped: the functions light before they put out.
OneLed ==
    (\A t \in Thread : ~At(t, "RESET")) => Cardinality(lit) <= 1

\* Every thread lights its LED again and again: each delay ends, each thread gets
\* the CPU in turn, and it comes back where it left off.
KeepsBlinking ==
    \A t \in Thread \ {Idle} : []<>At(t, "SET") /\ []<>At(t, "OS_DELAY")
=============================================================================
