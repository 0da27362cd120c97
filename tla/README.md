# A TLA+ verification of the xrt kernel

`xrt` is a small preemptive real-time kernel for the Cortex-M4: threads with
fixed priorities, mutexes with priority inheritance, counting semaphores,
delays, and queues built on the semaphores.  This directory holds its
specifications in TLA+, from the links of its lists to the registers of its
context switch, the TLC configurations that check them on small instances, and
proofs, checked by TLAPS, that the main safety properties hold for any number of
threads, primitives and blocks.

1. [The system](#1-the-system)
2. [The modules](#2-the-modules)
3. [How the model corresponds to the code](#3-how-the-model-corresponds-to-the-code)
4. [The runs](#4-the-runs)
5. [What the code does not do](#5-what-the-code-does-not-do)
6. [The proofs](#6-the-proofs)
7. [What is not modelled](#7-what-is-not-modelled)
8. [Plan](#8-plan)

## 1. The system

| Component | Source | State | Operations | What makes it correct |
|---|---|---|---|---|
| list | `xrt_list.c` | per anchor `head`, `size` (8 bits); per node `prev`, `next`, `data` | insert last, insert before, remove | rings closed, a node in one list, the order a sequence would have |
| kernel | `xrt_kernel.c` | ready, running and stopped list; `is_os_kernel_started`, `is_os_first_cs_occurs` | init, start, schedule, tick, wake, block, reorder | each thread in one list and its TCB agrees; highest priority runs; delays end; equals rotate |
| threads | `xrt_thread.c` | TCBs, `next_thread_id`, the initial frame | create, yield, delay | a created thread is schedulable and starts at its function |
| mutexes | `xrt_mutex.c` | owner, wait list | lock, unlock | exclusion, hand-over to the best waiter, inheritance and its end |
| semaphores | `xrt_semaphore.c` | count and ceiling (16 bits), wait list | take, release, release from an interrupt | no token lost or invented, best waiter first |
| queues | `xrt_queue.c` | buffer, read and write pointer, a semaphore of free slots, one of filled slots | send, receive, send from an interrupt | FIFO, nothing lost or overwritten, nobody waits beside a slot or a block |
| supervisor calls | `xrt_system_calls.c` | the call in flight | dispatch | served for the thread that called, with the argument it passed |
| port | `port/cm4` | BASEPRI, PENDSVSET, PSP, registers, stacks | PendSV, SVC, critical section, store and load of a context | a thread finds its registers and its stack as it left them |
| host port | `port/host` | none | stubs | compiles |
| example | `example`, `main.c` | five threads at one priority, four LEDs | blink | each LED has its turn, one at a time |

How they interact: threads call primitives through the SVC instruction;
`xrt_system_calls_dispatch` runs the call in a critical section on behalf of the
head of the running list.  Interrupt handlers and the tick call the kernel
directly, in critical sections of their own.  All of them move threads between
lists, and request a switch by pending PendSV, which later saves the context of
the running list's head, calls `xrt_kernel_schedule`, and loads the context of
the new head.  A queue is used by threads as two supervisor calls with a
critical section between them, and by a handler as one critical section.

What is hard is the time between those steps.  A thread that blocks is *marked*
in its supervisor call and *moved* in PendSV: in between it is still the running
thread, its TCB already names the list it will wait in, and ticks and interrupts
arrive.  PendSV itself can be preempted before it raises BASEPRI.
`xrt_kernel_start` runs unmasked.  The tick moves threads out of the list it is
walking.  Priorities change while threads sit in lists ordered by them.  The
token a thread takes from a queue's semaphore names no slot, and others move the
pointers between its take and its copy.  Exceptions chain into one another
without a return to thread mode, so a frame pushed by one is popped by another.
`PROJECT.json` lists these hazards at their lines, with the properties that
cover each.

## 2. The modules

| Module | What it is |
|---|---|
| `XrtThreadLists` | insertion by priority and removal on sequences of threads |
| `XrtKernel` | threads, bring-up, scheduler, PendSV, tick |
| `XrtSemaphore`, `XrtMutex` | the primitives, on the kernel |
| `XrtSystem` | their composition under a general client: calls, interrupts, ticks; `Spec`, `FairSpec`, `SingleLockSpec` |
| `XrtProperties` | what the kernel owes its threads |
| `XrtInvariant` | the kernel's inductive invariant `IInv` |
| `SemaphoreContract`, `MutexContract`, `QueueContract` | what one semaphore, one mutex, one queue promises (abstract specifications) |
| `XrtQueue` | a queue on the kernel, its clients and its properties |
| `XrtContext` | registers, process stacks and the frames of exceptions and switches, under the kernel |
| `XrtApp` | the example's threads, instruction by instruction, on `XrtContext` |
| `XrtAppInvariant` | the inductive invariant `AppIInv` of registers, stacks, calls and LEDs |
| `XrtListHeap`, `ListContract` | `xrt_list.c` link by link, and the sequences it implements |
| `XrtThreadHeap` | the kernel's insertions and moves on those links, TCBs included |
| `MCXrt`, `MCQueue`, `MCApp` | instances for TLC |
| `XrtThreadListsProofs`, `XrtSystemProofs` | the proofs of the kernel's invariant and what follows |
| `XrtContractProofs` | each semaphore and mutex keeps its contract |
| `XrtPriorityProofs` | priority inheritance, that the highest priority runs, that equals never overtake one another |
| `XrtQueueProofs` | the queue is a bounded FIFO, and its threads a client like any other |
| `XrtContextProofs` | contexts are kept, calls decoded, stacks apart; at most one LED between rounds |
| `XrtListHeapProofs`, `XrtThreadHeapProofs` | the links are closed rings, and do what sequences do |

`XrtSystem` extends `XrtSemaphore` and `XrtMutex`, which extend `XrtKernel`,
which extends `XrtThreadLists`; `XrtQueue` and `XrtContext` extend the system
with what lies above and below it.  Four refinements tie the levels together.
Each contract says what one call does, and the mapping says which call it is: a
step that ends a call has to be the abstract operation of that call, on its
arguments, so a call that does nothing, or the work of another one, is no step of
the contract.

- `XrtListHeap` implements `ListContract`, a list read as the nodes met from its
  head.  Each operation is a step of its own there, so `ImplementsSequences` asks
  of every `InsertLast(l, n)` that it is `AddLast(l, n)`, and likewise of the
  others (`DoneAsCalled`);
- `XrtThreadHeap` implements the operators of `XrtThreadLists`, which `XrtKernel`
  is built from (`LinksImplementLists`);
- each semaphore and mutex of `XrtSystem` implements its contract
  (`SemaphoreContracts`, `MutexContracts`), the waiters being the threads whose
  TCB names its wait list.  The contract's `pending` is the supervisor call about
  this primitive that was raised and not yet dispatched (`Asked`);
- `XrtQueue` implements `QueueContract` (`ImplementsFifo`), the blocks being
  those between the read pointer and as many filled slots further.  The
  contract's `stage` of a client is where the thread is in its queue function
  (`job`), so a thread's copy has to append the block its call was made with; an
  append without a stage is a handler's, exists only where a handler sends, and
  has to be of the handler's block (`HandlerSendsItsBlock`).

Definitions that begin with "Mutant" in their comment are what plausible bugs
would make of the definition after them; they are used only to see that each
property notices.

### The insertion, as committed and repaired

`xrt_kernel.c:211` calls `cdll_insert_node_before(list, existing, ...)` with a
`TCB_t*` where a `cdll_node*` is expected: insertion in front of a thread of
lower priority corrupts that thread's TCB and links the new one nowhere
(`WrongAnchor`, section 5).  With it the kernel works only as long as every
insertion is at a tail.  To say anything about the rest of the code, the
constant `AnchorIsNode` selects the call: `FALSE` as committed, `TRUE` with
`existing->thread_node`.  `XrtKernel`'s `InsertionAssumption` admits the
committed form only when all threads, the idle thread included, have one
priority; there it is faithful (`AsCommitted`).  All other
runs of the kernel use the repaired call, that one token being the only
difference from the source.

## 3. How the model corresponds to the code

`PROJECT.json` maps every definition to the lines it translates.  The main
choices:

- **Atomicity.** BASEPRI masks every handler that may call the kernel, so a
  critical section is one action: `Dispatch` (a supervisor call), `IsrRelease`,
  `PendSVFirst`/`PendSVSwitch` (from the raise of BASEPRI on).  The exceptions
  are kept apart where the code can be interrupted: `Raise` (the SVC instruction)
  and `Dispatch`; `PendSVEnter` (the hardware clears the pending bit) and the
  switch; the four steps of `xrt_kernel_start`.  The tick's scan is one step per
  thread, because it is a loop over a list that it changes; nothing else steps
  meanwhile (`inTick`).  `scan` is what is left of the ring from `next_node` on,
  which the code reads before it moves the visited thread; the mutant
  `TickVisitLate` reads it after the move, walks on in the ready list, and
  `DelayExpires` fails.
- **Exception priorities.** A thread steps only when no exception is pending
  (`Raise`).  SysTick (14) and devices preempt SVC and PendSV (both 15), which
  do not preempt each other; of the two pending, SVC is taken first
  (`svc = NoCall` in `KernelStep`).
- **The CPU.** `cpu` is the thread whose registers thread mode holds, `Main`
  before the first switch.  `RightThread` compares it with the head of the
  running list, which is what `xrt_thread_store_context` and the dispatcher use.
- **Lists** are sequences read from the head (`lists`); `loc` is
  `currently_located_list`.  A thread that is marked and not yet moved is in
  `lists["running"]` while `loc` names another list.
- **Primitives** are created with the threads, before the kernel starts, and
  never deleted.  A refused `xrt_semaphore_init`, `xrt_queue_init` or
  `xrt_thread_create` is not used by the client: `SemaphoreAssumption`,
  `QueueAssumption` and the guard of `ThreadCreate` are their conditions.
  `NULL` arguments are not passed.
- **The client** of `XrtSystem` is the most general one: any thread but the idle
  one makes any call with any primitive at any time; any semaphore in
  `IsrSemaphore` is released by handlers at any time after bring-up began; the
  tick comes at any time, without bound.  Nothing is assumed of the
  application's protocol.  `SingleLockSpec` is the same client with threads that
  hold one mutex at a time, the condition under which priority inheritance
  works at all (section 5).
- **Queues.** A call of a thread is three steps (`SendCall`, `SendCopy`,
  `SendDone`, and the same of a receive): the supervisor call that takes a
  token, the critical section that copies the block and moves the pointer, the
  supervisor call that releases a token of the other semaphore.  Everything else
  may happen in between, the switch to threads that do the same included.
  `IsrSend` is one critical section, and changes nothing without a free slot.
  The general client goes on making every other call, but between the steps of
  its own queue call a thread makes no other.  Only the queue uses its two
  semaphores.  `slots` is indexed by offset, so that a pointer that is not at the
  start of a block would show.  What a caller's variable holds between its calls
  is forgotten (`Unread`).
- **Registers and stacks** (`XrtContext`).  A stack is a sequence of words from
  its top down; a stack pointer names a stack and a depth in it.  Words are tags,
  told apart and not computed with.  The core pushes its eight-word frame when it
  leaves thread mode and pops it when it comes back (`Entered`, `Left`, both
  defined on `ThreadMode`): exceptions that tail-chain share one frame, and one
  that preempts another's handler uses the main stack.  `Stored` and `Loaded`
  are the two halves of PendSV's assembly, with PSP where the code leaves it.
  `CallDecoded` reads the call from the caller's frame the way `SVC_Handler`
  does, at whatever moment the dispatch comes.
- **The example** (`XrtApp`) runs on those registers: every call of
  `HAL_GPIO_WritePin` is an instruction, the entry pushes a frame of its own
  (`FrameWords`), the delay puts its argument into R0 and raises the call.
  `Function` says which of the five functions a thread executes.  The fifth
  lights LD6, as the fourth does, through LD4's port (`xrt_app.c:158`; all four
  LEDs share a port), and puts out LD4 last.
- **Numbers.** The semaphore count is modulo 2^16, list sizes modulo 2^8.
  `wake_tick` is a natural number: it only counts down from the 32-bit argument.

## 4. The runs

Each property of a passing run is also checked against a mutant of the code that
must violate it (`PROJECT.json`, "mutants").

| Run | Instance | Question |
|---|---|---|
| `SingleLocks` | the idle thread and three more, of priorities 1, 2 and 3; two mutexes of which no thread holds both, one semaphore released by an interrupt | do placement, scheduling, inheritance and the mutex contract hold? |
| `AsCommitted` | the committed insertion, the idle thread and three more at one priority, one mutex, one semaphore with interrupts, fairness | is the invariant true of the code as it is? do equals keep their order, and does each get its turn? |
| `Live` | threads as in `SingleLocks`, one mutex, one semaphore, delays of up to two ticks, fairness | do delays end, blocked threads leave, the most urgent thread run? |
| `ListHeap` | two lists, four nodes, every legal call | are the rings closed, do they implement sequences? |
| `ThreadHeap` | four threads, two lists, three priorities that change at will | do the rings stay closed, do the links implement insertion by priority? |
| `Queue` | a queue of two blocks, two values; two equal threads, one above, an interrupt handler that sends | are slots conserved, is it a bounded FIFO, does the kernel's invariant survive? |
| `QueueThreads` | the same threads without the handler, one value, fairness | does anybody wait for ever beside a slot or a block, or at all beside a token? do the semaphores keep their contract? |
| `App` | two of the example's threads, the first and the fifth, on registers and stacks, delays of two ticks, fairness | are contexts kept and calls decoded? is at most one LED lit between rounds, and does each keep blinking? is `AppIInv` true? |
| `WrongAnchor`, `StalledQueue`, `NestedMutexes`, `FullCounter` | small | section 5 |

**Bounds.** The only bounds on behaviours are `MaxDelay` (at most 2 ticks: the
tick decrements, and zero is the only special value, so two ticks show both
branches; the queue's clients need none) and the number of threads.  There is no
bound on the number of ticks, calls, interrupts, sends or receives.  The
unbounded counters of the code are bounded by the code itself (ceilings,
`wake_tick`, pointers that wrap), so TLC exhausts the state space.

A queue of two blocks of four bytes has an empty, a half-filled and a full
state, wraps after every second block, and lets two senders hold tokens at once;
`StalledQueue` has one block, since a single slot is what makes the loss
permanent.  `App` has two threads, which are enough for a switch in each
direction and for two rounds to overlap, one of them with the fifth function;
`Delay` stands for the code's 1000 ticks.  `FrameWords` is 4: any depth will do,
since `ContextKept` compares what a thread finds with what it left;
`StacksApart` holds up to the depth `StacksStayApart` names.

**Fairness.**  `Fairness` of `XrtSystem`: main is straight-line code (weak
fairness of `StartStep`).  SysTick keeps coming (weak fairness of `TickBegin`),
its handler finishes (`TickVisit`, `TickEnd`).  A pending supervisor call or
switch is disabled while a tick is handled, again and again; handlers take less
than a tick period, so it is not put off for ever (strong fairness of
`Dispatch`, `PendSVEnter` and the switch).  Threads and devices owe nothing: no
property of the kernel assumes that anybody unlocks, releases or calls anything.

`QueueFairness` adds that a thread inside a queue function gets through it if it
is given the CPU again and again, and `AppFairness` the same of the example's
instructions.  Both are conditions on the thread's having the CPU (`HasCpu`) and
not on the step being enabled: a tick may fall into every single state in which
an instruction is enabled, so strong fairness of the instruction would not
say what the processor does, while a tick period is many instructions long.
Neither assumes that anybody starts a send or a receive.  `DeviceFairSpec`, used
only to make `StalledQueue` as hard as possible, adds a device that never stops
trying to send.

**Properties** worth a word:

- `Seated` is the header's "A thread is in exactly one of them, or in a
  primitive's wait list, and its TCB names which"
  (`xrt_kernel_internal.h:8-10`), with the exception the TCB's comment names
  (`xrt_thread.h:60-64`).
- `RightThread` is what the order of `xrt_kernel_start` is about: a tick after
  `is_os_kernel_started` pends PendSV, and if the first switch were not armed by
  then PendSV would save main's registers into the first thread's TCB.
- `HighestRuns` is about requests: nothing but PendSV looks at priorities, so
  every step that changes who should run must pend it.  It holds as long as no
  thread holds two mutexes, and fails with nested ones, for the reason
  `NestedMutexes` shows: an unlock with no waiter lowers the caller's priority
  and requests no switch.
- `NoIdleToken` speaks of semaphores only threads release, because the thread
  that waits is moved before another thread can run.  An interrupt can come
  earlier (section 5).
- `SemaphoreContracts` leaves out the semaphores a handler releases, for the same
  reason: there the waiter may be marked and not yet queued, and the release
  counts beside it.
- `Conserved` counts a token wherever it is: in the counter, in a supervisor call
  that is about to release it, with a thread that took it and has not yet copied,
  with one that has copied and not yet released.
- `SlotsReachSenders` and `BlocksReachReceivers` are about a most urgent thread,
  because one of lower priority can be kept from the CPU, and about tokens that
  are there or on their way, because nobody is obliged to send or to receive.
- `ContextKept` reads a thread's registers wherever they are at the moment: in the
  core, in the frame an exception pushed, or below the thread's saved stack
  pointer.
- `OneLed` does not hold in the middle of a round, and holds after it whatever
  the interleaving, because each thread lights its own LED before it puts out the
  others.

## 5. What the code does not do

Four runs show where the code departs from what its headers say.

1. **`WrongAnchor`** (`xrt_kernel.c:211`).  The TCB is passed for the list node.
   "Registers a thread with the kernel and places it in the ready list"
   (`xrt_thread.h:70`) is false for the first thread created above the idle
   thread's priority, that is for the first thread of the example.
2. **`StalledQueue`** (`xrt_semaphore.c:43`, reached from `xrt_queue.c:113`).  A
   signal from an interrupt between a blocking take and PendSV finds the wait
   list empty and counts a token; the thread is then queued and sleeps although
   the token is there.  For a semaphore: "Returns a token, waking the highest
   priority waiter if there is one" (`xrt_semaphore.h:37`).  For a queue the
   thread sleeps beside the block it asked for, where `xrt_queue.h:42` has it
   "blocking while it is empty"; with one block the queue stays full, every later
   send from the handler fails before it reaches the signal, and nothing wakes
   the receiver any more.  With more blocks the next send wakes it, one block
   late.
3. **`NestedMutexes`** (`xrt_mutex.c:59-61`).  Unlocking one mutex takes back the
   priority lent for another: "the owner runs at the waiter's priority until it
   unlocks" (`xrt_mutex.h:6-8`).
4. **`FullCounter`** (`xrt_semaphore.c:49-52`).  With a ceiling of 65535 the
   release of a full semaphore wraps the count to 0: "a release past it is
   dropped" (`xrt_semaphore.h:20`).

Seen while reading, with no run:

- `xrt_mutex.c:46` boosts a delayed owner and does not "re-sort[] the owner
  within whatever list it sits in" (`xrt_mutex.h:42-43`).  Harmless: the stopped
  list's order is never used.
- `xrt_kernel_internal.h:5` has every kernel function called inside a critical
  section, but `xrt_thread_create` and `xrt_kernel_start` call them outside of
  one (nothing else touches the lists then, which is what `Phase` of the
  invariant says).
- `port/cm4/xrt_port_cm4.h` ends in the middle of `XRT_SYSCALL_NO_ARG`, so the
  Cortex-M4 port does not compile as committed; the model reads that macro as
  the call without its argument.

## 6. The proofs

The proof modules establish, for every set of threads, semaphores and mutexes,
every assignment of priorities, ceilings and delays, every queue and every set
of blocks, every number of the example's threads and every set of linked lists:

| Module | Theorem | Statement |
|---|---|---|
| `XrtSystemProofs` | `Invariance` | `Spec => []IInv` |
| | `TypeCorrect` | `Spec => []TypeOK` |
| | `NoThreadLost` | `Spec => []Seated` |
| | `AlwaysOneRuns` | `Spec => []OneRuns` |
| | `AlwaysSorted` | `Spec => []Sorted` |
| | `TcbsAgree` | `Spec => []StateAgrees` |
| | `AlwaysSomebody` | `Spec => []SomebodyRunnable` |
| | `ContextsSavedRight` | `Spec => []RightThread` |
| | `WaitedForIsOwned` | `Spec => []WaitersHaveOwner` |
| | `LoansEnd` | `Spec => []PriorityRestored` |
| | `NeverDown` | `Spec => NeverYieldsDown` |
| | `TokensSafe` | `NoFullCounter => (Spec => TokensOnlyTaken)` |
| `XrtContractProofs` | `NoTokenIdle` | `Spec => []NoIdleToken` |
| | `SemaphoresKeepContract` | `NoFullCounter => (Spec => SemaphoreContracts)` |
| | `MutexesKeepContract` | `Spec => MutexContracts` |
| `XrtPriorityProofs` | `LendingSuffices` | `SingleLockSpec => []Inheritance` |
| | `HighestAlwaysRuns` | `SingleLockSpec => []HighestRuns` |
| | `EqualsKeepTheirTurn` | `Spec => NoOvertaking` |
| `XrtQueueProofs` | `QueueKeepsKernel` | `QueueSpec => []IInv` |
| | `SlotsConserved` | `QueueSpec => []Conserved` |
| | `QueueIsFifo` | `QueueSpec => ImplementsFifo` |
| | `QueueTyped` | `QueueSpec => []QueueTypeOK` |
| | `QueueIsClient` | `ReadAccess \notin IsrSemaphore => (QueueSpec => Spec)` |
| | `QueueTokensNotIdle` | `QueueSpec => []NoIdleToken` |
| | `QueueSemaphoresKeepContract` | `QueueSpec => SemaphoreContracts`, if no handler sends and the ceilings of the other semaphores are below 65535 |
| `XrtContextProofs` | `AppInvariance` | `AppSpec => []AppIInv` |
| | `AppIsClient` | `AppSpec => Spec` |
| | `ContextsKept` | `AppSpec => ContextKept` |
| | `CallsDecoded` | `AppSpec => []CallDecoded` |
| | `AtMostOneLed` | `AppSpec => []OneLed` |
| | `StacksStayApart` | `FrameWords <= MinStackWords - HW - SW => (AppSpec => []StacksApart)` |
| `XrtListHeapProofs` | `ListsStayRings` | `ListSpec => []RingsClosed` |
| | `LinksAreSequences` | `ListSpec => ImplementsSequences` |
| `XrtThreadHeapProofs` | `HeapRingsClosed` | `Repaired => (Spec => []RingsClosed)` |
| | `ThreadsInTheirLists` | `Repaired => (Spec => []InItsList)` |
| | `TcbsUntouched` | `Repaired => (Spec => []FramesIntact)` |
| | `LinksDoAsLists` | `Repaired => (Spec => LinksImplementLists)` |

(`Spec` is that of `XrtSystem`, in `XrtThreadHeapProofs` that of `XrtThreadHeap`.)

**Assumptions.**  `KernelAssumption` (the idle thread exists and has priority 0,
names are distinct), `InsertionAssumption` (the insertion is repaired, or all
priorities are equal), `SemaphoreAssumption` (what `xrt_semaphore_init`
accepts), `MutexAssumption`, `SystemAssumption`; for the queue
`QueueAssumption` (what `xrt_queue_init` accepts and sets up, its semaphores
being used by nobody else, finitely many threads); for the example
`AppAssumption` and `CodeAssumption` (which threads `xrt_app_init` creates, in
which order, and what they execute); for the links `HeapAssumption` (a node is
a place in memory, `NULL` is none) and `ThreadHeapAssumption` (at most 255
threads: a list's size has 8 bits).  TLC evaluates them in every run that uses
them.

Three theorems have a hypothesis that a run shows to be needed, or that a reader
should see.  `NoFullCounter` (no ceiling is 65535): `FullCounter` is the
counterexample; a queue's own semaphores do not need it, because `Conserved`
keeps them from being released when they are full.  `Repaired` (the insertion is
repaired, or all priorities are equal): `WrongAnchor`.  The bound on
`FrameWords` in `StacksStayApart`: nothing in the code keeps a function from
pushing more than its stack holds, and `StacksApart` says more than that
contexts are kept, which needs no bound.

**The kernel's invariant.**  None of the properties is inductive alone.
`Seated` needs to know who is allowed to be marked and not moved: only the
running thread, and only while a switch is due (`BlockedIsLeaving`) and no call
is pending (`CallPending`), so a second call cannot mark it twice.  The scan of
the tick needs `ScanSleeps` (what is left to visit is still in the stopped list)
to call `MoveThread` on the list its threads are in.  The switch needs somebody
ready, which is the idle thread or the thread that displaced it (`IdleRunnable`,
from "the idle thread makes no calls").  Bring-up needs `Phase`, which ties the
two flags, `cpu` and main's progress together, and says that nothing is waiting
before the first switch.  `Sorted` survives boosts because an owner is never
marked and unmoved when another thread runs, so `loc` names the list it is in;
it survives the restoration because the unlocking thread is alone in the running
list.  `PriorityRestored` needs `WaitersHaveOwner` and `OwnersCreated`.
`Uniform` carries `InsertionAssumption` to the current priorities.

`XrtThreadListsProofs` has the facts about sequences and about the family of
lists (`Placed`: a map from threads to the lists they are in), so the per-action
lemmas of `XrtSystemProofs` (`DispatchKeeps`, `TickVisitKeeps`, `SwitchKeeps`,
`CreateKeeps`, ...) speak of pushing, unlinking and moving only.  `StepKeeps`
joins them.

**The contracts.**  Each step is first reduced to what it does to one
primitive's count or owner and to its set of waiters (`SignalWaiters`,
`TakeChanges`, `ReleaseChanges`, ...), and then joined with the pending call:
`AsAsked` says that a call is raised or stays pending while the semaphore rests,
and is over only with one of the changes it asks for; every other step leaves
both alone.  `MutexAnswered` does the same for a mutex.  Each of these cases is an
action of the contract, and only a step that touches neither the call nor the
primitive is a stutter.  That the woken thread is the best waiter is `Sorted`.

**Inheritance.**  It is not inductive without knowing where loans come from.
With one mutex at a time, nobody owns two (`OneOwned`), a waiter owns none
(`WaitersOwnNone`), and a raised priority is at most that of some waiter of the
owner's mutex (`LentByWaiter`).  So an unlock takes back nothing that is owed,
and the thread that is handed the mutex, the best waiter, needs no boost.
`HighestRuns` is proved in the form `BestRuns`, which also covers the time
before the first switch: the thread `xrt_kernel_start` picked has to be still the
best one when it is loaded without a look at priorities.

**No overtaking.**  Inserting by priority and unlinking keep the order of everybody
else (`PushKeepsOthers`, `RemoveKeepsOthers`), so a step disturbs the order only
of the threads it moves.  `Moved` says of those that they left their list or that
their priority changed: the woken waiter, the two threads of a switch, the owner
that was boosted, or nobody.  The run that checks `NoOvertaking` has equal
priorities only; the theorem also covers the repaired insertion.

**The queue.**  Every step of the rest of the system is shown to be, for each of
the two semaphores, one of five changes (nothing, a take granted, a wait begun,
a token counted, a waiter served), and `Tokens` counts the same before and after.
The steps of the queue's own functions move one token from one side to the
other.  `TokenInv` joins this with who may be waiting: a thread that waits for a
free slot is in a send, one that waits for a block in a receive.  The FIFO
follows from `RingInv`: the write pointer is as many blocks after the read
pointer as slots are filled, modulo the capacity, so a copy in writes the slot
after the last block, and a copy out reads the oldest.  `OwnFifo` goes through
the six steps of a thread's calls one by one, because each must be the step of the
FIFO for that stage of that thread's call; `HandlerStep` ties the handler's block
to the one that is appended.

What holds of every client holds of a queue's: without a handler that sends, by
`QueueIsClient`.  A handler's send is no step of `XrtSystem`, because it takes a
token, which no handler may do there; so `NoIdleToken` is proved again for that
step (`IsrSendChange`), from the same lemma about what a change of a semaphore
preserves.  The semaphores' contracts are stated without such a handler, whose
take is no call.  They hold for the largest ceiling as well, because a
release of one of the queue's semaphores finds it below its ceiling: the token on
its way is one of the `BlockCount` there are (`QueueHasRoom`).

**Registers, stacks and LEDs.**  The words of a thread's context are in one of
three places: in the core while it executes, in the core and the frame on its
stack while a handler serves it, and below its saved stack pointer otherwise.
`ContextOf` reads them from wherever `ThreadMode` and `cpu` put them, and the
lemmas about `Entered`, `Left`, `Stored` and `Loaded` say that each carries one
place to another and changes no other thread's stack.  What makes this inductive
is `FramesOn`: the pointers are into the thread's own stack, and there are as
many words as the frames there need.  With `IInv` for who is at the head of the
running list (`RightThread`), every step of the kernel keeps every context, and
an instruction changes that of its own thread only.  `InItsFunction` ties the
program counter to the depth of the stack and to R0; `CallMade` ties the pending
call to the program counter of its caller, from which `CallDecoded` follows.
For the LEDs `OneLed` is far from inductive: in the middle of overlapping rounds
any number can be lit.  `LastStays` is what survives: every LED that is lit,
but for the one lit last, is about to be put out by some thread whose remaining
instructions include it.  So each function has to light its own LED first, and
its instructions to put out every other one, which holds of the fifth function
as well, although its LED is the fourth's.

**The links.**  A list is described by the sequence `s` of its nodes: the head is
the first, `next` and `prev` are the neighbours in the ring (`Around`), the size
is the length.  `InsertNodeBefore` and the others are shown to turn the ring of
`s` into that of the sequence with the node inserted or removed (`RingGrows`,
`RingShrinks`), and to touch no cell of another ring (`OneRingChanged`,
`RingsChange`).  The place of an insertion and the node of a removal come from the
call's arguments; before the head only the anchor tells the result from an
insertion at the tail.  That the walk over `next` returns `s` (`WalkIs`) is proved
without induction on the recursion: a smallest position at which they differed
would have a predecessor at which they do not.  `XrtThreadHeapProofs` puts
threads in the place of nodes: `HeapInv` says that the rings are those of the
threads that `located` names, each once, and that a created thread's TCB holds
its frame and its stack.  That the 8-bit size never wraps is the injectivity of
the lists with at most 255 threads.

**Only model-checked:** what must eventually happen (`DelayExpires`,
`BlockedLeavesCpu`, `TurnComes`, `SlotsReachSenders`, `BlocksReachReceivers`,
`KeepsBlinking`), since liveness under fairness is beyond the prover; and that
the four runs of section 5 violate what they do.

## 7. What is not modelled

- **The main stack**: handlers that preempt one another, and main itself, whose
  stack the first switch abandons.
- **The alignment word** of exception entry, which the core pushes when the stack
  is not aligned to eight bytes and pops on return (`Stacked` has the eight words
  of the frame).
- **The FPU.**  `main` switches off the automatic saving of its registers, and
  the port does not save them; threads that computed with it would disturb one
  another.  Nothing in the repository does.
- **The frames of functions a thread calls** (a call of the HAL is one
  instruction of its caller), and **stack overflow**: nothing in the code guards
  against it.
- **Handlers above the kernel's priority threshold**: `xrt_config.h:19-23`
  forbids them to call the kernel, and nothing in the code checks it.
- **Device interrupts in `XrtApp`**: the example has none that calls the kernel.
  They are in every other run.
- **Five threads at once in `App`.**  The run has two of the example's threads,
  of the first and the fifth function.  With three, and without the liveness
  property, there are 696,326 states and everything else holds.
- **Refused arguments** (`NULL`, small or misaligned stacks, a failed
  initialisation and `Error_Handler`), which change nothing or stop the program.
- **A second `xrt_kernel_init` or `xrt_kernel_start`**, and operations on
  primitives that were never initialised.
- **More than one queue**, and queues that share a semaphore.
- **Fault handlers** that spin, the clock set-up, the pins, the board's headers
  and the build files.
- **The host port**, which has no behaviour.

## 8. Plan

Done: the list, the kernel, threads, mutexes, semaphores, supervisor calls,
queues, the port's registers and stacks and the example; for all of them, proofs
of every safety property the runs check.

What could follow, in this order:

1. The kernel on the links: `XrtKernel` with `lists` read from the heap of
   `XrtThreadHeap`, so that `LinksDoAsLists` and `Invariance` become one theorem.
2. The remaining exception levels: handlers that preempt one another on the main
   stack.
3. Several queues, with threads that use more than one.
