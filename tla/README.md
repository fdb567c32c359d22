# cxp in TLA+

cxp is a small executive for embedded systems in the style of CSP: processes are
created with `par`, meet on synchronous channels, alternate over channels and
timeouts, and are scheduled preemptively by priority on several processors that
share memory. The prototype runs on an operating system: a processor is a
thread, an interrupt is a real-time signal, a process is a user-level context.

This directory models the executive: the scheduler, its queues, channels and
alternation, timeouts, user interrupts, the allocator and its mutex, the creation
and termination of processes, and the emulated hardware below them. TLC checks
the models on small instances; TLAPS proves for all instances the priority
arithmetic, the ready queue, the central invariants of the scheduler, of the
interprocessor queue, of channels, of the allocator and of the emulated hardware,
and that the queue and the channels implement their abstract specifications.

Line references are to the files of the repository (`sched.c:416`).

## 1. The system

| Component | State | Operations | Used by / uses |
|---|---|---|---|
| Priorities (`sched.h`, `run.c`) | a 16-bit word per process: 3 bits of level, 12 bits of value, a smaller value is a higher priority | `child` words in `par_pri`, `placed_par_pri`; comparisons | every queue |
| Ready queue (`sched.c:171-281`) | head per processor, `next` in each record | `enqueue0`, `take`, `take1` | scheduler; interrupts disabled |
| Scheduler (`sched.c`, `sched.h`) | `current`, `sched_state` of each process, saved contexts | `PREPARE_TO_WAIT`, `relinquish`, `schedule`, `schedule0`, `yield`, `schedule_from_interrupt`, handlers | everything |
| Interprocessor queue (`ipq.m`) | ring of slots, `nextAdd`, `nextRem` per processor | `ipq_add` (any processor), `ipq_remove` (the owner) | `schedule`, `take`, the interprocessor handler |
| Channels (`comm.c`) | `waiting` and the `src`/`dest` pointer of each channel, under a mutex | `in`, `out`, `try_in`, `enable_channel`, `disable_channel` | scheduler, alternation |
| Alternation (`alt.c`) | `alt_state` of the process, `favorite` of the alternation | `priSelect`, `fairSelect`, `freeProcessMaybe` | channels, timers |
| Timers (`timer.c`) | queue of timeout descriptors and the interval timer, per processor | `After`, `enable_timeout`, `disable_timeout`, `handle_timeout_interrupt` | scheduler, alternation, memory |
| Creation and termination (`run.c`, `par_barrier.m`, `sched.c:535-628`) | barrier count, process records, termination stack and its mutex per processor | the four `par` functions, `par_barr_sync`, `terminate`, `finish_termination` | scheduler, memory, mutex |
| Memory (`memory.c`) | tail of the region, lists of released blocks | `find_mem_index`, `allocate_mem`, `release_mem` | records, descriptors |
| Mutex (`mutex.c`) | one word | `claim_mutex` (spins and yields), `release_mutex` | channels, termination, memory |
| User interrupts (`interrupt.c`) | the receiver's name per interrupt | `receive`, `send_interrupt`, `transmit` | scheduler |
| Start (`sched.c:630-729`, `hardware.c:275-360`) | barrier of the processors | `initialize`, `activate_processor`, `init_processor`, `synchronize_processors` | hardware |
| Hardware emulation (`hardware.c`) | signal numbers and masks, contexts, interval timers | `disable`, `enable`, `handle_signal`, `build_context`, context switches, `send_interprocessor_interrupt` | everything |
| Clock (`timer.c:58-88`, `231-240`) | `currentTime`, the elapsed time timer | `GetCurrentTime`, `handle_elapsed_time_interrupt` | timers |

### What is hard in it

* **The wait protocol.** A process announces that it will wait, tells its
  partner, and gives up the processor, in three steps; the partner, an interrupt
  handler or another processor may come at any point between them. All of it
  rests on one word, `sched_state`, changed by atomic exchanges.
* **Preemption.** A handler runs on the stack of whatever it interrupts and may
  switch away from inside its own loop.
* **Lock-free queues between processors**, whose adders spin with interrupts off.
* **Alternation** publishes one process in several channels and timer queues and
  withdraws it again while partners arrive.
* **Races with time**: a timeout that passes while it is being entered.
* **Termination**: a process frees the record and the stack it is running on.
* **Mutexes without a queue**: a process that finds one claimed spins and yields,
  and relies on the yield to let the holder go on.
* **Masks in contexts**: a context switch restores the signal mask that was saved
  with the context, so that whether a processor hears its interrupts depends on
  every path by which a process has lost the processor.

### What makes each part correct

* Priorities: the bands of sibling subtrees never overlap, whatever the nesting.
* Ready queue: the links form one list without cycles, in priority order, first
  come first served among equals.
* Scheduler: no process is lost, none is made ready twice for one wait, there is
  always a process to run, no processor idles beside a ready process, no
  priority inversion other than the one `yield` makes, ready processes run.
* Interprocessor queue: a bounded mailbox; every entry is announced; adds end.
* Channels and alternation: synchronous rendezvous, one transfer for each pair of
  calls, no name left behind in a channel, a selection selects a ready guard,
  both partners go on, `fairSelect` serves every writer.
* Timers: the interval timer always covers the first timeout; nobody returns
  early; everybody returns; no descriptor outlives its memory.
* Creation and termination: `par` returns after all its children and does
  return; one process at a time is on the termination stack.
* User interrupts: a receiver is woken once, by an interrupt that comes after it
  has stored its name, and its name goes when it is woken.
* Memory: at any time each byte that has been cut off the region belongs to one
  block, and each block to one process or one list; a claimed mutex is released.
* Hardware: the tables of signals are complete before anybody uses them, a
  process that is given the processor back has the mask it should have, and the
  two parts of the clock are read as one.

## 2. The modules

| Module | Models | Composition |
|---|---|---|
| `Priority` | the priority words and the tree of nested `par_pri` calls | on its own; `PriorityProofs` extends it |
| `ReadyList` | `enqueue0` on the list the links form (no state) | extended by `RdyQue` and `Sched`; `ReadyListProofs` has the lemmas about lists |
| `RdyQue` | the ready queue as head and `next` fields | checked against `ReadyList`; `QueueProofs` extends it |
| `Sched` | scheduler, wait protocol, preemption, handlers | on `ReadyList`; `SchedProofs` extends it |
| `Mailbox` | abstract: one bounded first-in first-out list per processor | what `Ipq` implements and `Sched` uses as `ipQues` |
| `Ipq` | `ipq.m` at the grain of its atomic operations | refines `Mailbox`; `IpqProofs` extends it |
| `Rendezvous` | abstract: offer, demand, one transfer, both go on | what `Comm` implements |
| `Comm` | channels and alternation | refines `Rendezvous`; `CommProofs` extends it |
| `Timer` | timeouts of one processor, for `After` and for alternations | on its own; `QueueProofs` extends it |
| `ParRun` | creation, barrier, termination, reuse of records | extends `Sched`: its kernel steps are those of `Sched`; `ProcessProofs` extends it |
| `Interrupt` | user interrupts and their receivers | extends `Sched`: its steps are steps of `Sched` with the receiver's name; `ProcessProofs` extends it |
| `Memory` | the allocator and `claim_mutex` | extends `Interrupt`, which preempts the holder of the mutex; `ProcessProofs` extends it |
| `Hardware` | signals, masks and contexts, the start of the processors, the clock | on its own: which process is next is any; `HardwareProofs` extends it |
| `MC*` | instances for TLC | |

Definitions keep the names of the code. An operator with a suffix
(`Relinquish_store`, `Gets_last`) just in front of a definition is the
same definition with a plausible mistake in it; it is used by no specification,
and substituting it makes the property it is meant for fail.

### State and actions

**Priority.** `hi` and `lo` are the words of two processes whose lines of
descent separate in one `par_pri` (`Separate`); each may go deeper
(`Descend...`). The word arithmetic is that of `sched.h`, at its real values.

**RdyQue.** `head` and `next` are the fields; `Enqueue0` is the search and the
four cases of the insertion, `Take` and `Take1` the ends of `take` and `take1`.
`list` is what `ReadyList` makes of the same calls. A process may be enqueued
while it is in the queue, because the scheduler does that (section 5, 1).

**Sched.** `current`, `rdyQues`, `ipQues` are the arrays of the same names, `ipi`
the pending interprocessor signals (real-time signals queue, so they are counted).
`pc` is where a process is in its own code, `kernel` the routine it is in with
interrupts disabled. A step is what happens between two points at which somebody can
interfere. There are one or two processors (`PunsAssumption`; `NPUN` is 2,
`sched.h:27`): with two, each interprocessor queue has one adder, `Ipq` refines a
mailbox and announces every entry, and `IpqAdd` can be one step. Who waits for whom
is reduced to the set `waiting`: `Publish` enters a process, and one waker takes it
out (`Claim` by a process, `IntrWake` by a handler).

| Actions | Code |
|---|---|
| `PrepareToWait`, `Publish`, `Relinquish`, `Disable`, `Drain`, `Switch` | `PREPARE_TO_WAIT`, naming oneself in a channel, `relinquish` with its exchange, its `disable()`, the loop and the end of `take`, and the switch |
| `Yield`, `Drain`, `YieldSwitch` | `yield` and `take1` |
| `Claim`, `Free`, `ScheduleLocal`, `ScheduleRemote`, `IpqAdd` | taking a partner's name, the exchange to READY, `schedule` and `schedule0`, `ipq_add` with its spin loop as a guard |
| `IpiEnter`, `IpiStep`, `IpiDone`, `Preempt` | `handle_interprocessor_interrupt`, which may lose the processor in `schedule0`; `schedule_from_interrupt` |
| `IntrEnter`, `IntrWake`, `IntrDone`, `Preempt` | timeout and user interrupts, which wake processes of their own processor |

`switch_interrupt_context` saves nothing, because `handle_signal` has saved the
context when the handler began. If the handler has lost the processor in between,
the saved context is the one inside `schedule0`, whose frames are dead by the
time it is restored. What follows is undefined in C; the model lets the process
leave the handler or go round its loop again (`kernel = "stale"` in `Preempt`).
`IntrWake` and `IntrDone` are the handler of timeouts; that of user interrupts is
in `Interrupt`. `relinquish_unconditional`, which a selection calls when it has to
wait (`alt.c:116`, `215`), is `relinquish` after its exchange; `Comm` and `Timer`
have it as part of `AltShouldWait`.

**Ipq.** `nextAdd`, `nextRem`, `que` are the ring. `LoadAdd`, `LoadRem`,
`Exchange`, `Store`, `Send` are the atomic operations of `ipq_add`; `Test`,
`Take`, `Release` those of `ipq_remove`; `Handle`, `Enable` and `Drain` when a
processor gets to remove. After a removal the loop of the handler may end with
entries left, because the handler loses the processor in `schedule0`
(`sched.c:98-102`); `Release` therefore goes back to `Test` or out to `Enable`.

**Comm.** `waiting` and `ptr` are a channel's fields, `buf` a process's one word
of data. What happens under a channel's mutex is one step (`In`, `Out`, `TryIn`,
`EnableGuard`, `disable_channel` in `DisableGuard`), what follows its release are
steps of their own: `Wake` (the exchange and `schedule`), `FreeEnabling` and
`FreeWaiting` (the two exchanges of `freeProcessMaybe`), `Relinquish`,
`AltShouldWait`, `AltFinish`. Of the scheduler only what `Sched` establishes is
left: a process whose exchange succeeds sleeps until somebody schedules it.

**Timer.** `tque` is the queue, `time` and `proc` the fields of the descriptors,
`armed` when the interval timer expires, `procmemlist` and `tail` the memory the
descriptors of alternations come from. `After`/`AfterInsert` and
`EnableTest`/`Allocate`/`EnableInsert` keep the test of the clock and the
insertion apart, and time (`Tick`) may pass anywhere; `Disable`/`Release` are
`disable_timeout`; `Handle` is `handle_timeout_interrupt`. `Own` and `Ahead` are
conditions on a state under which the properties are stated: the search of a
process that disables a guard ends at its own entry or at none, and what is about
to be inserted is still to come. The code does not always meet them (section 5, 8
and 9).

**ParRun.** A process is named by its record. `at` is how far it is in its life,
`children` the barrier, `term` the mutex of the termination stack, `dying` the
processes that run on without their record. `Par`, `Create`, `Join`, `Return`
are the parent's steps; `Sync`, `Terminate`, `Release`, `FinishTermination`,
`Exit` a child's; all switching, queueing and interrupting is `Sched`'s. `MayYield`
is where a mutex is claimed: that of a channel or of the allocator in the body, of
the allocator in `allocate_mem` for the parent's next child and in `release_mem`
for the child's own record, and of the termination stack. `Interrupt` leaves out
one interrupt that the code can have, that of a process which has released its
record: `handle_signal` copies the context to where `stackptr` points
(`hardware.c:120`), and `release_mem` has put the link of the free list there
(`memory.c:104-106`, `sched.h:83`). Section 5, 11 is about how it comes to that. The
constant `Living0` gives the queues of the processes that are there at first, in
priority order.

**Interrupt.** `interrupts[u][n]` is the array of that name, `raised` the pending
signals, `receives` what a process is waiting for and `serves` which interrupt a
handler is for. `Receive`, `StoreName` and then `Relinquish` of `Sched` are
`receive`; `send_interrupt` raises; `UserEnter` is `handle_signal` and
`handle_interrupt`; `Transmit` and `Miss` are `transmit` with and without a
receiver. `OtherApp` and `OtherKernel` are the remaining steps of `Sched`; wakers
on channels and timeouts find only processes that are not named for an interrupt.

**Memory.** `claimed` is the mutex, `procmemlist`, `tail` and `taillen` the
variables of `memory.c`. `Exchange` is one turn of the loop of `claim_mutex`, with
the yield (`GiveWay`) after the last trial; `Unlock` is `release_mutex`. Between
them the holder reads (`Look`) and writes (`Unlink`, `Cut`, `Link`), and every
step of its own can be preceded by an interrupt. `held` is what the processes have
been given. `plotz` ends the program, so an exhausted region is a guard.

**Hardware.** `next_signo`, `interrupt`, `signal_no`, `sigmask` and `barrier` are
the variables of `hardware.c`; `mask`, `sent` and `expired` the signal masks and
the pending signals of the operating system, `context` and `frame` the masks in a
saved context and in the frame of a signal handler. `define_handler`, `Block`,
`Activate`, `Arrive` and `Depart` are the start; `disable`, `enable`,
`switch_context`, `restore_context`, `build_context`, `handle_signal`, `Return`
and `switch_interrupt_context` what a running processor does. The handler of user
interrupts, which a process sends to its own processor (`Raises`,
`send_interrupt`), leaves the processor as that of timeouts does; what it wakes is
in `Interrupt`. A context that
nobody will read again is emptied (`Dead`), which only keeps states equal. Of the
clock only ticks are left: `lag` counts those the interval timer has completed and
`currentTime` has not; a reading is right if `lag` was 0 at `read_timer`, and
`currentTime` is the same before and after. A signal that its thread does not
block is taken before the thread reads on.

## 3. The runs

`tlc -config <cfg> <module>`; none takes more than two minutes.

| Run (module, cfg) | What it shows | Bounds |
|---|---|---|
| `priority` (`Priority`, `MCPriority`) | `Ranked`, `NeverPromoted`: the bands of two branches never meet, at all four levels | child numbers 0, 1, 6, 7: both ends of the eight and a neighbour of each; the proof covers all |
| `rdyque` (`MCRdyQue`) | `Linked`, `Ordered`: the links form the list of `ReadyList`, in order, also under double insertion | four processes of two priorities and the idle process: search ends before, between and after equals |
| `intr` (`MCInterrupt`) | `NeverLost`, `ReadyOnce`: with one priority, no wake is lost in the window of `relinquish` and no process is queued twice; `ReceiverKept`: the same for the name of a receiver; `TypeOK` of `Sched` | two processors, two processes on one and one on the other, one of them receiving the interrupt that the first two raise; queue of one entry, so that adders meet a full queue; two pending interprocessor signals, one of the user interrupt |
| `sched_pri` (`MCSchedPri`) | `IdleKept`, `WorkConserving`, `PostSignalled`, `PriorityKept`: with two priorities, so that wakes and handlers preempt | as before, queue never full |
| `sched_lost` (`MCSchedLost`, violated) | `NeverLost` fails with two priorities (section 5, 1) | as `sched_pri` |
| `ipq` (`MCIpq`) | `NoneLost`; `Announced`: outside the loops of the remover there is an interrupt for every entry; `AddEnds`; and `BoxSpec`: the ring refines `Mailbox` | two processors that add to each other's queue of two usable slots, three processes each, so that both queues can be full: empty, full, wrapped around, slot claimed and not filled, a handler that leaves its loop with entries left; nobody is woken on a processor with three interrupts pending |
| `comm_alt` (`MCComm`, `MCCommAlt`) | `fairSelect` over two channels: `NoStaleName`, `Wakeable`, `SelectedReady`, `Synchronous` (refines `Rendezvous`), `Served`, `Completes`; `SelectsInTime`: it ends without a guard only if a writer comes late with `freeProcessMaybe` | two writers, one reader, two values |
| `comm_mix` (`MCCommMix`) | `priSelect` with a SKIP guard, polling with `try_in` and plain `in`, in a cycle of three processes: `NoStaleName`, `Synchronous` | three channels, two values |
| `timer` (`MCTimer`) | `StaysArmed`, `NeverDangling`, `NeverEarly`, `AllWake`: while `removeFromQueue` returns what its comment says (`Own`), and for the first and the last of them while what is inserted is still to come (`Ahead`), the timer runs to the first timeout, nothing dangles, nobody is early, everybody wakes | one process in `After` and one in alternations with a timeout and a channel, at the same time; instants 0..4, three blocks: equal times, removal of the head before another entry, interrupts that come for nothing, time passing between test and insertion. Behaviours are followed up to the first state without `Own` (`CONSTRAINT`), after which the properties say nothing |
| `par` (`MCParRun`) | `Joined`, `ParentKept`, `OneTerminating`, `OthersKept` | three children on two processors, one with the parent and two beside a process of higher priority that interrupts wake; one pending signal and one entry, so that `schedule` waits for room |
| `memory` (`MCMemory`) | `Partition`: no byte is given out twice or lost; `Released`: a claimed mutex is released; `ReadyRuns` and `Received`: under the spinning and yielding everybody who is ready runs, and a receiver whose interrupt is raised returns | one processor, a process above another (equals are in `MCSchedFair`); block lengths 1 and 3, requests of 1 and 2 bytes, one block held by each, a region of 6; two trials before the yield (the code has five, and only the last matters) |
| `hardware` (`MCHardware`) | `Complete`: nobody runs before the tables are complete; `Settled`: the mask of a process is restored on every path; `TimeGood`: `GetCurrentTime` is right on processor 0 with interrupts enabled | two processors with all their handlers, the initial and the idle processes, and one process that is placed on the other processor, raises a user interrupt there and terminates; one tick not yet counted |

All bounds are guards on counters that the code leaves open (`MaxIpi`, `MaxSignals`,
`MaxTime`, `MaxBlocks`, `MaxPars`, `MaxRaised`, `MaxHeld`, `MaxLag`) or sizes that
the code fixes at larger values (`QCap` and `QSIZE`; `Indices`; `procmemlen`,
`Trials`). The signal bound of `Sched` (`MaxIpi`) holds a sender back until one is
taken; nothing else can run on that sender's processor in the meantime, as in the
code when the queue is full. That of `Ipq` (`MaxSignals`) holds back a processor
that has nobody to wake yet, and nobody inside `ipq_add`.

Deadlock is checked except where the model stops at a bound: `priority` at the
last level and `timer` when its instants have passed, and the instances outside
the table that have such states.

Further instances pass: `MCSchedFair.cfg`, `ReadyRuns` for three equals on one
processor; `MCInterruptLive.cfg`, `Received` and `ReadyRuns` for two equals;
`MCParRun.cfg` with `MaxPars = 2`, the properties of `par`
for two calls of `par` in a row, so that records are used again (794,000 states,
some minutes); `MCParRunLive.cfg`, `ParReturns` under `ParLiveSpec`: `par`
returns in the end, for three children on another processor (about a minute). The type
invariants of `RdyQue`, `Ipq`, `Comm`, `Timer` and `ParRun` hold in the instances
of the table when they are added to their configurations.

### Fairness

* `Sched!LiveSpec`: routines with interrupts disabled are finite (weak fairness
  for each process's `Routine`). A process that has begun to wait or wake
  finishes, and a pending signal is delivered once interrupts are enabled,
  however briefly. Both are strong fairness, because interrupts and the process
  take turns in disabling each other; signals of the operating system and a
  processor that executes instructions between interrupts justify it. There is no
  time slice, so the processes must yield now and then: `SF(Yield)` is an
  assumption about the application, and `ReadyRuns` is a claim about applications
  that keep to it.
* `Ipq!LiveSpec`: a processor inside `ipq_add` or `ipq_remove` goes on (weak):
  threads run.
* `Comm!LiveSpec`: a process that is in a call goes on (weak; ready processes run
  by `ReadyRuns`), and a process that alternates keeps selecting. Nobody has to
  call `in` or `out`.
* `Timer!TimerLiveSpec`: time passes, the timer expires, its interrupt is taken,
  processes inside a call go on (weak).
* `ParRun!ParLiveSpec`: as `Sched`, for the interrupts that `Interrupt` allows; the
  bodies of children end, and the allocator's mutex, which others hold, is free now
  and then when a process asks for it (strong fairness for `Create` and `Release`).
* `Interrupt!InterruptLiveSpec`: as `Sched`; a handler that has begun ends (weak),
  a receiver between two of its steps goes on, and a raised signal is taken
  (strong, as above). Nobody has to raise an interrupt.
* `Memory!MemoryLiveSpec`: as `Interrupt`, and a process inside the allocator goes
  on when it has the processor, however often interrupts come (strong). Outside
  the allocator processes yield now and then; inside, they yield only when the
  code does.

## 4. The theorems

`tlapm` checks `PriorityProofs`, `ReadyListProofs`, `QueueProofs`, `SchedProofs`,
`IpqProofs`, `CommProofs`, `ProcessProofs` and `HardwareProofs`. Every theorem is
about the module the runs use, with its constants left open; the assumptions are
the named ones of that module, and a theorem that needs more says so in its
statement. Each inductive invariant was first checked by TLC on the instances of
section 3.

**Priority** (for every set of child numbers within 0..7).
`PriorityOrder: Spec => []Ranked`, `PriorityType: Spec => []TypeOK`,
`PriorityNeverPromoted: Spec => NeverPromoted`. `Ranked` is not inductive: it
says nothing about the room left below a process. `BandInv` adds that each
process owns a band of `pri_delta(level)` values from its own value on, that the
band is inside the 12-bit field, and that the bands of the two lines are disjoint
once they have separated. `SiblingBands` shows that eight children at most split
the parent's band into disjoint ones; `InitBands` and `NextBands` make `BandInv`
an invariant.

**Sched** (for one or two processors, `PunsAssumption`, and any processes,
placement, priorities, queue capacity and bounds that satisfy `SchedAssumption` and
`CreatedAssumption`; the set of processes need not be finite). The proofs do not
use `PunsAssumption`. It is there because with more processors the model would not
be the code: its `IpqAdd` is one step. All that is proved of the modules that
extend `Sched` has the same bound.

* `SchedType: Spec => []TypeOK`. Type correctness needs `BaseInv`: everything in
  the queues of a processor runs on that processor (`Placed`), a process can lose
  the processor only outside the kernel or in the loop of the interprocessor
  handler, a preempting handler has somebody to preempt with, and a process in
  mid-wake has somebody to wake (`Steady`). The lemmas before it say what
  `enqueue0` does to a list for all lists, double insertion included
  (`EnqueueRange`, `EnqueueAbove`): it adds nothing but its process, and drops
  nothing of another priority.
* `SchedPosts: Spec => []PostSignalled`. At a point with interrupts enabled there
  are at least as many pending signals as entries in the interprocessor queue.
  The inductive invariant `PostsInv` allows one entry more while a handler runs,
  which has taken its own signal off the count and loses the processor, if at
  all, only after an entry has been removed. That an entry and its signal come
  together is what `Announced` of `Ipq` shows for two processors.
* `SchedIdle: ASSUME IdleLowest PROVE Spec => []IdleKept`. `take` always finds a
  process, if the idle processes rank strictly below all others. A double
  insertion can make `enqueue0` drop processes from the queue, but never one
  below the process it links in, so the idle process survives. `IdleLowest` is
  needed, and section 5, 3 shows that the executive does not establish it.

* `SchedPriorityKept: Spec => PriorityKept`. `OrderInv` adds to `BaseInv` that the
  ready queues are in the order of priority (`Sorted`; `EnqueueSorted` shows that
  `enqueue0` keeps them so even when the process is in the list already) and that
  a handler which has decided to preempt still finds a higher process at the head
  when `take` has emptied the interprocessor queue (`Urgent`). The first attempt
  failed: in the loop of the interprocessor handler an inversion that `yield` has
  made may go on, because the handler compares what it takes with the current
  process only. `Inverted` now counts those places, and an instance with more
  processes than the one of `sched_pri` shows why it has to.
* `SchedWorkConserving: IdleLowest => (Spec => []WorkConserving)`. `CalmInv` says
  that the idle process is the last of its queue and not in it while it has the
  processor (`IdleLast`), and that its handlers find the queue empty (`IdleCalm`).
* `SchedNeverLost: Level => (Spec => []NeverLost)` and `SchedReadyOnce: Level =>
  (Spec => []ReadyOnce)`. `Level` says that nobody outranks a process on its own
  processor, so that only idle processes are preempted; without it `NeverLost` is
  false (section 5, 1). Processors may differ in priority, and wakes cross them.
  Neither property is inductive. `WakeInv` says, for each place in the code of a
  process, which wakes may be under way for it (`Status`): before it has told
  anybody of itself none; between the store of its name and the exchange of
  `relinquish` exactly the one that its `sched_state` shows to be open; after the
  exchange either one that is still to come or one that has queued it, never both.
  The other parts say who is about to wake whom (`Wakers`), that no queue has a
  process twice (`Once`), and in which routines a process can be when nobody
  preempts it (`Calls`).

**Interrupt** (in `ProcessProofs`, on top of the invariants of `Sched`).
`InterruptReceiver: Level /\ OneReceiver => (InterruptSpec => []ReceiverKept)`.
`OneReceiver` says that no two processes of a processor receive the same
interrupt, and it is needed (section 5, 14). `NamesInv` adds to `WakeInv` that a
process which has called `receive` is either still before its store or named for
its interrupt, and that a named process is one that `transmit` may claim and
nobody else does. `InterruptWakes` is `NeverLost` and `ReadyOnce` once more for
`InterruptSpec`: the handler of a missed interrupt returns without looking at the
ready queue, which no step of `Sched` does.

**RdyQue** (for any finite set of records, any priorities).
`RdyQueLinked: Spec => []Linked`, `RdyQueOrdered: Spec => []Ordered`. The
inductive invariant states both without following the links: `head` and `next`
spell out a list that has no repetitions and is sorted; the `next` of a record
outside it may be anything. Following the links (`node`) is a recursive function,
and what it computes is proved from the number of positions at which it agrees
with the list (`SameWalk`).

**Ipq** (for any processors, processes and ring size from two on). `IpqInvariant`,
`IpqNoneLost`, `IpqAnnounced` and `IpqBox: Spec /\ []OneAdder => BoxSpec`.
`OneAdder` says that no two processors are in `ipq_add` for the same queue at a
time, and it is needed: section 5, 6 is what happens without it. On two processors
it always holds, so `IpqTwo` has no such hypothesis. The invariant has three parts.
`Ring`: the slots in use are those between `nextRem` and `nextAdd`, and they are
filled but for the one being released and the one claimed; the adder's copy of
`nextAdd` is still right. `Owners`: each process made ready is in one slot or in one
pair of hands. `Signalled`: the entries of a queue are no more than the signals sent
or about to be sent, and one more while the handler holds the entry that its own
signal stood for. A count is needed: a handler that loses the processor in its loop
leaves entries behind, and only their own signals announce them. The refinement maps
the filled slots in ring order to the list of `Mailbox`; `Store` is its add, `Take`
its remove, and all other steps stutter.

**Comm** (for any processes, channels, guards and values).
`CommInvariant: Spec => []Inv`, and from it `CommNoStaleName`,
`CommSelectedReady`, `CommSynchronous: Spec => Synchronous`, `CommWakeable` and
`CommSelects`.
`Inv` says, for each place in the code, on which channel a process is and on
which side (`ChanOK`), whom it is about to wake and that the channel has
forgotten that process (`WasOK`), that nobody is made ready whose name is still in
a channel (`SchedOK`), which guards of an alternation may name it at each index of
its two loops (`Published` in `NameOK`), and that a channel that has been selected
keeps its writer until it is read (`SelOK`). `NoStaleName` alone says nothing
about processes on the way to a channel. The refinement takes each action to a
step of `Rendezvous` or a stutter. `CommWakeable` assumes `Polled = {}`: after
`try_in` a writer sleeps for ever (section 5, 7).

`CommSelects: Spec => SelectsInTime`, which is `[]Timely => []Selects`. `Selects`
alone does not hold (section 5, 2). `Timely` says that a writer on its way to free a
process that looks for a guard is still in its channel, or that one of the guards is
a SKIP, so the theorem says that a late `freeProcessMaybe` is the only reason for a
selection to end without a guard; it covers guards that became ready at any place in
the two loops, a wake from the sleep between them and `fairSelect` as well. Its
invariant `ChoiceInv` says that whoever has been freed has a guard that is ready, at
or before the index from which disabling goes down, and that it stays ready until it
has been selected. `CommSkipSelects` is the case without an assumption on the
writers: where every process that alternates has a SKIP, `Selects` holds.

**Memory** (in `ProcessProofs`; for any processes, priorities, block lengths and
requests, with all the preemptions of `Sched` and `Interrupt`). `MemoryInvariant:
MemorySpec => []MemInv`, `MemoryPartition: MemorySpec => []Partition`. The
strengthening is mutual exclusion (`Exclusive`: at most one process is between its
exchange and the store that releases the mutex) and that what a process read inside
is still true when it writes (`Asked`: the head it saw is the head, the tail is the
tail, the block it releases is its own). That `find_mem_index` finds an index is the
least number principle (`IndexFound`).

**ParRun** (in `ProcessProofs`; for any placement on one or two processors,
priorities, numbers of children and records, with all the preemptions of `Sched`
but that of a process that has released its record).
`ParJoined: ParSpec => []Joined`, `ParOneTerminating: ParSpec =>
[]OneTerminating`, `ParType: ParSpec => []LifeTypeOK`, from `ParInvariant: ParSpec
=> []ParInv`. The parts of `ParInv` are:

* `Counted`: the barrier's count is the number of children not yet built plus the
  number of those that run (`Bodies`), so a parent that goes on at zero leaves none
  behind.
* `Asleep`: until it has relinquished, the parent's `sched_state` is
  PREPARING_TO_WAIT. The barrier schedules the parent without setting that field,
  so the exchange of `relinquish` always succeeds and `par` returns only by way of
  a switch.
* `Token`: while the count is not zero no wake of the parent is under way; then
  there is one, at a waker, in the interprocessor queue or in the ready queue. The
  parent may have the processor and a place in the ready queue at a time, but only
  when this wake has arrived. A parent that has switched away and runs again, or
  is queued again, has therefore been woken. That a ready queue holds the parent
  once at most needs the queue to be sorted (`OnceEnqueue`: `enqueue0` of a process
  that is in the list already).
* `Stack`: a process between `terminate` and the switch holds the mutex, or it has
  released it, runs with interrupts disabled and is the only one on its processor
  that is leaving. A released record may be built anew in between.

No assumption on priorities is needed: preemption can lose a process (section 5,
1), but it does not make up a wake.

That nobody is lost does need one. `ParParentKept: Foremost => (ParSpec =>
[]ParentKept)` and `ParOthersKept: Foremost => (ParSpec => []OthersKept)`.
`Foremost` says that nobody on its processor outranks the parent, and nobody
outranks a process beside the children; section 5, 10 is a parent that is outranked.
The parent may still yield, in `allocate_mem`, while it has children left to make,
and stand in its ready queue meanwhile. The children may have any priorities, on one
processor or on several, as in the run `par`: they may be preempted, lose a wake to
a double insertion and fall out of a queue. The invariant `KeptInv` is therefore
about the unrivalled processes only (`Tops`, the children that nobody outranks among
them), and rests on what `enqueue0` does with a process that is in the list already:
what it drops has the priority of that process (`EnqueueAbove`), so an outranked
process that is inserted twice takes none of them along (`InsertTop`). Its parts
are:

* `OneWay`: each of them is in its ready queue once, or in the interprocessor
  queue once, or with a waker, and in one of these places only.
* `OtherStatus`: for each place in the code of a process beside the children, in
  which states it waits, is queued or runs; while it goes from the exchange of
  `relinquish` to the switch, its wake either is still to come or has queued it.
* `ParentStatus`: the parent gives its processor up in `relinquish`, and by yielding
  while it has children left to make; it then stays in its queue, and no wake of it
  can be under way, because the barrier still counts the children to come. From
  the end of the last child on its wake is there until the parent has run again.
* `ChildStatus`: a child runs or is ready; one that has released its record runs
  and is not interrupted, and is ready as well if the record has been built anew,
  and then loses neither in the switch. A record that is built is in no queue, so
  `proc->next = NULL` (`sched.c:152`) cuts nothing off.
* `Schedulers` and `Paths`: the parent schedules its children and the last child
  its parent, nobody else; who is not outranked is not preempted.

`Token`, of `ParInv`, is what shows that the last child finds the parent in no
queue yet.

**Timer** (for any set of processes, any number of timeout guards in an
alternation, any number of instants and blocks). The inductive invariant is
`TimerInv`: the queue is in time order and has no descriptor twice (`InTime`,
`QueueOnce`); who is in it on its own stack has not been woken (`Sleeping`); a
block is on the free list, in the queue or in the hand of one process
(`FreeBlocks`, `QueuedBlocks`, `HeldBlocks`). That is not enough for an
alternation: several of its guards may be for the same time, and the search for a
time takes the first entry of the process with it, whichever guard that was for.
What the loop over the guards keeps is a count (`Counted`): the blocks in the
queue for a process and a time are no more than the guards for that time it has
enabled and has yet to disable. So none is left when it has finished.

* `TimerNoDangling: TimerSpec => NeverDangling`, `TimerNotEarly: TimerSpec =>
  NeverEarly`, `TimerArmed: TimerSpec => StaysArmed`. The properties have their
  hypotheses in them. `Own` is what the comment of `removeFromQueue` says of its
  result, "removed item (null if none)" (`timer.c:168`). The code returns the next
  later entry too (section 5, 9), and then a block that is in the queue is released.
  The theorems say that this is the only way to a dangling descriptor or to an
  early return of `After`, with any mix of `After` and alternations. `StaysArmed`
  moreover has `Ahead`: what is inserted is still to come when it is. Time may pass
  between the test of the clock and the insertion; only if it passes the timeout
  itself (section 5, 8) is the timer stopped.
* `TimerSoloNoDangling: Single => (TimerSpec /\ []Alone => [](Own /\ NoDangling))`,
  `TimerSoloArmed`, `TimerSoloNotEarly`. Here alternations have one timeout guard
  (`Single`) and nobody else on the processor waits for a time while one is in
  progress (`Alone`), which a program can see to. Then `Own` is not a hypothesis
  but proved: while a process disables its guard the queue is empty or has its own
  entry.

**Hardware** (for any number of processors and processes).
`HardwareInvariant: Spec => []Inv`, `HardwareComplete`, `HardwareSettled`,
`HardwareTimeGood`. The invariant describes the start (the two tables are inverse
to each other as far as they have been filled; there are exactly as many signals
as interrupts, so none runs out; the barrier counts the processors that have not
arrived) and the masks in mask, context and handler frame at each place in which a
process can be. `HardwareTimeGood` assumes `MaxLag = 1`, at most one tick
passes while its signal is blocked: the others are lost (section 5, 17), and the
elapsed-time handler cannot make up for them.

Only model-checked: all liveness (`Served`, `Completes`, `AddEnds`, `AllWake`,
`Released`, `ReadyRuns`, `Received`; fairness is outside what the prover handles).
Every invariant of a passing run is stated by a theorem, some under the hypotheses
named above, and so are `SelectsInTime`, `StaysArmed`, `NeverDangling` and
`NeverEarly`, which have their hypotheses in them. Induction over data is not
available to the provers; where a fact about lists of any length was needed it was
derived from the theorems about cardinality or well-founded sets.

## 5. Where the code departs from what it says

Each of these is a counterexample of TLC against the property named; the first
is a run of the project, the others configurations to run by hand. Where the
configuration is that of a passing run (3, 4, 16), its properties are replaced by
the one named here.

1. *A process is woken and lost* (`MCSchedLost`, `NeverLost`). After the exchange
   in `relinquish` (`sched.c:416`) and before `disable()` (`sched.c:429`) a
   process can be woken, which queues it, and then preempted by a handler, which
   queues it again; `enqueue0` keeps one entry. When it runs again it continues
   in `relinquish`, switches away, and its wake is used up. With one priority
   there is no preemption and the property holds (`intr`).
2. *A selection selects nothing* (`MCCommNone`, `Selects`). `out` calls
   `freeProcessMaybe` after it has released the channel's mutex (`comm.c:145`);
   the reader may be in its next alternation by then, and ends it with no guard
   ready. `SelectsInTime` (`comm_alt`) says that there is no other way to that.
3. *The idle process is not the lowest* (`MCPriority`, `AboveIdle`). The last
   child at the last level has the value 4095, that of the idle process
   (`sched.h:60`); waking it does not preempt the idle process.
4. *A dead context is restored* (`MCSchedPri`, `ContextSaved`), as described
   for `Sched` above (`hardware.c:219`, `232`).
5. *Processors wait for each other* (`MCIpqSpin`, `AddEnds`). Adders spin with
   interrupts disabled (`sched.c:329`) although `ipq.m:32-33` asks for the
   contrary; with three processors, two full queues and two processors adding to
   each other, nobody removes. With two processors `AddEnds` holds, although both
   queues can be full (`ipq`): `enable()` delivers what is pending before it
   returns, so of two processors that add the one that began last had emptied its
   own queue, and the other is not held up.
6. *Two adders of one queue* (`MCIpqWrap`, `NoneLost`, and `Announced` in its
   place), with three processors. Between the test for a full queue and the
   exchange `nextAdd` can come round to the same slot (`ipq.m:91`) and an entry is
   overwritten. It takes a whole round of the ring by others in that time.
   `Announced` fails sooner: one adder has claimed a slot, a second has claimed,
   filled and announced the next. The remover stops at the empty slot
   (`ipq.m:122-125`) and has used up the signal of the second; the first fills its
   slot and announces it; the handler takes that entry, loses the processor in
   `schedule0` (`sched.c:100`), and the other entry is left with no signal.
7. *A polled writer is not woken* (`MCCommTry`, `WriterResumes`). `try_in` takes
   the datum of a waiting writer and does not schedule it (`comm.c:83`).
8. *A late timeout stops the timer* (`MCTimerLate`, `Wakes`). Interrupts are
   enabled between the test of the clock and the insertion (`timer.c:184-194`,
   `209-215`). If the time passes there, the interval is not positive, the timer is
   stopped (`timer.c:108`), and its process waits for whoever inserts next.
   `StaysArmed` and `AllWake` (`timer`) say that, but for 9, nothing else does this.
9. *A descriptor is released that is still queued* (`MCTimerRelease`,
   `NoDangling`). `removeFromQueue` returns the descriptor at which its search
   stopped, removed or not (`timer.c:169`), and `disable_timeout` releases it: an
   alternation whose own descriptor the handler has taken out releases that of a
   later `After`. `NeverDangling` and `NeverEarly` (`timer`) say that nothing else
   leaves a descriptor dangling or makes `After` return early.
10. *Waking a parent loses a neighbour* (`MCParRunLost`, `OthersKept`). The last
    child schedules its parent without looking at `sched_state`
    (`par_barrier.m:39`), so a preempted parent is inserted twice, and what stands
    between the two places falls out of the queue.
11. *A record is reused too early* (`MCParRunReuse`, `ReleasedUnused`).
    `finish_termination` releases the record (`sched.c:555`) before it disables
    interrupts (`sched.c:558`). Another process may be built in it meanwhile, and
    an interrupt may find the old one there. Its context is saved where `stackptr`
    points (`hardware.c:120`), and `stackptr`, the first word of the record
    (`sched.h:83`), is the link of the free list by then (`memory.c:104-106`): the
    context is written over the next free block or, if there is none, to address 0.
12. *The region has no end* (`MCMemoryRegion`, `InRegion`). `allocate_mem` moves
    `tail` and leaves `taillen` as it is (`memory.c:77-81`), although the two are
    "what's left, in one big block" (`memory.c:37`): "Out of memory" never
    happens, and blocks are given out beyond the region.
13. *Claimants starve the holder* (`MCMemorySpin`, `SpinEnds`). `yield` gives the
    processor to the head of the queue and then inserts the process itself by
    priority: two processes that want the mutex yield to each other for ever if
    the holder ranks below both (`mutex.c:40`). With one claimant the holder runs
    (`Released` in `memory`). So can `release_mem` in
    `finish_termination`, which claims the mutex of the allocator while its process
    holds that of the termination stack, and one that waits for the latter.
14. *A receiver is forgotten* (`MCInterruptTwo`, `ReceiverKept`). A second
    `receive` for the same interrupt overwrites the name of the first
    (`interrupt.c:73`), whom no interrupt wakes.
15. *A placed process has the wrong mask* (`MCHardwarePlaced`, `Routed`).
    `build_context` saves the mask of the thread that calls it
    (`hardware.c:182`); a process placed on another processor begins with that of
    its parent's. Until it first calls `enable` it blocks the interrupts of its own
    processor and takes timer signals of the parent's, although
    `hardware.c:126-127` says that "only the processor to which signo is assigned"
    does. `handle_signal` then serves the wrong timer queue, and restores that
    mask when it returns.
16. *The clock is a tick behind* (`MCHardware`, `TimeAlwaysGood`). With
    interrupts disabled, in `insertInQueue` and in the timeout handler
    (`timer.c:108`, `299`), or on another processor than 0, the interval timer may
    have started a new tick that `currentTime` does not count yet, and two equal
    loads say nothing (`timer.c:80`). The time is a tick (one second,
    `timer.c:36`) too small, and a timeout set from it a tick late.
17. *Ticks are lost* (`MCHardwareTicks`, `TicksCounted`). A timer has one signal
    pending at most, and its handler adds one tick (`timer.c:239`); of two ticks
    that pass with the signal blocked one is never counted.

The timeout handler takes the descriptors of alternations out of the queue and
nobody releases their memory (`timer.c:306`). The second call of `enable_timeout`
in a selection (`alt.c:108`, `207`) is never reached: `NO_TIME` is the largest
value of an unsigned type and -1 as a `Time`, and no time is less.

## 6. What is not modelled

* `dbg.c` (prints) and the example programs.
* More than two processors, in `Sched` and what extends it (`NPUN` is 2); `Ipq` has
  any number.
* What follows when an interrupt saves the context of a process that has released
  its record (section 5, 11): the memory it overwrites is anybody's.
* `in()` without a buffer (`comm.c:61-68`, `116`): no caller passes `NULL`, and in
  `Comm` every reader has one.
* Lengths of messages and stacks; what a context holds besides the signal mask,
  and which frames of a stack are alive (section 5, 4).
* The values of the clock: `Timer` has one variable `now` and `Hardware` only the
  ticks. That `read_timer` on a processor other than 0 reads a timer that only
  processor 0 has created (`hardware.c:479`) is left to the operating system, whose
  first timer has the number 0.
* The mutex of a channel: what it guards is one step in `Comm`. `Memory` has the
  steps of a mutex, on one processor.
* The application's part of an interrupt: when it calls `receive` again.
* `acquire_memory` (`malloc`), `getcpu`, `halt_processor`, and `plotz`, which ends
  the program: a step that would reach it is not enabled.
* Alternations with timeouts in `Timer` and with channels in `Comm` are separate
  models; in `Timer` the channel guard is `Communicate`.
* `chan_pending`, which only reads, and `schedule_from_interrupt_single`,
  `enable_and_resume` and `init_interrupt`, which nothing calls.
* Guards on interrupts: `init_interrupt_guard` (`alt.c:53`) makes one, and neither
  selection has a case for it.

## 7. Plan

Done: `Priority`, `ReadyList`, `RdyQue`, `Sched`, `Mailbox`, `Ipq`, `Rendezvous`,
`Comm`, `Timer`, `ParRun`, `Interrupt`, `Memory`, `Hardware`, with the proofs of
section 4.

Next, in this order:

1. Alternations over channels, timeouts and SKIP together: `Comm` with the timer
   queue.
2. The allocator shared by two processors.
