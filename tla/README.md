# A verification of MAME's core

This directory holds TLA+ models of the parts of the emulator in this
repository in which order, concurrency and failure decide what is right, the
TLC configurations that check them, and proofs that TLAPS checks. Paths below
are relative to `src/src/` unless they begin with `src/`; the model of a line
of code is found with `PROJECT.json`, which maps every definition to its lines.

MAME runs an emulated machine by letting every CPU-like device execute for a
short slice of emulated time, one after the other on one thread, and by firing
timers between the slices. Screens, sound, serial lines, interrupts and input
lines are built on those two. Around that thread are real ones: work queues
run the scanlines of polygon renderers and the hunks of compressed disks. The
repository's millions of lines are for the most part drivers and chip
emulations, tables and sequential data processing; what is modelled is a small
share of the lines and the part that everything else relies on.

## Inventory

| part | state | operations | hard behaviour | what makes it correct |
|---|---|---|---|---|
| device scheduler (`emu/schedule.cpp`) | timer list, base time, execute list, quantum list, executing device, callback timer | `timeslice`, `execute_timers`, `trigger`, `boost_interleave`, `timer_*`, `postload` | callbacks and instructions re-enter it in the middle of a slice and of a list walk; saves and loads between slices | timers fire in order and on time, none is lost, devices stay in step, time is accounted for and goes on |
| execute interface (`emu/diexec.cpp`) | local time, icount, running and stolen cycles, suspend masks, trigger | `suspend`, `resume`, `yield`, `spin`, `trigger`, `abort_timeslice`, `eat_cycles` | requests take effect a slice later; aborts in the last instruction | suspensions in force when they should be, no cycle lost |
| attotime (`emu/attotime.h`) | seconds, attoseconds | arithmetic | carry, saturation at never | values normalised and ordered |
| input lines (`emu/diexec.cpp`, `device_input`) | event queue of 32 per line, current state and vector | `set_state_synced`, `set_vector`, `empty_event_queue`, `default_irq_callback` | overflow flushes inside the caller; callbacks write lines; a reset empties the queue that is being walked | events applied in order and once, sleepers woken |
| run loop and state scheduling (`emu/machine.cpp`) | phase, pause, pending save or load, pending exit and resets | `run`, `schedule_*`, `immediate_*`, `handle_saveload`, `pause`, `resume` | waiting for anonymous timers, with a one-second limit in emulated time; requests that replace one another; exceptions; the next machine | a request is carried out or given up, the loop ends, the exit's save is the machine's end |
| save manager (`emu/save.cpp`) | registered items, signature | `save_item`, `write_file`, `read_file` | failures part of the way | a load restores what was saved |
| work queues (`osd/modules/sync/work_osd.cpp`) | item list, free list, counters, flags and events of threads and items | queue, wait, release, free; the worker | real threads over partly unlocked state | every item runs once, waits are honest and end |
| events and locks (`osd/modules/sync/`) | signalled flag, waiters | set, reset, wait | lost wake-ups, spurious returns | part of the queue's model |
| polygon renderer (`devices/video/poly.h`) | arrays of polygons, object data and work units, buckets | `object_data_alloc`, `render_*`, `wait`, `work_item_callback` | scanline buckets chained without locks; arrays that run full in the middle of a call | each row drawn in order with the right data |
| CHD compressor (`lib/util/chd.cpp`) | ring of hunks, offsets, hash maps | `compress_begin`, `compress_continue`, `async_read`, `async_walk_parent`, `async_compress_hunk` | a reader thread, compressing threads and the caller over one ring, in two phases | what is stored reads back, the digest is right, it ends |
| serial interface (`emu/diserial.cpp`) | shift registers, bit counters, clocks | clock edges, loading a byte, setting rates | two clocks that are not in step; reloading while the stop bit is still on the line | what is sent is received, in order |
| memory, video, sound, input ports, debugger, rendering, ROM loading, UI, OSD layers, drivers | large | | mostly sequential data processing or I/O | not modelled; see below and `PROJECT.json` |

Interactions: the main loop in `machine.cpp` calls `timeslice()`, then
`handle_saveload()`. `timeslice()` calls `run()` of a device, whose
instructions call back into timers, suspension, triggers and quanta;
`execute_timers()` calls back into devices, which do the same. Input lines and
serial clocks reach the scheduler as timers. Saving waits until no anonymous
timer is live. The renderer and the compressor are clients of the work queue.

## Modules

| module | models | correspondence |
|---|---|---|
| `Attotime` | addition of `attotime.h` | a time is a number of ticks, `Never` is `attotime::never`; `Plus` saturates |
| `TimerList` | `emu_timer`, `timer_list_insert`, `timer_list_remove`, the list part of `execute_timers`, `can_save` | pure operators on a record of the list and the timers' fields; `m_start`, `m_param` and the callback's identity are left out |
| `QuantumList` | the quantum list, `add_scheduling_quantum`, `compute_perfect_interleave` | the sorted list as the set of its slots |
| `ExecuteDevice` | the scheduling half of `device_execute_interface` | a device is a record of its `m_` fields; suspension masks are sets of reasons; what a cycle is charged (`CycleTime`) and what `local_time()` answers for it (`ClockedTime`) are two constants |
| `Scheduler` | `timeslice`, `execute_timers`, `postload`, `time`, what emulated code may call, `handle_saveload`'s test | one thread; `phase` is where it is |
| `SchedulerProperties`, `AlarmClock` | | the properties; the abstract specification of timers, with what a state file keeps of them, and the mapping to it |
| `InputLines`, `LineEvents` | `device_input` with its device's resets | calls of `empty_event_queue` in progress are a stack of frames, since callbacks and full queues re-enter it; a frame's `giving` is the state that is being given to the core; `LineEvents` is what a line promises |
| `MachineRun` | `running_machine::run` and what may be called on it; files of `save_manager`; the machines that follow | a slice of the scheduler is one step that changes what emulation can change |
| `WorkQueue`, `WorkQueueProperties`, `WorkItems` | `work_osd.cpp` over the events of `sync_tc.cpp` | each access to a field another thread may write is a step; code between `lock()` and `unlock()` is one; `pc` is where each thread is; `WorkItems` is what the queue promises |
| `PolyManager`, `Raster` | `poly_manager`: `render_tile` and its like, object data, `wait` | triangles, tiles and polygons are the sets of scanline groups they touch; a unit's word (`count_next`) is its count and its successor; `Raster` is a renderer that draws at once |
| `ChdCompressor` | `chd_file_compressor` | offsets count hunks, data are sequences of units, a hash is what it is a hash of; the two queues are what `WorkItems` promises |
| `SerialLine`, `ByteChannel` | `device_serial_interface`, a sender and a receiver | timers count ticks; `ByteChannel` is a bounded queue of bytes |
| `TimerListProofs`, `SchedulerProofs`, `SchedulerTimeProofs`, `SchedulerAlarmProofs` | | lemmas on the list; the scheduler's invariant; its times; its alarms |
| `WorkQueueProofs`, `MachineRunProofs`, `InputLinesProofs`, `ChdCompressorProofs` | | lemmas and theorems of the other components |
| `MC*` | | instances for TLC |

Composition. `ChdCompressor` and `PolyManager` take of a queue only what
`WorkItems` says (an item is run once, in any order, by any thread, and not
before it was submitted; a wait is over when nothing is outstanding), and
`WorkQueue` is shown to implement `WorkItems`. `MachineRun` takes from
`Scheduler` that a slice lets time pass and `InputLines` that its timers fire,
in the order set; these are properties of `Scheduler`'s runs (`TimeAdvances`,
`TimerAnswered`, `IsAlarmClock`).

`Scheduler`. `phase` is `start` (devices being started), `idle` (in the main
loop), `slice` (head of `timeslice`'s loop), `turn` (its inner loop), `run` and
`instruction` (inside a device), `timers` and `callback` (`execute_timers`),
`detach` and `reattach` (the two loops of `postload`). `target`, `turn` and
`granted` are `timeslice`'s locals. The nondeterminism is the emulated code:
how long an instruction is, whether a core takes its cycles off the icount
before its memory accesses or after them (`early`), and which calls it makes,
in every place from which it can make them (`MayCall`). A `spin_until_time` is
`AwaitTrigger` followed by a `TimerSet` whose callback calls `FireTrigger`; a
`timer_pulse` is a `TimerAlloc` with a `TimerAdjust`; `synchronize` is a
`TimerSet` with delay 0. One anonymous timer is a temporary timer object; when
it is unlinked, it can be allocated again.

Two conversions. `timeslice()` charges `m_attoseconds_per_cycle * ran`
(`schedule.cpp:493`); `local_time()` converts the same cycles to clocks and the
clocks to time (`diexec.cpp:319-329`, `diexec.h:145`, `device.cpp:253-263`). Where
a core takes the default conversions the two are the same number. Where it
overrides `execute_clocks_to_cycles` they are rounded apart: an mcs51 with twelve
clocks a cycle (`devices/cpu/mcs51/mcs51.h:94-95`) at 12 MHz is charged 10^12 attoseconds for a cycle
and answers twelve times 83333333333, 4 less. The model has a constant for each
and relates them in no way; that the answer is linear in the cycles is its only
simplification (`clocks_to_attotime` is, but for a slice of a second or more).
`ChargedTime` says that the conversions are the only difference, `devices` has a
device that answers more than it is charged, `progress` one of each kind, and the
theorems on `Punctual` and `IsAlarmClock` suppose that no device answers less
(`Answered`).

`InputLines`. An event of an interrupt line is applied in two steps: `ApplyIrq`
sets `m_curstate` and calls `execute_set_input`, `InputGiven` is its return and
the look at `m_curstate` (`diexec.cpp:876`) that decides on the trigger. In
between the core may write lines (`Inside`) or take the interrupt (`Acknowledge`,
as `devices/cpu/sh2/sh2.cpp:2629` does by `sh2comn.cpp:836`), which clears a line
that is held. `applied` and `resets` are history: the number of events applied
and of resets, modulo 2, so that `LineEvents` can tell a step that applies an
event, or resets the device, from one that does not. There an event reaches the
device only by `Deliver`, which takes it from the front of what is owed; only
the two resets withdraw; and `Acknowledge` only makes a held line clear.

`WorkQueue`. `Producer` queues, waits for the queue and frees it; `Collector`
waits for single items and releases them; they may be one thread. Constants
name the queue's flags, the number of threads (none: items run in the call
that queues them), whether waits may time out and return spuriously, and
whether items are released only after an honest wait (`Patient`).

`ChdCompressor`, `PolyManager` and `SerialLine` choose the kind of file,
machine, queue or frame in their initial states (`setup`, `mode`, `format`) and
never change it, so that one run has all of them.

Operators commented "mutant" are not used by any action. Each is what a
plausible bug would make of the definition below it; substituting it violates
the property that `PROJECT.json` names with it.

## Runs

| run | instance | shows |
|---|---|---|
| `timers` | one device with instructions of two lengths, two permanent timers and an anonymous one that share deadlines, delays -1, 1 and never, periods 0 and 2, `adjust`, `enable(false)`, `timer_set`, two calls, two saves or loads | `TypeOK`, `TimersOrdered`, `NoTimerLost`, `EarliestFirst`; `IsAlarmClock`, the refinement of `AlarmClock` |
| `devices` | cycle times 1 and 2, one timer, three calls among timer, halt, yield, trigger, resume and two boosts (one as long as the machine's own quantum), two saves or loads, one device that answers 3 ticks for a cycle and is charged 2, time to 5 ticks with 9 in a second and a quantum of 6, longer than the latest instruction may end | `CyclesConserved`, `InStep`, `DeltaExact`, `QuantaSound`, `Punctual`, `ChargedTime`, `SuspendTakesEffect` |
| `progress` | two devices, one that answers more than it is charged and one that answers less, yields and waits that do not eat their cycles, `eat_cycles`, enable, weak fairness | `TimeForward`, `TimeAdvances`, `TimerAnswered` |
| `queue_batches` | two workers of a `MULTI`, `HIGH_FREQ` queue and a producer that helps, three items in batches of one and two, released automatically, with time-outs and spurious returns | `OnePlace`, `ItemsCounted`, `NoLostWakeup`, `WaitHonest`; `KeepsPromise`, the refinement of `WorkItems` |
| `queue_progress` | two workers, single items that their queuer waits for and releases and whose memory is used again, nothing spurious | `EveryItemRuns`, `WaitReturns`, `ItemWaitReturns`, `FreeEnds`, `KeepsPromise` |
| `chd` | seven hunks in a ring of four, an odd number, with a hunk of zeros and copies of an earlier hunk and of units of the parent that cross its hunks; compressed against a parent with two threads, compressed alone with two threads and a late reader, raw without threads, alone and against a parent that has something else in place of the zeros; reads that fail, and writes of raw and of compressed hunks | `StoredRight`, `DataStay`, `AssertionsHold`, `HashedAll`, `Ends` |
| `lines` | an interrupt line that calls back into the HALT line, RESET and HALT, four writes or resets and queues of two, two vectors, a core that may take an interrupt as it is given it, a device that spins until interrupt | `QueueHasTimer`, `WakesUp`; `EventsInOrder`, the refinement of `LineEvents` |
| `machine` | autosave, one slot, a second of one slice, one anonymous timer, failures, three calls, two machines, a user who need not resume | `EndsAsSaved`, `RequestEnds`, `LoopEnds` |
| `polygons` | two threads and the client, or a queue without threads, or none; two rows in one bucket, three polygons whose data change, arrays that they fill | `AllDrawn`; `DrawsAsAsked`, the refinement of `Raster` |
| `serial` | two bits without parity between clocks of 16 and 15 or 19 ticks, the slowest and fastest that fit the frame, and three bits with even parity and two stop bits from one outside clock; three bytes | `AllArrive`; `IsChannel`, the refinement of `ByteChannel` |
| `stale_eat` | halt, yield from outside, resume a second later | violates `DeltaExact`: finding 1 |
| `chd_stale_item` | one thread, a reader that is late to store the item | violates `WaitEnds`: finding 2 |

Bounds. `MaxOps`, `MaxQueued`, `MaxWrites`, `MaxCalls`, `MaxRenders`,
`MaxObjects` and `MaxBytes` bound what the environment asks for in a
behaviour: order and loss need two or three requests (set, disturb, set
again), a lost wake-up a thread that falls asleep after having run something,
an overflow one write more than the queue has room for, a stale event the
second use of an item. `MaxWrites` counts resets of the device, too. `Horizon` bounds emulated time, `MaxSaves` saves and
loads, `MaxMachines` the machines after the first, `MaxAnonymous` anonymous
timers; `Never` is far enough beyond the horizon that a sum of finite times
does not reach it. A second of 9 or 10 ticks, longer than a quantum and a
cycle together, makes the carry in `timeslice`'s subtraction happen; two
devices, one twice as slow, make rounding of cycles, lowering of the target
and overshoot happen together. A ring of four hunks has the two halves that
the code alternates between, and seven hunks go round it and leave a half that
is not full. Deadlock is checked except in `machine`, which ends when its last
machine does, and `queue_progress`, in which the queue is freed; `Stop` is the
end of a scheduler's behaviour at the horizon.

`queue_batches` takes items' memory as interchangeable (`SYMMETRY`), which is
sound for its properties, none of which is a liveness property.

Restrictions that a property needs are in the instance that checks it.
`InStep` and `DeltaExact` are promised only to devices that eat their cycles
while they are suspended and that are not made to yield by somebody else
(`ForeignYield = FALSE`). `ChargedTime` and `Punctual` are checked without
`eat_cycles`, `TimeForward` with it; the proof of `ChargedTime` has no such
restriction. `IsAlarmClock` is checked with timers that are disabled and set
again, but not with `enable(true)`; that the clock waits for its alarms after a
load is true in the instance and not in general: see the disagreements. The
proofs name the hypotheses each of these properties needs. `WaitHonest` holds for high-frequency queues, whose waits spin
until their time-out before they block. `Ends` is for a reader that is not
overtaken between queueing a hunk and storing its item (`Prompt`); the safety
properties of `chd` hold without that when there is no parent. `StoredRight`
leaves out hunks that are `Shadowed`, `WakesUp` interrupts that are `TakenAtOnce`,
`RequestEnds` and `LoopEnds` machines that are `Stuck` for ever: in each of the three
the code does not do what it says, as the disagreements show, and the property
says that there is no other such case.

## Fairness

- `Scheduler`: weak fairness of `Step`, every step of the thread that is not a
  call. Handlers and callbacks return (an instruction makes finitely many
  calls), and the main loop calls `timeslice()` again while the machine is
  neither paused nor exiting. Calls, saves and loads are never forced.
- `WorkQueue`, `ChdCompressor`, `PolyManager`: weak fairness of each thread's
  steps: the operating system runs every thread that can run, callbacks return
  and a mutex is handed on (`scoped_lock`s are short and contain no waits).
  Calls of the queue are not forced; nobody has to wait or release.
- `InputLines`: timers fire, which is `TimerAnswered`, and calls return.
- `MachineRun`: the loop goes on; slices let time pass (strong fairness of
  `Emulate`, because the loop has other things to do when the machine is
  paused, and a device may abort a slice). Nothing obliges anybody to call
  `resume()`: a machine that is paused while a request waits for anonymous timers
  may stay so for ever (`Stuck`; `WaitsUnpaused` among the disagreements), and
  `RequestEnds` and `LoopEnds` say that a request, or an exit, is left undone in no
  other way.
- `SerialLine`: time passes and the clocks' callbacks are called.

## Findings

1. `resume` does not clear the eat-cycles flag its comment mentions
   (`emu/diexec.cpp:257`) and all reasons share the flag. A halted device can
   stop eating its cycles, fall a second behind, and break the assertion at
   `emu/schedule.cpp:453` (run `stale_eat`).
2. `async_read` stores `item.m_osd` when `osd_work_item_queue` returns
   (`lib/util/chd.cpp:3151`). By then the item may have run, and
   `compress_continue` may have written its hunk and freed the slot (2886-2950).
   It releases items through `m_osd` (2889-2890), which was null all the while, so
   the item is done and nobody has released it; what is then stored is the item
   of an earlier hunk. When the walk over finished hunks stops at that slot in
   the next round of the ring, because the read that fills it is only queued by
   the next call, the loop at 2985 ("if we're waiting for work, wait") waits for
   an item that is done, which returns at once, for ever (run `chd_stale_item`).

## Disagreements seen with other constants

Each is a property that a module still states, that does not hold, and the
constants with which TLC shows it, or an argument; what is not said is as in
the configuration of the component's runs.

| property | instance | what the code says and does |
|---|---|---|
| `SchedulerProperties!YieldEnds` | `devices` with `ForeignYield = TRUE`, yields only | a yield is "waiting for the next timeslice" (`emu/diexec.h:31`). `apply_suspend_changes` clears the pending flag when no `m_suspend` changed, although `m_nextsuspend` may have just lost the yield bit (`schedule.cpp:396-404`): a device that is made to yield again before the slice that would release it is stuck until the next suspend or resume of any device |
| `SchedulerProperties!TurnForward` | `devices` with `EatArgs = {1}`, one call | `eat_cycles` "safely eats cycles so we don't cross a timeslice boundary" (`diexec.cpp:165`); it clamps to the icount also when that is negative (176), and gives cycles back |
| `SchedulerProperties!IsAlarmClock` | `timers` with `EnableArgs = BOOLEAN` | "if this was inserted as the head, abort the current timeslice and resync" (`schedule.cpp:201`) is what `adjust` does. `enable(true)` (154-168) puts a timer back into the list in the same way and does not: the slice of the executing device goes on, and the timer rings up to a slice late |
| `SchedulerProperties!Punctual`, and with it `IsAlarmClock` | one device, `CycleTime` 1, `Instructions = {1}`, `Delays = {2, 6, 8}`, `MinimumQuantum = 6`, `Second = 9`, `Never = 30`, `EnableArgs = {FALSE}`, `MaxOps = 5`, `MaxSaves = 2`, `Horizon = 7` | the same comment. After a load a timer that is disabled in the file may lie in front of the sentinel with the expiry it once had, and be the head; then a timer that is set for an earlier callback than the slice's end is not the head, and nothing is aborted: one with deadline 4 rings at 6 |
| `SchedulerProperties!DeltaExact` | one device, `CycleTime = 2`, `Second = 10`, a timer at 3 and then none for a second | the assertion of 453. A machine with one device has slices of a second less a tick (710), and a slice that starts a tick behind the base time is longer than a second: base time 3, local time 2, target 12, and the difference of the attoseconds is 0 and not 10. In a running machine the sound manager's 50 Hz timer keeps slices far shorter |
| `WorkQueueProperties!WaitHonest` | `Threads = 1`, `Multi`, `HighFreq` off, no time-outs, three items | FALSE is "if the wait timed out before the queue was emptied" (`osd/osdcore.h:532`). A worker reads `waiting` (`work_osd.cpp:776`) and signals (778) in two steps: when the waiter has meanwhile returned, queued again and come back, resetting the event (314), the signal ends the new wait at once |
| `WorkQueueProperties!ItemWaitHonest` | two threads, one item's memory, `AutoRelease` off | the same for `osd_work_item_wait` (`osdcore.h:609`): an item is released as soon as `done` is set (750), its worker signals its event later (762-766), maybe for the item's next use |
| `WorkQueueProperties!ReleasedIsDone` | two threads, `Producer # Collector`, `Patient = FALSE` | "make sure we're done first" (`work_osd.cpp:587`) is a wait whose result is ignored. Called between the return of the callback and `done = TRUE`, as by the CHD compressor, which acts on what the callback wrote, it may return early on a stale signal; the item goes to the free list and `done` is set in what is already the next item |
| `WorkQueueProperties!FreeCompletes` | one thread, one item | `osd_work_queue_free` is "waiting for all items to complete" (`osdcore.h:539`); the threads leave as soon as they see `exiting` (648, 658), and what is listed is freed without having run |
| `ChdCompressor!AssertionsHold` | with a parent, `prompt` FALSE | `async_read` asserts what it was given (`chd.cpp:3125`, 3148). At the end of the parent `compress_continue` resets offsets, statuses and phase (2958-2962) when the last hunk is written, and does not wait for the read that queued it: the reader then moves the second phase's offset, and hashes the parent's data into what is to be the file's SHA-1. `DataStay` and `StoredRight` fail with it; `HashedAll` does not in this instance, where no such file is ever finished |
| `ChdCompressor!StoredRight` | a parent with fewer hunks than the child | COMPRESSION_PARENT is "same as a hunk's worth of units in the parent chd" (`chd.cpp:73`). The walk goes over the child's number of hunks and ignores errors of `read_hunk` (3130-3134): leftovers in the buffer are added to the map under units the parent does not have |
| `ChdCompressor!StoredRight` without `Shadowed` | `chd` | "writes of all-0 data don't actually take space" (`chd.cpp:2912`): `write_hunk` does not store a raw hunk of zeros (1037-1051), and its map entry stays 0; where there is a parent `read_hunk` then reads the parent's hunk (938-939), not zeros |
| `InputLines!HeldWhileSet` | `lines` with no answers | SUSPEND_REASON_HALT is "HALT line set" (`diexec.h:26`). `interface_pre_reset` resumes the device from every reason (`diexec.cpp:529`), and `m_curstate` stays: a device whose HALT line is set runs after a reset |
| `InputLines!WakesUp` without `TakenAtOnce` | `lines` | "generate a trigger to unsuspend any devices waiting on the interrupt" (`diexec.cpp:875`). A core that takes the interrupt within `execute_set_input` (862-863) clears a line that is held (896-900), and then the test of `m_curstate` (876) finds it clear: no trigger follows, and a device that spins until an interrupt has taken one and sleeps on |
| `InputLines!EventsInOrder` | `Answers(irq) = {irq}` | "if we're full of events, flush the queue" (`diexec.cpp:780`): a callback that writes to the line whose full queue is being emptied starts again at event 0, so events apply twice, and the new event is thrown away by the outer loop's end (882) |
| `MachineRun!WaitsUnpaused` | one machine | "we can't be paused since we need to clear out anonymous timers" (`machine.cpp:638`); a `pause()` that follows is not held back, and then neither the timers nor the one-second limit (907) move and `run` cannot be left (377) until somebody resumes: the machine is `Stuck` |
| `MachineRun!ImmediateDone` | one machine | "jump right into the save, anonymous timers can't hurt us!" (655): `handle_saveload` still returns without saving while one is live (904-913) |
| `MachineRun!AutosaveMade` | one machine, no anonymous timers | -autosave "automatically creates a save state file when exiting" (`src/docs/config.txt:545`); a save or load that is asked for after `schedule_exit` and before the exit's own save replaces it (631-635) |
| `PolyManager!PrevInBucket` | `Fresh` the numbers of units | previtem is the "index of previous item in the same bucket" (`poly.h:171`). The constructors (289-340) leave `m_unit_bucket` uninitialised, only `wait` sets it (475): with memory of zeros unit 0 is its own predecessor and is never drawn |

Two more concern `diserial.cpp` and are outside the model's assumptions:
`set_rcv_rate` leaves `m_rcv_clock_state` (93-98), so that a rate set in the
middle of a byte, while the clock is high, makes later bytes be sampled half a
bit early, although the start delay is "to make sure we are called after the
sender" (225); and PARITY_ODD sends the parity of PARITY_EVEN (410-417), though
`diserial.h:43-51` says odd.

## Proofs

`TimerListProofs` proves what the list operations preserve: `Insert` of a timer
into a well-formed list gives a well-formed one with one more member, `Unlink`
the converse, and from these `Enable`, `Adjust`, `SetTimer`, `Retire`.

`SchedulerProofs` proves `Spec => []IInv` (theorem `Invariance`) with

    IInv == TypeOK /\ Control /\ TimersInv /\ DevicesInv /\ QuantaSound

The properties are not inductive alone. `Control` says which locals are alive
in which phase (a device executes exactly in `run` and `instruction`, the
callback timer is set exactly in `callback`, `private` is empty outside
`postload`). `TimersInv` says that the list is well-formed, that list and
private list are disjoint and hold the sentinel and all permanent timers, and
that the sentinel never expires: so the list is never empty, and its head
exists where `timeslice` dereferences it. `DevicesInv` relates icount, stolen
and running to `granted` and keeps local times from reaching never.
The proof has one step per action, divided by the part of the state it
disturbs, and uses the assumptions `TimerAssumption`, `NeverAssumption` and
`SchedulerAssumption`. The bound conjunct `Now < Never` of `MayCall` is used:
calls are not made once emulated time has reached the end of time.

`SchedulerTimeProofs` is about time. `StillOrMoves` sorts the actions into those
that leave devices, slice and file alone and the others, calls touch a device
only as `Touched` says, and most lemmas are about one such class. `Aims` says
that the executing device is not suspended and that a slice's target is not
before the base time; `TimeForward` follows, with no hypothesis. `Requested`
says that a change of suspension that is not in force is pending
(`SuspendTakesEffect`); a device that somebody else makes to yield twice breaks
it, hence `~ForeignYield`. `Stepping` says that no device is a whole cycle
behind the base time (`Keeping`), that suspended devices eat (`Fed`), that the
slots of the quantum list are no longer than `Longest` (`Slotted`), that the
execute list holds each device once (`Listed`), and that those whose turn has
been are within a cycle of the target (`Reached`); so the base time may move
to the target. `DeltaExact` follows, since a slice and a cycle fit into a second. `Reaching`
bounds how far the executing device runs past the target, and with it
`InStep`. The hypotheses are:

- `Paced`: every suspension that is asked for eats its cycles, and the longest
  slice and a cycle of any device fit into a second. Without the first, finding
  1; without the second, a disagreement above.
- `Bounded`: there is a longest instruction.
- `Fine` and `Exact`, which with the two are `Steady`: the divisor for which
  `m_divisor` stands does not give a device a cycle more than the slice has, and
  cycles are eaten only where the divisors are exact. The divisors of
  `diexec.cpp` are cycle times shifted right, so that a grant may be rounded up
  by less than a cycle; the instances' `MCScale` follows the code.

- `Answered`, for timers: no device is charged more for a cycle than `time()`
  answers for it. Otherwise what an instruction sets may be due in what is, after
  the charge, the past.

The instances of `timers` and `devices` satisfy them.

`SchedulerAlarmProofs` is about timers, while no state is loaded
(`NothingLoaded`) and no timer is enabled again (`NoReenabling`): the
disagreements show why each is there. The invariant `Awaited` is the conjunction
of `DisabledLast` (disabled timers are behind the sentinel, but for a one-shot
timer in its own callback), `Waiting` (every enabled timer is `InTime`: no more
than `Overshoot` before the base time, nor before the target of the slice,
unless the executing device's slice has been `Cut`, and what it has run keeps
it in time) and `Rung`, the same of the timer whose callback runs. A timer that
is set becomes the head, and then the slice is cut, or it is behind the head,
and then the slice ends in time for it as for the head: this needs that the
head is enabled, hence `DisabledLast`. `Paced` is needed because a device that
is suspended without eating falls behind, and what it then sets is in the past;
`Answered` for the same reason.
`Punctual` follows.

The refinement of `AlarmClock` is then a matter of the order of the list.
`Before` is that order and `Placed` what an insertion does to it: the others
keep theirs, and the new timer goes in front of exactly those with a later key.
`Moved` sums it up for `Adjust`, `SetTimer`, `Enable`, `InitTimer`, `Unlink` and
the next period, and `MovedArms` shows it to be the abstract `Arm`, with
`DeadlineOf` and `AheadOf`, the abstract variables in terms of a list. Each
action maps to one abstract step or none: a call that sets a timer to `Set`,
`StartCallback` to `Ring`, `EndCallback` to `Silence`, `EndSlice` to `Advance`,
`SaveState` to `Save`. That a file that was written is not `None`, which stands for one
that was not, is `FileAssumption`.

`WorkQueueProofs` holds for any number of threads (none included) and items,
with whatever time-outs and spurious returns. `Shape` is `TypeOK`
with `Control`, which says at which places of the code each role can be, when
the producer has exited and which of its locals are alive there; it is
inductive, and `TypeCorrect` follows. `Lively` then says that `livethreads` is
the number of workers between counting themselves and discounting themselves,
that `active` is true exactly of workers between their two writes of it, and
`Woken`: once the
producer has visited its first thread, items on the list mean that some worker
is not asleep or its wake event is set. `WakeupsKept` follows. The step that needs
`Lively` is the producer's: if it counts as many live threads as there are it
wakes nobody, and then every worker is one that looks at the list again before
it sleeps (`AllCounted`, which is about cardinalities of finite sets).

Its second half is the promise. `Counted` is `ItemsCounted` with the items of a
batch that are linked and not counted yet. `Placed` is the conjunction of
`Apart` (list, batch, free list and unused memory are disjoint and hold an item
once), `WorkedOnce` (a thread at work has its item to itself), `Kept` (what was
returned to the queuer is not recycled behind its back), `Released` (an item
being released waits for nothing) and `Unmarked` (`done` is not set before the
item has run, when releases wait for it). `OnePlace` follows, and over it the
refinement of `WorkItems`, step by step, for which `Fresh` adds that a call to
a queue without threads leaves nothing on the list. A thread keeps its item to
itself up to the mark only if releases are patient, and up to the end of its
steps only if it releases the item: `Working` says so, and where nothing is
promised nothing is assumed. `Candid` relates the answer of a wait to the
counter and the queue's event; `WaitHonest` follows for queues that are
`HighFreq` and `Multi`, the flags of `poly.h:308`.

`MachineRunProofs` proves `EndsAsSaved` from `SaveLast`: the exit's save is the
request that waits until it is carried out, given up or replaced, and once it
is carried out nothing but leaving the loop is left to do.

`InputLinesProofs` holds for any lines and any length of the queues. `Cared`, a
queue that has events has a timer or a call in progress that empties it, gives
`QueueHasTimer`, with every callback and reset. The refinement of `LineEvents`
(`EventsInOrder`: each event once and in order, and none withdrawn but by a reset) supposes that the lines have ranks such that a callback
writes only to lines of a lower rank than the one whose event it answers
(`Ordered`); `Answers(irq) = {irq}` is the disagreement above. Then the calls
in progress are of lines of descending ranks (`Descends`), so that no two empty
one queue, and `OwedRight` says what each line owes: its queue, or the rest of
it from where the call in progress is, and the event that the call will add.

`ChdCompressorProofs` holds for any file, ring, number of threads and errors.
`Inv` is the conjunction of `Offsets` (what is written was claimed, that was
loaded, that was queued, within one ring), `Reads` (the reads that are
outstanding are of consecutive halves), `Turns` (the place of
`compress_continue`), `Ringed` (claimed hunks are in slots of their own, later
ones in slots that are to be read), `Working` (jobs under way are for such
hunks), `Kept` (loaded hunks are in the buffer until they are written, those of
a parent with the hunk behind), `Hashing` and `Summed` (the half under way, and
what the SHA-1 is of). `AssertionsHold`, `DataStay` and `HashedAll` follow.
Without a parent they hold whatever the reader does (`NoWalk`). With a parent they
are proved of those behaviours only in which the walk over it ends with no read
under way (`WalkWaits`); the code does not wait for that, and where it does not
happen `AssertionsHold` and `DataStay` fail and the parent's data are hashed with
the file's, as the disagreement on `AssertionsHold` says. A prompt
reader is enough for it (`PromptWaits`). `Stored` adds `Held`, `Digested` (the hashes of a job are
those of its hunk, and a hunk in neither map was compressed), `Mapped` (the
maps lead to what is stored or in the parent) and `Written`, if the parent has
the hunks that the run over it reads (`Covered`, the first disagreement on
`StoredRight`); a raw hunk of zeros is not stored, and reads back as zeros unless it
is `Shadowed`. A hunk that is stored as a copy of another reads back by
recursion over the copies; each leads to an earlier hunk, so that a least hunk
that reads back wrong cannot be, and `StoredRight` follows without induction
over data.

| theorem | property |
|---|---|
| `SchedulerProofs!Invariance` | `[]IInv` |
| `SchedulerProofs!TypeCorrect` | `[]TypeOK` |
| `SchedulerProofs!AlwaysOrdered` | `[]TimersOrdered` |
| `SchedulerProofs!NeverLost` | `[]NoTimerLost` |
| `SchedulerProofs!AlwaysConserved` | `[]CyclesConserved` |
| `SchedulerProofs!AlwaysRuled` | `[]QuantaSound` |
| `SchedulerProofs!AlwaysEarliestFirst` | `EarliestFirst` |
| `SchedulerProofs!AlwaysCharged` | `ChargedTime` |
| `SchedulerTimeProofs!AlwaysForward` | `TimeForward` |
| `SchedulerTimeProofs!EffectTaken` | `SuspendTakesEffect`, if `~ForeignYield` |
| `SchedulerTimeProofs!DeltaIsExact` | `[]DeltaExact`, if `Paced` |
| `SchedulerTimeProofs!AlwaysInStep` | `[]InStep`, if `Steady` |
| `SchedulerAlarmProofs!AlwaysPunctual` | `[]Punctual`, if `Paced`, `Bounded`, `NoReenabling`, `Answered` and `NothingLoaded` |
| `SchedulerAlarmProofs!AlwaysAlarmClock` | `IsAlarmClock`, if the same |
| `WorkQueueProofs!TypeCorrect` | `[]TypeOK` of `WorkQueueProperties` |
| `WorkQueueProofs!WakeupsKept` | `[]NoLostWakeup` |
| `WorkQueueProofs!CounterRight` | `[]ItemsCounted` |
| `WorkQueueProofs!OnePlaceEach` | `[]OnePlace` |
| `WorkQueueProofs!PromiseKept` | `KeepsPromise` |
| `WorkQueueProofs!HonestWaits` | `[]WaitHonest`, if `HighFreq` and `Multi` |
| `MachineRunProofs!TypesKept` | `[]TypeOK` |
| `MachineRunProofs!AutosaveIsLast` | `[]EndsAsSaved` |
| `InputLinesProofs!TypesKept` | `[]TypeOK` |
| `InputLinesProofs!QueuedHasTimer` | `[]QueueHasTimer` |
| `InputLinesProofs!EventsKeepOrder` | `EventsInOrder`, if some `rank` is `Ordered` |
| `ChdCompressorProofs!Invariance`, `TypesKept` | `[]Inv`, `[]TypeOK`, if `HasParent => WalkWaits` |
| `ChdCompressorProofs!AssertionsKept` | `[]AssertionsHold`, if the same |
| `ChdCompressorProofs!DataStaysPut` | `[]DataStay`, if the same |
| `ChdCompressorProofs!HashIsOfAll` | `[]HashedAll`, if the same |
| `ChdCompressorProofs!StoredInvariance` | `[](Inv /\ Stored)`, if the same and `Covered` |
| `ChdCompressorProofs!ReadsBackRight` | `[]StoredRight`, if the same and `Covered` |

Only model-checked: the loads of a state in `IsAlarmClock` and `Punctual`;
`DrawsAsAsked` of the renderer; `IsChannel` of the serial line, which is about
recursion over bits; and liveness (`TimeAdvances`, `TimerAnswered`,
`EveryItemRuns`, `WaitReturns`, `ItemWaitReturns`, `FreeEnds`, `Ends`,
`WakesUp`, `RequestEnds`, `LoopEnds`, `AllDrawn`, `AllArrive`). Liveness under
fairness and `ENABLED` are out of the prover's reach; so is induction over data,
and no module that is proved about may use a `RECURSIVE` operator (there is
none here).

## Assumptions

- Scheduler: a machine with one device gets a minimum quantum of a second less
  an attosecond (`schedule.cpp:710`), and then a slice of a second may begin
  with a device a fraction of a cycle behind, so that the difference at
  `schedule.cpp:450` would lose that second. In a running machine the sound
  manager's 50 Hz timer keeps slices far shorter, so `devices` has a second
  longer than a quantum and a cycle. A device's clock does not change after
  start. The minimum cycles of an instruction are taken as one.
- Work queues: one thread queues on a queue; all items of a queue have the same
  flags; callbacks take less than the 100 seconds that a release waits; there
  is memory for items. Mutexes and events work as `sync_tc.cpp` uses them;
  reads and writes of aligned words are atomic and in order.
- CHD: the file has a hunk at least, and its size is a multiple of the hunk
  size; the parent's hunks are as long as the child's (`tools/chdman.cpp:1588`); the wait for the read
  queue at the end does not time out (30 seconds in the code); the access of
  worker and writer to the hash map is as if atomic, although the code says
  "TODO" there (3074).
- Polygons: the first `wait` precedes the first polygon; the array of units is
  larger than a polygon's rows, otherwise `wait_for_space` waits for ever.
- Serial: asynchronous frames; rates change when nothing is under way; the
  receiver does not check parity, as in the code; a framing error shows as a
  byte that was never sent.
- Input lines: of the suspensions only the reasons RESET, HALT and TRIGGER are
  kept; PULSE_LINE is its two calls.

## Not modelled

Drivers and chip emulations (most of the repository) are data tables and
instruction sets: each would be a model of a piece of hardware, not of this
program's logic. Sound streams, screen timing, memory maps, rendering, artwork,
input ports, ROM loading, options, user interface, Lua, the netlist solver and
the file formats are sequential data processing or I/O, whose errors are in
values and not in order; of those, `devices/sound/discrete.cpp`, which runs tasks
on a work queue, and the audio thread's buffers would be the next to model.
Of the components that are modelled in part: `eat_all_cycles`,
`adjust_icount`, periodic and VBLANK interrupts, clock changes, the debugger's
hooks and tracing (scheduler); the watchdog and notifiers (machine);
registration, signatures and byte order (save manager); the header, map
compression, metadata and reading of finished files (CHD); synchronous frames
and 1.5 stop bits (serial); scalable locks, which have no user here. Overflow
of cycle counters and of `attoseconds_per_cycle * ran` cannot happen under the
assumption that a slice is shorter than a second.

## Plan

Done: the scheduler with its alarm clock; input lines; the run loop; work
queues; the polygon renderer; the CHD compressor; serial lines; of these the
theorems above, which state every safety property of the runs but two. Next,
most useful first:

1. `DrawsAsAsked` of `PolyManager`, from an invariant on the chains of a bucket
   and on the words of its units.
2. `IsAlarmClock` with loads: a load puts the file's deadlines back, in any
   order among equals, and up to the next slice the invariant is `Waiting`
   without `DisabledLast`.
3. `YieldEnds` and `TurnForward`, with the hypotheses under which they hold
   (nobody else makes a device yield; cycles are not eaten past the end of a
   turn).
4. The discrete sound tasks as a client of `WorkItems`.
