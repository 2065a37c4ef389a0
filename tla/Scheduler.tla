------------------------------ MODULE Scheduler ------------------------------
(***************************************************************************)
(* device_scheduler (src/emu/schedule.cpp): the cooperative scheduler that *)
(* runs every CPU-like device up to a common target time, one slice after  *)
(* the other, and fires the timers that are due in between.                *)
(*                                                                         *)
(* The timer list, the quanta and the devices' scheduling state are the    *)
(* data of TimerList, QuantumList and ExecuteDevice; this module is the    *)
(* control: timeslice(), execute_timers(), what emulated code may call     *)
(* while it runs, and the saving and loading of the state in between.      *)
(*                                                                         *)
(* One emulation thread executes all of it; the nondeterminism is what the *)
(* emulated code does: the length of each instruction and the calls made   *)
(* from instruction handlers, timer callbacks and the machine's main loop. *)
(***************************************************************************)
EXTENDS TimerList, QuantumList, ExecuteDevice

CONSTANTS DeviceOrder,     \* the devices, in execute_interface_iterator order
          None,            \* no device, no timer, no state file
          CycleTime,       \* device -> m_attoseconds_per_cycle, charged for a cycle
          ClockedTime,     \* device -> a cycle's clocks by m_attoseconds_per_clock,
                           \* which local_time() answers for it; the core rounds
                           \* its clock to cycles, so the two may differ
          DivScale,        \* device -> 2^m_divshift
          Second,          \* ticks in a second
          MinimumQuantum,  \* the machine's quantum, already at most 1/60 s
          Instructions,    \* possible lengths of an instruction, in cycles
          Delays, Periods, \* arguments of adjust and timer_set
          EnableArgs,      \* arguments of enable
          SuspendArgs,     \* <<reason, eatcycles>> pairs passed to suspend
          ForeignYield,    \* may a device be made to yield by somebody else?
          TriggerIds,      \* trigger numbers, all positive
          EatArgs,         \* arguments of eat_cycles
          Boosts,          \* <<slice, duration>> arguments of boost_interleave
          MaxOps,          \* bound: calls made by emulated code
          MaxSaves,        \* bound: completed state saves and loads
          Horizon          \* bound: emulated time at which a behaviour ends

Devices == {DeviceOrder[i] : i \in 1..Len(DeviceOrder)}

ASSUME SchedulerAssumption ==
  /\ DeviceOrder \in Seq(Devices) /\ Devices # {} /\ None \notin Devices \cup Timers
  /\ Second \in Nat /\ CycleTime \in [Devices -> 1..(Second - 1)]
  /\ ClockedTime \in [Devices -> Nat]
  /\ \A d \in Devices : DivScale[d] \in 1..CycleTime[d]
  /\ MinimumQuantum \in 1..(Second - 1)
  /\ Instructions \subseteq Nat \ {0}
  /\ Delays \subseteq Int /\ (\A x \in Delays : x <= Never)
  /\ Periods \subseteq Time
  /\ EnableArgs \subseteq BOOLEAN
  /\ SuspendArgs \subseteq Reasons \X BOOLEAN
  /\ TriggerIds \subseteq Nat \ {0}
  /\ EatArgs \subseteq Nat
  /\ \A b \in Boosts : b[1] \in 0..(Second - 1) /\ b[2] \in Time
  /\ MaxOps \in Nat /\ MaxSaves \in Nat
  /\ Horizon \in Nat /\ Horizon + Second < Never  \* emulated time stays far from never

VARIABLES
  tm,        \* the timer list and the timers' fields
  quanta,    \* m_quantum_list, as a set; minimum is m_quantum_minimum
  minimum,
  dev,       \* the devices
  execList,  \* m_execute_list
  pending,   \* m_suspend_changes_pending
  basetime,  \* m_basetime
  executing, \* m_executing_device, while a device is inside run()
  callback,  \* m_callback_timer, _modified and _expire_time
  phase,     \* where the emulation thread is
  target, turn, granted,   \* timeslice's locals: target, exec, the first ran
  owed,      \* cycles of the current instruction not yet taken off icount
  private,   \* postload's private_list
  saved,     \* the contents of the last state file
  ops, saves \* what is left of the bounds MaxOps and MaxSaves

devVars    == <<dev, execList, pending>>
sliceVars  == <<target, turn, granted, owed, executing>>
quantaVars == <<quanta, minimum>>
saveVars   == <<private, saved, saves>>
vars == <<tm, quantaVars, devVars, basetime, callback, phase, sliceVars, saveVars, ops>>

NoCallback == [timer |-> None, modified |-> FALSE, expire |-> 0]

\* add_scheduling_quantum's slot for the machine's own quantum
CoreQuantum(least) == AddQuantum({}, 0, MinimumQuantum, Never, least)

\* The devices are being started: the constructor has put the sentinel into
\* the list, and the clock notification that ends each device's start has
\* computed the interleave and built the quanta and the list of devices.
Init ==
  /\ tm = [list    |-> <<Sentinel>>,
           enabled |-> [t \in Timers |-> t = Sentinel],
           period  |-> [t \in Timers |-> Never],
           expire  |-> [t \in Timers |-> Never]]
  /\ minimum = PerfectInterleave(CycleTime, Second)
  /\ quanta = CoreQuantum(minimum)
  /\ dev = [d \in Devices |-> StartedDevice]
  /\ execList = DeviceOrder /\ pending = TRUE
  /\ basetime = 0 /\ executing = None /\ callback = NoCallback
  /\ phase = "start" /\ target = 0 /\ turn = 0 /\ granted = 0 /\ owed = 0
  /\ private = <<>> /\ saved = None
  /\ ops = MaxOps /\ saves = MaxSaves

\* device_scheduler::time()
Now == IF callback.timer # None THEN callback.expire
       ELSE IF executing # None
            THEN LocalTime(dev[executing], TRUE, ClockedTime[executing])
            ELSE basetime

\* one of rebuild_execute_list()'s two lists, of the first n devices: of those
\* that are suspended, or of the others; list is this function
Linked(list, n, dv, suspended) ==
  IF n = 0 THEN <<>>
  ELSE IF (dv[DeviceOrder[n]].suspend # {}) = suspended
       THEN Append(list[n - 1], DeviceOrder[n]) ELSE list[n - 1]

DeviceList(dv, suspended) ==
  LET list[n \in 0..Len(DeviceOrder)] == Linked(list, n, dv, suspended)
  IN  list[Len(DeviceOrder)]

\* rebuild_execute_list(): suspended devices go last
Rebuild(dv) == DeviceList(dv, FALSE) \o DeviceList(dv, TRUE)

-----------------------------------------------------------------------------
(* Calls made by emulated code: while devices start, from the main loop    *)
(* between slices, from an instruction of the executing device, from a     *)
(* timer callback.                                                         *)

MayCall == /\ phase \in {"start", "idle", "instruction", "callback"} /\ ops > 0
           /\ Now < Never  \* bound: emulated time does not reach never

Call == /\ MayCall /\ ops' = ops - 1
        /\ UNCHANGED <<minimum, execList, basetime, phase, sliceVars, saveVars>>

\* timers whose address somebody holds: an anonymous one is known to nobody
\* but its own callback
Known(t) == t \in Queued(tm) /\ (t \notin Anonymous \/ t = callback.timer)

\* mutant: the slice goes on whatever the next timer is
ResyncNever(ts, t) == dev

\* abort_timeslice(), when timer t became the head of the list
ResyncOn(ts, t) ==
  IF Head(ts.list) = t /\ executing # None
  THEN [dev EXCEPT ![executing] = AbortTimeslice(@, TRUE)] ELSE dev

TimerAlloc(t) ==
  /\ phase = "start" /\ t \in Timers \ (Anonymous \cup Queued(tm))
  /\ tm' = InitTimer(tm, t)
  /\ UNCHANGED <<quantaVars, devVars, basetime, callback, phase, sliceVars, saveVars, ops>>

TimerAdjust(t, delay, period) ==
  /\ Call /\ Known(t)
  /\ tm' = Adjust(tm, t, Now, delay, period)
  /\ callback' = [callback EXCEPT !.modified = @ \/ callback.timer = t]
  /\ dev' = ResyncOn(tm', t)
  /\ UNCHANGED <<quanta, pending>>

TimerEnable(t, on) ==
  /\ Call /\ Known(t)
  /\ tm' = Enable(tm, t, on)
  /\ UNCHANGED <<quanta, dev, pending, callback>>

TimerSet(t, delay) ==
  /\ Call /\ t \in Anonymous \ Queued(tm)
  /\ tm' = SetTimer(tm, t, Now, delay)
  /\ dev' = ResyncOn(tm', t)
  /\ UNCHANGED <<quanta, pending, callback>>

SuspendDevice(d, reason, eatcycles) ==
  /\ Call /\ reason # "trigger"
  /\ reason = "timeslice" => (d = executing \/ ForeignYield)
  /\ dev' = [dev EXCEPT ![d] = Suspend(@, d = executing, reason, eatcycles)]
  /\ pending' = TRUE
  /\ UNCHANGED <<tm, quanta, callback>>

ResumeDevice(d, reason) ==
  /\ Call /\ reason \notin {"trigger", "timeslice"}
  /\ dev' = [dev EXCEPT ![d] = Resume(@, d = executing, {reason})]
  /\ pending' = TRUE
  /\ UNCHANGED <<tm, quanta, callback>>

AwaitTrigger(d, trigid, eatcycles) ==
  /\ Call
  /\ dev' = [dev EXCEPT ![d] = SuspendUntilTrigger(@, d = executing, trigid, eatcycles)]
  /\ pending' = TRUE
  /\ UNCHANGED <<tm, quanta, callback>>

\* trigger() without a delay; with one, it is a TimerSet whose callback calls it
FireTrigger(trigid) ==
  /\ Call
  /\ dev' = [d \in Devices |-> Trigger(dev[d], d = executing, trigid)]
  /\ pending' = (pending \/ \E d \in Devices : Awaits(dev[d], trigid))
  /\ UNCHANGED <<tm, quanta, callback>>

Eat(cycles) ==
  /\ Call /\ executing # None
  /\ dev' = [dev EXCEPT ![executing] = EatCycles(@, TRUE, cycles)]
  /\ UNCHANGED <<tm, quanta, pending, callback>>

BoostInterleave(slice, duration) ==
  /\ Call
  /\ quanta' = AddQuantum(quanta, Now, slice, Plus(Now, duration), minimum)
  /\ UNCHANGED <<tm, dev, pending, callback>>

EmulatedCall ==
  \/ \E t \in Timers, delay \in Delays :
       \/ TimerSet(t, delay)
       \/ \E period \in Periods : TimerAdjust(t, delay, period)
  \/ \E t \in Timers, on \in EnableArgs : TimerEnable(t, on)
  \/ \E d \in Devices, arg \in SuspendArgs :
       \/ SuspendDevice(d, arg[1], arg[2])
       \/ ResumeDevice(d, arg[1])
       \/ \E trigid \in TriggerIds : arg[1] = "trigger" /\ AwaitTrigger(d, trigid, arg[2])
  \/ \E trigid \in TriggerIds : FireTrigger(trigid)
  \/ \E cycles \in EatArgs : Eat(cycles)
  \/ \E b \in Boosts : BoostInterleave(b[1], b[2])

-----------------------------------------------------------------------------
(* timeslice()                                                             *)

StartDone ==
  /\ phase = "start" /\ Timers \ Anonymous \subseteq Queued(tm)
  /\ phase' = "idle"
  /\ UNCHANGED <<tm, quantaVars, devVars, basetime, callback, sliceVars, saveVars, ops>>

Timeslice ==
  /\ phase = "idle" /\ phase' = "slice"
  /\ quanta' = DropExpired(quanta, basetime)
  /\ UNCHANGED <<tm, minimum, devVars, basetime, callback, sliceVars, saveVars, ops>>

HeadExpire(ts) == ts.expire[Head(ts.list)]

Earlier(a, b) == IF a < b THEN a ELSE b

\* mutant: the changes count as applied although a yield ends only in the next slice
ApplyChangesOnce ==
  LET dv == [d \in Devices |-> ApplySuspend(dev[d])] IN
  IF ~pending THEN UNCHANGED devVars ELSE dev' = dv /\ execList' = Rebuild(dv) /\ pending' = FALSE

ApplyChanges ==
  LET dv == [d \in Devices |-> ApplySuspend(dev[d])] IN
  IF ~pending THEN UNCHANGED devVars
  ELSE /\ dev' = dv
       /\ IF \E d \in Devices : dev[d].suspend # dv[d].suspend
          THEN execList' = Rebuild(dv) /\ UNCHANGED pending
          ELSE pending' = FALSE /\ UNCHANGED execList

BeginSlice ==
  /\ phase = "slice" /\ basetime < HeadExpire(tm) /\ basetime < Horizon
  /\ target' = Earlier(Plus(basetime, First(quanta).actual), HeadExpire(tm))
  /\ ApplyChanges
  /\ turn' = 1 /\ phase' = "turn"
  /\ UNCHANGED <<tm, quantaVars, basetime, callback, granted, owed, executing, saveVars, ops>>

\* the coarse test on seconds, and the difference of the attosecond parts
Eligible(d) == /\ dev[d].suspend = {} \/ dev[d].eat
               /\ target \div Second >= dev[d].localtime \div Second

\* mutant: no carry from the seconds
DeltaWithoutCarry(d) == (target % Second) - (dev[d].localtime % Second)

Delta(d) ==
  LET delta == (target % Second) - (dev[d].localtime % Second)
  IN  IF delta < 0 /\ target \div Second > dev[d].localtime \div Second
      THEN delta + Second ELSE delta

\* it is d's turn, and there is time for at least one cycle
Turn(d) == phase = "turn" /\ turn <= Len(execList) /\ execList[turn] = d

\* mutant: a device is entered for less than a cycle
MayRunForNothing(d) == Eligible(d) /\ Delta(d) >= 0

MayRun(d) == Eligible(d) /\ Delta(d) >= CycleTime[d]

Grant(d) == CyclesIn(Delta(d), CycleTime[d], DivScale[d])

SkipTurn(d) ==
  /\ Turn(d) /\ ~MayRun(d)
  /\ turn' = turn + 1
  /\ UNCHANGED <<tm, quantaVars, devVars, basetime, callback, phase, target, granted, owed,
                 executing, saveVars, ops>>

\* mutants: the target is not lowered; it is lowered even below the base time
AccountKeepingTarget(d, ran) ==
  /\ dev' = [dev EXCEPT ![d] = [@ EXCEPT !.localtime = Plus(@, ran * CycleTime[d]),
                                         !.running = 0, !.icount = 0, !.stolen = 0]]
  /\ turn' = turn + 1 /\ UNCHANGED target

AccountBelowBase(d, ran) ==
  LET local == Plus(dev[d].localtime, ran * CycleTime[d]) IN
  /\ dev' = [dev EXCEPT ![d] = [@ EXCEPT !.localtime = local, !.running = 0,
                                         !.icount = 0, !.stolen = 0]]
  /\ turn' = turn + 1 /\ target' = Earlier(local, target)

\* add the cycles to m_localtime and lower the target to it, but not before
\* the base time; the turn's cycle counts are not read again and forgotten
Account(d, ran) ==
  LET local == Plus(dev[d].localtime, ran * CycleTime[d]) IN
  /\ dev' = [dev EXCEPT ![d] = [@ EXCEPT !.localtime = local, !.running = 0,
                                         !.icount = 0, !.stolen = 0]]
  /\ target' = IF local < target THEN (IF local > basetime THEN local ELSE basetime)
                                 ELSE target
  /\ turn' = turn + 1

\* suspended, but eating its cycles
SpinTurn(d) ==
  /\ Turn(d) /\ MayRun(d) /\ dev[d].suspend # {}
  /\ Account(d, Grant(d))
  /\ UNCHANGED <<tm, quantaVars, execList, pending, basetime, callback, phase, granted, owed,
                 executing, saveVars, ops>>

EnterDevice(d) ==
  /\ Turn(d) /\ MayRun(d) /\ dev[d].suspend = {}
  /\ dev' = [dev EXCEPT ![d] = [@ EXCEPT !.running = Grant(d), !.icount = Grant(d),
                                         !.stolen = 0]]
  /\ granted' = Grant(d) /\ executing' = d /\ phase' = "run"
  /\ UNCHANGED <<tm, quantaVars, execList, pending, basetime, callback, target, turn, owed,
                 saveVars, ops>>

\* run(): instructions until icount is used up; an instruction's cycles are
\* taken off either before its calls or after them, as the core has it
BeginInstruction(cycles, early) ==
  /\ phase = "run" /\ dev[executing].icount > 0
  /\ owed' = IF early THEN 0 ELSE cycles
  /\ dev' = IF early THEN [dev EXCEPT ![executing].icount = @ - cycles] ELSE dev
  /\ phase' = "instruction"
  /\ UNCHANGED <<tm, quantaVars, execList, pending, basetime, callback, target, turn, granted,
                 executing, saveVars, ops>>

EndInstruction ==
  /\ phase = "instruction"
  /\ dev' = [dev EXCEPT ![executing].icount = @ - owed]
  /\ owed' = 0 /\ phase' = "run"
  /\ UNCHANGED <<tm, quantaVars, execList, pending, basetime, callback, target, turn, granted,
                 executing, saveVars, ops>>

LeaveDevice ==
  /\ phase = "run" /\ dev[executing].icount <= 0
  /\ Account(executing, granted - dev[executing].icount - dev[executing].stolen)
  /\ executing' = None /\ granted' = 0 /\ phase' = "turn"
  /\ UNCHANGED <<tm, quantaVars, execList, pending, basetime, callback, owed, saveVars, ops>>

EndSlice ==
  /\ phase = "turn" /\ turn > Len(execList)
  /\ basetime' = target
  /\ turn' = 0 /\ target' = 0 /\ phase' = "slice"
  /\ UNCHANGED <<tm, quantaVars, devVars, callback, granted, owed, executing, saveVars, ops>>

SlicesDone ==
  /\ phase = "slice" /\ basetime >= HeadExpire(tm)
  /\ phase' = "timers"
  /\ UNCHANGED <<tm, quantaVars, devVars, basetime, callback, sliceVars, saveVars, ops>>

-----------------------------------------------------------------------------
(* execute_timers()                                                        *)

HeadDue == phase = "timers" /\ HeadExpire(tm) <= basetime

StartCallback ==
  /\ HeadDue /\ tm.enabled[Head(tm.list)]
  /\ callback' = [timer |-> Head(tm.list), modified |-> FALSE, expire |-> HeadExpire(tm)]
  /\ tm' = DisarmHead(tm)
  /\ phase' = "callback"
  /\ UNCHANGED <<quantaVars, devVars, basetime, sliceVars, saveVars, ops>>

\* a disabled timer sorts behind the sentinel; only loading a state, which puts
\* the sentinel back behind it, brings one to the head: it gets no callback
SkipDisabled ==
  /\ HeadDue /\ ~tm.enabled[Head(tm.list)]
  /\ tm' = Retire(DisarmHead(tm), Head(tm.list))
  /\ UNCHANGED <<quantaVars, devVars, basetime, callback, phase, sliceVars, saveVars, ops>>

EndCallback ==
  /\ phase = "callback" /\ phase' = "timers"
  /\ tm' = IF callback.modified THEN tm ELSE Retire(tm, callback.timer)
  /\ callback' = NoCallback
  /\ UNCHANGED <<quantaVars, devVars, basetime, sliceVars, saveVars, ops>>

TimersDone ==
  /\ phase = "timers" /\ HeadExpire(tm) > basetime
  /\ phase' = "idle"
  /\ UNCHANGED <<tm, quantaVars, devVars, basetime, callback, sliceVars, saveVars, ops>>

-----------------------------------------------------------------------------
(* Saving and loading, from the main loop between two slices               *)
(* (running_machine::handle_saveload waits for can_save in both            *)
(* directions).  The state file holds the permanent timers, the base time  *)
(* and the devices; the timer list, the anonymous timers and the quanta    *)
(* are not in it.                                                          *)

SaveState ==
  /\ phase = "idle" /\ saves > 0 /\ CanSave(tm)
  /\ saved' = [enabled |-> tm.enabled, period |-> tm.period, expire |-> tm.expire,
               basetime |-> basetime, dev |-> dev]
  /\ saves' = saves - 1
  /\ UNCHANGED <<tm, quantaVars, devVars, basetime, callback, phase, sliceVars, private, ops>>

\* a field of the timers after the load: the file's for the permanent ones
Loaded(f, g) == [t \in Timers |-> IF t \in Anonymous THEN f[t] ELSE g[t]]

LoadState ==
  /\ phase = "idle" /\ saves > 0 /\ saved # None /\ CanSave(tm)
  /\ tm' = [tm EXCEPT !.enabled = Loaded(@, saved.enabled),
                      !.period  = Loaded(@, saved.period),
                      !.expire  = Loaded(@, saved.expire)]
  /\ basetime' = saved.basetime /\ dev' = saved.dev
  /\ saves' = saves - 1 /\ phase' = "detach"
  /\ UNCHANGED <<quantaVars, execList, pending, callback, sliceVars, private, saved, ops>>

\* postload(): empty the list into private_list, dropping the live anonymous
\* timers, then insert what is left again, which sorts it; the two loops run
\* to their end before anything else happens
DetachTimer ==
  /\ phase = "detach" /\ tm.list # <<>>
  /\ tm' = Unlink(tm, Head(tm.list))
  /\ private' = IF LiveAnonymous(tm, Head(tm.list)) THEN private
                ELSE Append(private, Head(tm.list))
  /\ UNCHANGED <<quantaVars, devVars, basetime, callback, phase, sliceVars, saved, saves, ops>>

DetachDone ==
  /\ phase = "detach" /\ tm.list = <<>> /\ phase' = "reattach"
  /\ UNCHANGED <<tm, quantaVars, devVars, basetime, callback, sliceVars, saveVars, ops>>

ReattachTimer ==
  /\ phase = "reattach" /\ private # <<>>
  /\ tm' = Insert(tm, Head(private))
  /\ private' = Tail(private)
  /\ UNCHANGED <<quantaVars, devVars, basetime, callback, phase, sliceVars, saved, saves, ops>>

ReattachDone ==
  /\ phase = "reattach" /\ private = <<>> /\ phase' = "idle"
  /\ pending' = TRUE /\ execList' = Rebuild(dev)
  /\ UNCHANGED <<tm, quantaVars, dev, basetime, callback, sliceVars, saveVars, ops>>

-----------------------------------------------------------------------------
\* the bound on emulated time
Stop == phase = "slice" /\ basetime >= Horizon /\ UNCHANGED vars

Step ==
  \/ \E t \in Timers : TimerAlloc(t)
  \/ StartDone \/ Timeslice \/ BeginSlice
  \/ \E d \in Devices : SkipTurn(d) \/ SpinTurn(d) \/ EnterDevice(d)
  \/ \E cycles \in Instructions, early \in BOOLEAN : BeginInstruction(cycles, early)
  \/ EndInstruction \/ LeaveDevice \/ EndSlice \/ SlicesDone
  \/ StartCallback \/ SkipDisabled \/ EndCallback \/ TimersDone
  \/ DetachTimer \/ DetachDone \/ ReattachTimer \/ ReattachDone

Next == \/ Step \/ Stop
        \/ EmulatedCall
        \/ SaveState \/ LoadState

Spec == Init /\ [][Next]_vars

\* The one emulation thread keeps going: devices finish starting, handlers
\* return, and the main loop calls timeslice() until the machine exits.
FairSpec == Spec /\ WF_vars(Step)

-----------------------------------------------------------------------------
Slot == [requested : 0..(Second - 1), actual : 0..(Second - 1), expire : Time]

DeviceRecord == [localtime : Time, running : Nat, stolen : Int, icount : Int,
                 suspend : SUBSET Reasons, nextsuspend : SUBSET Reasons,
                 eat : BOOLEAN, nexteat : BOOLEAN, trigger : TriggerIds \cup {0}]

StateFile == [enabled : [Timers -> BOOLEAN], period : [Timers -> Time],
              expire : [Timers -> Time], basetime : 0..(Never - 1),
              dev : [Devices -> DeviceRecord]]

ASSUME FileAssumption == None \notin StateFile  \* a file that was never written is none

\* Every variable has its type, and the base time stays short of never.
TypeOK ==
  /\ tm \in TimerState
  /\ quanta \subseteq Slot /\ minimum \in 1..(Second - 1)
  /\ dev \in [Devices -> DeviceRecord]
  /\ pending \in BOOLEAN
  /\ basetime \in 0..(Never - 1) /\ executing \in Devices \cup {None}
  /\ callback \in [timer : Timers \cup {None}, modified : BOOLEAN, expire : Time]
  /\ phase \in {"start", "idle", "slice", "turn", "run", "instruction", "timers", "callback",
                "detach", "reattach"}
  /\ target \in 0..(Never - 1) /\ turn \in Nat /\ granted \in Nat /\ owed \in Nat
  /\ private \in Seq(Timers)
  /\ saved = None \/ saved \in StateFile
  /\ ops \in 0..MaxOps /\ saves \in 0..MaxSaves

=============================================================================
