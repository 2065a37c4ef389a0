---------------------------- MODULE SchedulerProofs ----------------------------
(***************************************************************************)
(* Type correctness and the safety of device_scheduler, for every number   *)
(* of timers and devices, every cycle time and every bound.                *)
(***************************************************************************)
EXTENDS SchedulerProperties, TimerListProofs

-----------------------------------------------------------------------------
(* The inductive invariant.                                                *)

\* The phase tells which device executes and which callback runs, and
\* postload()'s private list is only used while it takes the list apart.
Control ==
  /\ phase \in {"run", "instruction"} <=> executing # None
  /\ phase = "callback" <=> callback.timer # None
  /\ phase \notin {"detach", "reattach"} => private = <<>>

Held == {private[i] : i \in 1..Len(private)}

\* The sentinel is always there and never fires, so the list has a head and
\* the timer whose callback runs stays in it.
TimersInv ==
  /\ TimersOrdered
  /\ \A i, j \in 1..Len(private) : private[i] = private[j] => i = j
  /\ Queued(tm) \cap Held = {}
  /\ tm.expire[Sentinel] = Never /\ Sentinel \in Queued(tm) \cup Held
  /\ NoTimerLost
  /\ callback.timer # None => callback.timer \in Queued(tm) \ {Sentinel}

DevicesInv ==
  executing # None => /\ dev[executing].icount <= dev[executing].running
                      /\ CyclesConserved

IInv == TypeOK /\ Control /\ TimersInv /\ DevicesInv /\ QuantaSound

-----------------------------------------------------------------------------
(* The devices' operations.                                                *)

\* A call on device d that leaves e conserves its cycles and its local time;
\* the device that executes keeps at least its remaining cycles.
Kept(d, e, active) ==
  /\ e \in DeviceRecord
  /\ e.running + e.stolen = d.running + d.stolen
  /\ e.localtime = d.localtime
  /\ active => e.icount <= e.running

\* device_execute_interface::abort_timeslice.
LEMMA AbortKeeps ==
  ASSUME NEW d \in DeviceRecord, NEW active \in BOOLEAN, active => d.icount <= d.running
  PROVE  Kept(d, AbortTimeslice(d, active), active)
<1> DEFINE e == AbortTimeslice(d, active)
<1>1. CASE active
  <2>1. d.running - d.icount \in Nat /\ d.stolen + d.icount \in Int /\ 0 \in Int
    BY <1>1 DEF DeviceRecord
  <2>2. /\ e.running = d.running - d.icount /\ e.stolen = d.stolen + d.icount
        /\ e.icount = 0 /\ e.localtime = d.localtime
    BY <1>1 DEF AbortTimeslice, DeviceRecord
  <2>3. e \in DeviceRecord
    BY <1>1, <2>1 DEF AbortTimeslice, DeviceRecord
  <2>4. e.running + e.stolen = d.running + d.stolen
    BY <2>2 DEF DeviceRecord
  <2> QED BY <2>1, <2>2, <2>3, <2>4 DEF Kept
<1>2. CASE ~active
  BY <1>2 DEF Kept, AbortTimeslice
<1> QED BY <1>1, <1>2

\* device_execute_interface::suspend.
LEMMA SuspendKeeps ==
  ASSUME NEW d \in DeviceRecord, NEW active \in BOOLEAN, active => d.icount <= d.running,
         NEW reason \in Reasons, NEW eatcycles \in BOOLEAN
  PROVE  Kept(d, Suspend(d, active, reason, eatcycles), active)
<1> DEFINE e == [d EXCEPT !.nextsuspend = @ \cup {reason}, !.nexteat = eatcycles]
<1>1. e \in DeviceRecord /\ Kept(d, e, active)
  BY DEF Kept, DeviceRecord
<1>2. Suspend(d, active, reason, eatcycles) = AbortTimeslice(e, active)
  BY DEF Suspend
<1> HIDE DEF e
<1>3. Kept(e, AbortTimeslice(e, active), active)
  BY <1>1, AbortKeeps DEF Kept
<1> QED BY <1>1, <1>2, <1>3 DEF Kept

\* device_execute_interface::resume.
LEMMA ResumeKeeps ==
  ASSUME NEW d \in DeviceRecord, NEW active \in BOOLEAN, active => d.icount <= d.running,
         NEW reasons
  PROVE  Kept(d, Resume(d, active, reasons), active)
<1> DEFINE e == [d EXCEPT !.nextsuspend = @ \ reasons]
<1>1. e \in DeviceRecord /\ Kept(d, e, active)
  BY DEF Kept, DeviceRecord
<1>2. Resume(d, active, reasons) = AbortTimeslice(e, active)
  BY DEF Resume
<1> HIDE DEF e
<1>3. Kept(e, AbortTimeslice(e, active), active)
  BY <1>1, AbortKeeps DEF Kept
<1> QED BY <1>1, <1>2, <1>3 DEF Kept

\* device_execute_interface::suspend_until_trigger.
LEMMA SuspendUntilTriggerKeeps ==
  ASSUME NEW d \in DeviceRecord, NEW active \in BOOLEAN, active => d.icount <= d.running,
         NEW trigid \in TriggerIds, NEW eatcycles \in BOOLEAN
  PROVE  Kept(d, SuspendUntilTrigger(d, active, trigid, eatcycles), active)
<1> DEFINE e == Suspend(d, active, "trigger", eatcycles)
<1>1. Kept(d, e, active)
  BY SuspendKeeps DEF Reasons
<1>2. SuspendUntilTrigger(d, active, trigid, eatcycles) = [e EXCEPT !.trigger = trigid]
  BY DEF SuspendUntilTrigger
<1> HIDE DEF e
<1> QED BY <1>1, <1>2 DEF Kept, DeviceRecord

\* device_execute_interface::trigger.
LEMMA TriggerKeeps ==
  ASSUME NEW d \in DeviceRecord, NEW active \in BOOLEAN, active => d.icount <= d.running,
         NEW trigid \in TriggerIds
  PROVE  Kept(d, Trigger(d, active, trigid), active)
<1> DEFINE a == AbortTimeslice(d, active)
           e == Resume(a, active, {"trigger"})
<1>1. Kept(d, a, active)
  BY AbortKeeps
<1>2. Trigger(d, active, trigid) = IF Awaits(d, trigid) THEN [e EXCEPT !.trigger = 0] ELSE a
  BY DEF Trigger
<1>3. Kept(a, e, active)
  <2> HIDE DEF a
  <2> QED BY <1>1, ResumeKeeps DEF Kept
<1> HIDE DEF a, e
<1>4. Kept(d, [e EXCEPT !.trigger = 0], active)
  BY <1>1, <1>3 DEF Kept, DeviceRecord
<1> QED BY <1>1, <1>2, <1>4

\* device_execute_interface::eat_cycles.
LEMMA EatKeeps ==
  ASSUME NEW d \in DeviceRecord, d.icount <= d.running, NEW cycles \in Nat
  PROVE  Kept(d, EatCycles(d, TRUE, cycles), TRUE)
BY DEF Kept, EatCycles, DeviceRecord

\* apply_suspend_changes, for one device.
LEMMA ApplySuspendType ==
  ASSUME NEW d \in DeviceRecord
  PROVE  ApplySuspend(d) \in DeviceRecord
BY DEF ApplySuspend, DeviceRecord

-----------------------------------------------------------------------------
(* The timer list.                                                         *)

\* device_scheduler::time() is a time.
LEMMA NowType ==
  ASSUME IInv
  PROVE  Now \in Time
<1>1. CASE callback.timer # None
  BY <1>1 DEF IInv, TypeOK, Now
<1>2. CASE callback.timer = None /\ executing # None
  <2> DEFINE d == dev[executing]
             seen == d.running - d.icount
  <2>1. executing \in Devices /\ d \in DeviceRecord /\ d.icount <= d.running
    BY <1>2 DEF IInv, TypeOK, DevicesInv
  <2>2. seen \in Nat /\ d.localtime \in Nat
    BY <2>1, NeverAssumption DEF DeviceRecord, Time
  <2>3. ClockedTime[executing] \in Nat
    BY <2>1, SchedulerAssumption
  <2> HIDE DEF d, seen
  <2>4. seen * ClockedTime[executing] \in Nat
    BY <2>2, <2>3
  <2>5. Plus(d.localtime, seen * ClockedTime[executing]) \in Time
    BY <2>2, <2>4, PlusType
  <2>6. Now = Plus(d.localtime, seen * ClockedTime[executing])
    BY <1>2 DEF Now, LocalTime, d, seen
  <2> QED BY <2>5, <2>6
<1>3. CASE callback.timer = None /\ executing = None
  BY <1>3, NeverAssumption DEF IInv, TypeOK, Now, Time
<1> QED BY <1>1, <1>2, <1>3

\* What is left to show of a step outside postload().
LEMMA TimersKept ==
  ASSUME IInv, phase \notin {"detach", "reattach"}, phase' \notin {"detach", "reattach"},
         private' = private, WellFormed(tm'), tm'.expire[Sentinel] = Never,
         (Timers \ Anonymous) \cup {Sentinel} \subseteq Queued(tm') \/ phase = "start",
         phase = "start" => phase' = "start" /\ Queued(tm) \subseteq Queued(tm'),
         callback'.timer # None => callback'.timer \in Queued(tm') \ {Sentinel}
  PROVE  tm' \in TimerState /\ TimersInv'
<1>1. private = <<>> /\ private' = <<>> /\ Held = {} /\ Held' = {}
  BY DEF IInv, Control, Held
<1>2. tm' \in TimerState /\ TimersOrdered'
  BY DEF WellFormed, TimersOrdered
<1>3. Sentinel \in Queued(tm') /\ NoTimerLost'
  BY <1>1 DEF IInv, TimersInv, NoTimerLost
<1> QED BY <1>1, <1>2, <1>3 DEF TimersInv

\* Outside postload() the list is well formed and all the timers are in it.
LEMMA ListFacts ==
  ASSUME IInv, phase \notin {"detach", "reattach"}
  PROVE  /\ WellFormed(tm) /\ tm.list # <<>> /\ Queued(tm) \subseteq Timers
         /\ Head(tm.list) \in Queued(tm) /\ Sentinel \in Queued(tm)
         /\ tm.expire[Sentinel] = Never /\ Sentinel \in Anonymous
         /\ phase # "start" => Timers \ Anonymous \subseteq Queued(tm)
<1>1. private = <<>> /\ Held = {}
  BY DEF IInv, Control, Held
<1>2. WellFormed(tm) /\ Sentinel \in Queued(tm) /\ tm.expire[Sentinel] = Never
  BY <1>1 DEF IInv, TypeOK, TimersInv, TimersOrdered, WellFormed
<1>3. phase # "start" => Timers \ Anonymous \subseteq Queued(tm)
  BY <1>1 DEF IInv, TimersInv, NoTimerLost, Held
<1>4. tm.list \in Seq(Timers)
  BY <1>2 DEF WellFormed, TimerState
<1>5. tm.list # <<>> /\ Head(tm.list) \in Queued(tm) /\ Queued(tm) \subseteq Timers
  <2> DEFINE l == tm.list
  <2>1. l \in Seq(Timers) /\ Queued(tm) = {l[i] : i \in 1..Len(l)} /\ Sentinel \in Queued(tm)
    BY <1>2, <1>4 DEF Queued
  <2> HIDE DEF l
  <2>2. l # <<>>  BY <2>1
  <2>3. Head(l) = l[1] /\ 1 \in 1..Len(l)  BY <2>1, <2>2
  <2>4. \A i \in 1..Len(l) : l[i] \in Timers  BY <2>1, ElementOfSeq
  <2> QED BY <2>1, <2>2, <2>3, <2>4 DEF l
<1> QED BY <1>2, <1>3, <1>5, TimerAssumption

\* Every step keeps the list well formed and the timers in it.
LEMMA TimersStep ==
  ASSUME IInv, [Next]_vars
  PROVE  tm' \in TimerState /\ TimersInv'
<1> USE DEF Control
<1>0. /\ Control /\ TimersInv /\ tm \in TimerState
      /\ callback.timer \in Timers \cup {None} /\ None \notin Timers
  BY SchedulerAssumption DEF IInv, TypeOK
<1>1. ASSUME NEW t \in Timers, TimerAlloc(t) PROVE tm' \in TimerState /\ TimersInv'
  <2>1. /\ WellFormed(tm) /\ tm.expire[Sentinel] = Never /\ t \notin Queued(tm)
        /\ phase = "start" /\ UNCHANGED <<phase, callback, private>>
        /\ tm' = InitTimer(tm, t)
    BY <1>1, ListFacts DEF TimerAlloc, saveVars
  <2>2. /\ WellFormed(tm') /\ Queued(tm') = Queued(tm) \cup {t}
        /\ tm'.expire = [tm.expire EXCEPT ![t] = Never]
    BY <2>1, InitTimerKeeps
  <2>3. tm'.expire[Sentinel] = Never
    BY <2>1, <2>2, TimerAssumption DEF WellFormed, TimerState
  <2> QED BY <1>0, <2>1, <2>2, <2>3, TimersKept
<1>2. ASSUME NEW t \in Timers, NEW delay \in Delays, NEW period \in Periods,
             TimerAdjust(t, delay, period)
      PROVE  tm' \in TimerState /\ TimersInv'
  <2>1. /\ phase \notin {"detach", "reattach"} /\ UNCHANGED <<phase, private>>
        /\ callback'.timer = callback.timer
        /\ t \in Queued(tm) /\ (t \notin Anonymous \/ t = callback.timer)
        /\ tm' = Adjust(tm, t, Now, delay, period)
    BY <1>2 DEF TimerAdjust, Call, MayCall, Known, saveVars, IInv, TypeOK
  <2>2. /\ WellFormed(tm) /\ tm.expire[Sentinel] = Never /\ Sentinel \in Queued(tm)
        /\ phase # "start" => Timers \ Anonymous \subseteq Queued(tm)
    BY <2>1, ListFacts
  <2>3. t # Sentinel
    BY <1>0, <2>1, TimerAssumption DEF TimersInv
  <2>4. delay \in Int /\ period \in Time /\ Now \in Time
    BY SchedulerAssumption, NowType
  <2>5. /\ WellFormed(tm') /\ Queued(tm') = Queued(tm)
        /\ tm'.expire = [tm.expire EXCEPT ![t] = Plus(Now, ClampDelay(delay))]
    <3>1. WellFormed(tm) /\ t \in Queued(tm)  BY <2>1, <2>2
    <3>2. \A n \in Time, w \in Int, p \in Time :
            LET us == Adjust(tm, t, n, w, p) IN
            /\ WellFormed(us) /\ Queued(us) = Queued(tm)
            /\ us.enabled = [tm.enabled EXCEPT ![t] = TRUE]
            /\ us.expire = [tm.expire EXCEPT ![t] = Plus(n, ClampDelay(w))]
      BY <3>1, AdjustKeeps
    <3> QED BY <2>1, <2>4, <3>2
  <2>6. tm'.expire[Sentinel] = Never
    BY <2>2, <2>3, <2>5, TimerAssumption DEF WellFormed, TimerState
  <2> QED BY <1>0, <2>1, <2>2, <2>5, <2>6, TimersKept DEF TimersInv
<1>3. ASSUME NEW t \in Timers, NEW on \in EnableArgs, TimerEnable(t, on)
      PROVE  tm' \in TimerState /\ TimersInv'
  <2>1. /\ phase \notin {"detach", "reattach"} /\ UNCHANGED <<phase, private, callback>>
        /\ t \in Queued(tm) /\ tm' = Enable(tm, t, on)
    BY <1>3 DEF TimerEnable, Call, MayCall, Known, saveVars
  <2>2. /\ WellFormed(tm) /\ tm.expire[Sentinel] = Never /\ Sentinel \in Queued(tm)
        /\ phase # "start" => Timers \ Anonymous \subseteq Queued(tm)
    BY <2>1, ListFacts
  <2>3. WellFormed(tm') /\ Queued(tm') = Queued(tm) /\ tm'.expire = tm.expire
    BY <2>1, <2>2, EnableKeeps, SchedulerAssumption
  <2> QED BY <1>0, <2>1, <2>2, <2>3, TimersKept DEF TimersInv
<1>4. ASSUME NEW t \in Timers, NEW delay \in Delays, TimerSet(t, delay)
      PROVE  tm' \in TimerState /\ TimersInv'
  <2>1. /\ phase \notin {"detach", "reattach"} /\ UNCHANGED <<phase, private, callback>>
        /\ t \notin Queued(tm) /\ tm' = SetTimer(tm, t, Now, delay)
    BY <1>4 DEF TimerSet, Call, MayCall, saveVars
  <2>2. /\ WellFormed(tm) /\ tm.expire[Sentinel] = Never /\ Sentinel \in Queued(tm)
        /\ phase # "start" => Timers \ Anonymous \subseteq Queued(tm)
    BY <2>1, ListFacts
  <2>3. delay \in Int /\ Now \in Time
    BY SchedulerAssumption, NowType
  <2>4. /\ WellFormed(tm') /\ Queued(tm') = Queued(tm) \cup {t}
        /\ \A x \in Timers \ {t} : tm'.expire[x] = tm.expire[x]
    BY <2>1, <2>2, <2>3, SetTimerKeeps
  <2>5. tm'.expire[Sentinel] = Never
    BY <2>1, <2>2, <2>4, TimerAssumption
  <2> QED BY <1>0, <2>1, <2>2, <2>4, <2>5, TimersKept DEF TimersInv
<1>5. HeadDue => /\ Head(tm.list) \in Queued(tm) \ {Sentinel}
                 /\ phase = "timers" /\ WellFormed(tm) /\ tm.list # <<>>
                 /\ tm.expire[Sentinel] = Never /\ Sentinel \in Queued(tm)
                 /\ Timers \ Anonymous \subseteq Queued(tm)
  <2> SUFFICES ASSUME HeadDue PROVE <1>5!2
    OBVIOUS
  <2>1. phase = "timers" /\ tm.expire[Head(tm.list)] <= basetime /\ basetime < Never
        /\ basetime \in Nat
    BY NeverAssumption DEF HeadDue, HeadExpire, IInv, TypeOK
  <2> QED BY <2>1, ListFacts, NeverAssumption
<1>6. CASE StartCallback
  <2>1. /\ HeadDue /\ tm' = DisarmHead(tm) /\ callback'.timer = Head(tm.list)
        /\ phase' = "callback" /\ private' = private
    BY <1>6 DEF StartCallback, saveVars
  <2>2. WellFormed(tm') /\ Queued(tm') = Queued(tm) /\ tm'.expire = tm.expire
    BY <1>5, <2>1, DisarmHeadKeeps
  <2> QED BY <1>5, <2>1, <2>2, TimersKept
<1>7. CASE SkipDisabled
  <2> DEFINE t == Head(tm.list)
             us == DisarmHead(tm)
  <2>1. /\ HeadDue /\ tm' = Retire(us, t) /\ UNCHANGED <<callback, phase, private>>
    BY <1>7 DEF SkipDisabled, saveVars
  <2>2. /\ WellFormed(us) /\ Queued(us) = Queued(tm) /\ us.expire = tm.expire
        /\ t \in Queued(us)
    BY <1>5, <2>1, DisarmHeadKeeps
  <2> HIDE DEF us, t
  <2>3. /\ WellFormed(tm')
        /\ Queued(tm') = IF t \in Anonymous THEN Queued(us) \ {t} ELSE Queued(us)
        /\ \A x \in Timers \ {t} : tm'.expire[x] = us.expire[x]
    BY <2>1, <2>2, RetireKeeps
  <2> QED BY <1>0, <1>5, <2>1, <2>2, <2>3, TimersKept, TimerAssumption DEF t
<1>8. CASE EndCallback
  <2> DEFINE t == callback.timer
  <2>1. /\ phase = "callback" /\ phase' = "timers" /\ private' = private
        /\ tm' = (IF callback.modified THEN tm ELSE Retire(tm, t))
        /\ callback'.timer = None
    BY <1>8 DEF EndCallback, saveVars, NoCallback
  <2>2. /\ WellFormed(tm) /\ tm.expire[Sentinel] = Never /\ Sentinel \in Queued(tm)
        /\ Timers \ Anonymous \subseteq Queued(tm)
    BY <2>1, ListFacts
  <2>3. t \in Queued(tm) \ {Sentinel}
    BY <1>0, <2>1 DEF TimersInv
  <2> HIDE DEF t
  <2>4. /\ WellFormed(Retire(tm, t))
        /\ Queued(Retire(tm, t)) = IF t \in Anonymous THEN Queued(tm) \ {t} ELSE Queued(tm)
        /\ \A x \in Timers \ {t} : Retire(tm, t).expire[x] = tm.expire[x]
    BY <2>2, <2>3, RetireKeeps
  <2> QED BY <2>1, <2>2, <2>3, <2>4, TimersKept, TimerAssumption
<1>9. CASE LoadState
  <2>1. /\ phase = "idle" /\ phase' = "detach" /\ private' = private /\ saved \in StateFile
        /\ callback' = callback
        /\ tm' = [tm EXCEPT !.enabled = Loaded(@, saved.enabled),
                            !.period  = Loaded(@, saved.period),
                            !.expire  = Loaded(@, saved.expire)]
    BY <1>9 DEF LoadState, IInv, TypeOK
  <2>2. WellFormed(tm) /\ tm.expire[Sentinel] = Never /\ Sentinel \in Queued(tm)
        /\ Timers \ Anonymous \subseteq Queued(tm)
    BY <2>1, ListFacts
  <2>3. /\ Loaded(tm.enabled, saved.enabled) \in [Timers -> BOOLEAN]
        /\ Loaded(tm.period, saved.period) \in [Timers -> Time]
        /\ Loaded(tm.expire, saved.expire) \in [Timers -> Time]
        /\ Loaded(tm.expire, saved.expire)[Sentinel] = Never
    BY <2>1, <2>2, TimerAssumption DEF Loaded, StateFile, WellFormed, TimerState
  <2>4. /\ tm' \in TimerState /\ tm'.list = tm.list
        /\ tm'.expire = Loaded(tm.expire, saved.expire)
    BY <2>1, <2>2, <2>3 DEF WellFormed, TimerState
  <2>5. Distinct(tm') /\ Queued(tm') = Queued(tm)
    BY <2>2, <2>4 DEF WellFormed, Distinct, Queued
  <2>6. private = <<>> /\ Held' = {} /\ callback.timer = None
    BY <1>0, <2>1 DEF Held
  <2>7. TimersOrdered' /\ NoTimerLost'
    BY <2>1, <2>2, <2>5 DEF TimersOrdered, NoTimerLost
  <2> QED BY <2>1, <2>2, <2>3, <2>4, <2>5, <2>6, <2>7 DEF TimersInv
<1>10. CASE DetachTimer
  <2> DEFINE t == Head(tm.list)
  <2>1. /\ phase = "detach" /\ UNCHANGED <<phase, callback>> /\ callback.timer = None
        /\ tm.list # <<>> /\ tm' = Unlink(tm, t)
        /\ private' = IF LiveAnonymous(tm, t) THEN private ELSE Append(private, t)
    BY <1>0, <1>10 DEF DetachTimer
  <2>2. t \in Queued(tm) /\ t \in Timers
    <3> DEFINE l == tm.list
    <3>1. l \in Seq(Timers) /\ l # <<>> /\ Queued(tm) = {l[i] : i \in 1..Len(l)}
      BY <1>0, <2>1 DEF TimerState, Queued
    <3> HIDE DEF l
    <3>2. Head(l) = l[1] /\ 1 \in 1..Len(l)  BY <3>1
    <3>3. \A i \in 1..Len(l) : l[i] \in Timers  BY <3>1, ElementOfSeq
    <3> QED BY <3>1, <3>2, <3>3 DEF l
  <2> HIDE DEF t
  <2>3. /\ tm' \in TimerState /\ Distinct(tm') /\ Queued(tm') = Queued(tm) \ {t}
        /\ tm'.expire = tm.expire
    BY <1>0, <2>1, <2>2, UnlinkKeeps DEF TimersInv, TimersOrdered
  <2>4. private \in Seq(Timers)
    BY DEF IInv, TypeOK
  <2>5. /\ Held' = IF LiveAnonymous(tm, t) THEN Held ELSE Held \cup {t}
        /\ \A i, j \in 1..Len(private') : private'[i] = private'[j] => i = j
    <3>1. t \notin Held
      BY <1>0, <2>2 DEF TimersInv
    <3>2. CASE LiveAnonymous(tm, t)
      BY <1>0, <2>1, <3>2 DEF Held, TimersInv
    <3>3. CASE ~LiveAnonymous(tm, t)
      <4>1. /\ Len(private') = Len(private) + 1 /\ Len(private) \in Nat
            /\ \A i \in 1..Len(private') :
                 private'[i] = IF i <= Len(private) THEN private[i] ELSE t
        BY <2>1, <2>2, <2>4, <3>3
      <4> QED BY <1>0, <3>1, <3>3, <4>1 DEF Held, TimersInv
    <3> QED BY <3>2, <3>3
  <2>6. LiveAnonymous(tm, t) => t \in Anonymous \ {Sentinel}
    BY <1>0 DEF LiveAnonymous, TimersInv
  <2>7. TimersOrdered'
    BY <2>1, <2>3 DEF TimersOrdered
  <2>8. NoTimerLost'
    BY <1>0, <2>1, <2>3, <2>5, <2>6 DEF NoTimerLost, TimersInv, Held
  <2> QED BY <1>0, <2>1, <2>3, <2>5, <2>6, <2>7, <2>8 DEF TimersInv
<1>11. CASE DetachDone
  <2>1. /\ phase = "detach" /\ phase' = "reattach" /\ UNCHANGED <<tm, callback, private>>
        /\ tm.list = <<>>
    BY <1>11 DEF DetachDone, saveVars
  <2>2. Len(tm'.list) = 0  BY <2>1
  <2>3. Ordered(tm')  BY <2>2 DEF Ordered
  <2> QED BY <1>0, <2>1, <2>3 DEF TimersInv, TimersOrdered, NoTimerLost, Held, Distinct, Queued
<1>12. CASE ReattachTimer
  <2> DEFINE t == Head(private)
  <2>1. /\ phase = "reattach" /\ UNCHANGED <<phase, callback>> /\ callback.timer = None
        /\ private # <<>> /\ tm' = Insert(tm, t) /\ private' = Tail(private)
    BY <1>0, <1>12 DEF ReattachTimer
  <2>2. private \in Seq(Timers)
    BY DEF IInv, TypeOK
  <2>3. /\ private' \in Seq(Timers) /\ Len(private) \in Nat \ {0}
        /\ Len(private') = Len(private) - 1
        /\ \A i \in 1..Len(private') : private'[i] = private[i + 1]
        /\ t = private[1] /\ t \in Timers
    BY <2>1, <2>2, HeadTailProperties
  <2> HIDE DEF t
  <2>4. Held = Held' \cup {t} /\ t \notin Held'
    <3>1. \A i \in 1..Len(private) : i = 1 \/ i - 1 \in 1..Len(private')
      BY <2>3
    <3>2. \A i \in 1..Len(private) : i # 1 => private'[i - 1] = private[i]
      BY <2>3
    <3>3. Held \subseteq Held' \cup {t}
      <4> SUFFICES ASSUME NEW i \in 1..Len(private)
                   PROVE  private[i] \in Held' \cup {t}
        BY DEF Held
      <4>1. CASE i = 1  BY <2>3, <4>1
      <4>2. CASE i # 1
        <5>1. i - 1 \in 1..Len(private') /\ private'[i - 1] = private[i]
          BY <3>1, <3>2, <4>2
        <5> QED BY <5>1 DEF Held
      <4> QED BY <4>1, <4>2
    <3>4. \A i \in 1..Len(private') : i + 1 \in 1..Len(private) /\ i + 1 # 1
      BY <2>3
    <3>5. Held' \subseteq Held /\ t \notin Held'
      BY <1>0, <2>3, <3>4 DEF Held, TimersInv
    <3>6. t \in Held
      BY <2>3 DEF Held
    <3> QED BY <3>3, <3>5, <3>6
  <2>5. \A i, j \in 1..Len(private') : private'[i] = private'[j] => i = j
    <3> SUFFICES ASSUME NEW i \in 1..Len(private'), NEW j \in 1..Len(private'),
                        private'[i] = private'[j]
                 PROVE  i = j
      OBVIOUS
    <3>1. i + 1 \in 1..Len(private) /\ j + 1 \in 1..Len(private)
      BY <2>3
    <3>2. private[i + 1] = private[j + 1]
      BY <2>3
    <3>3. i + 1 = j + 1
      BY <1>0, <3>1, <3>2 DEF TimersInv
    <3> QED BY <2>3, <3>3
  <2>6. WellFormed(tm) /\ t \notin Queued(tm)
    BY <1>0, <2>1, <2>4 DEF TimersInv, TimersOrdered, WellFormed
  <2>7. WellFormed(tm') /\ Queued(tm') = Queued(tm) \cup {t} /\ tm'.expire = tm.expire
    BY <2>1, <2>3, <2>6, InsertKeeps
  <2>8. TimersOrdered' /\ NoTimerLost'
    BY <1>0, <2>1, <2>4, <2>7 DEF TimersOrdered, NoTimerLost, TimersInv, Held, WellFormed
  <2> QED BY <1>0, <2>1, <2>4, <2>5, <2>7, <2>8 DEF TimersInv, WellFormed
<1>13. ASSUME UNCHANGED <<tm, private>>, callback'.timer = callback.timer,
              phase # "detach", phase' # "detach", phase = "start" => phase' = "start" \/ StartDone
       PROVE  tm' \in TimerState /\ TimersInv'
  <2>1. TimersOrdered'
    BY <1>0, <1>13 DEF TimersInv, TimersOrdered, Distinct, Ordered, SortKey
  <2>2. tm' = tm /\ Queued(tm') = Queued(tm) /\ Held' = Held
    BY <1>13 DEF Held
  <2>3. phase' # "start" =>
          (Timers \ Anonymous) \cup {Sentinel} \subseteq Queued(tm) \cup Held
    BY <1>0, <1>13 DEF TimersInv, NoTimerLost, StartDone, Held
  <2>4. NoTimerLost'
    BY <2>2, <2>3 DEF NoTimerLost, Held
  <2>5. \A i, j \in 1..Len(private') : private'[i] = private'[j] => i = j
    BY <1>0, <1>13 DEF TimersInv
  <2>6. /\ Queued(tm') \cap Held' = {}
        /\ tm'.expire[Sentinel] = Never /\ Sentinel \in Queued(tm') \cup Held'
        /\ callback'.timer # None => callback'.timer \in Queued(tm') \ {Sentinel}
    BY <1>0, <1>13, <2>2 DEF TimersInv
  <2> QED BY <1>0, <2>1, <2>2, <2>4, <2>5, <2>6 DEF TimersInv
<1>14. CASE UNCHANGED vars
  <2>1. UNCHANGED <<tm, private, callback, phase>>
    BY <1>14 DEF vars, saveVars
  <2>2. tm' = tm /\ Queued(tm') = Queued(tm) /\ Held' = Held
    BY <2>1 DEF Held
  <2>3. TimersOrdered'
    BY <1>0, <2>1 DEF TimersInv, TimersOrdered, Distinct, Ordered, SortKey
  <2>4. NoTimerLost'
    BY <1>0, <2>1, <2>2 DEF TimersInv, NoTimerLost
  <2>5. \A i, j \in 1..Len(private') : private'[i] = private'[j] => i = j
    BY <1>0, <2>1 DEF TimersInv
  <2>6. /\ Queued(tm') \cap Held' = {}
        /\ tm'.expire[Sentinel] = Never /\ Sentinel \in Queued(tm') \cup Held'
        /\ callback'.timer # None => callback'.timer \in Queued(tm') \ {Sentinel}
    BY <1>0, <2>1, <2>2 DEF TimersInv
  <2> QED BY <1>0, <2>2, <2>3, <2>4, <2>5, <2>6 DEF TimersInv
<1>15. ASSUME EmulatedCall PROVE tm' \in TimerState /\ TimersInv'
  <2>1. ASSUME Call, UNCHANGED <<tm, callback>> PROVE tm' \in TimerState /\ TimersInv'
    BY <1>13, <2>1 DEF Call, MayCall, saveVars
  <2>2. CASE \E d \in Devices, arg \in SuspendArgs :
               \/ SuspendDevice(d, arg[1], arg[2])
               \/ ResumeDevice(d, arg[1])
               \/ \E trigid \in TriggerIds : arg[1] = "trigger" /\ AwaitTrigger(d, trigid, arg[2])
    BY <2>1, <2>2 DEF SuspendDevice, ResumeDevice, AwaitTrigger
  <2>3. CASE \E trigid \in TriggerIds : FireTrigger(trigid)
    BY <2>1, <2>3 DEF FireTrigger
  <2>4. CASE \E cycles \in EatArgs : Eat(cycles)
    BY <2>1, <2>4 DEF Eat
  <2>5. CASE \E b \in Boosts : BoostInterleave(b[1], b[2])
    BY <2>1, <2>5 DEF BoostInterleave
  <2> QED BY <1>2, <1>3, <1>4, <1>15, <2>2, <2>3, <2>4, <2>5 DEF EmulatedCall
<1>16. CASE Timeslice \/ BeginSlice \/ EndSlice \/ SlicesDone \/ TimersDone \/ StartDone
            \/ EndInstruction \/ LeaveDevice \/ SaveState \/ ReattachDone
  BY <1>13, <1>16 DEF Timeslice, BeginSlice, EndSlice, SlicesDone, TimersDone, StartDone,
                      EndInstruction, LeaveDevice, SaveState, ReattachDone, saveVars
<1>17. CASE \E d \in Devices : SkipTurn(d) \/ SpinTurn(d) \/ EnterDevice(d)
  BY <1>13, <1>17 DEF SkipTurn, SpinTurn, EnterDevice, Turn, saveVars
<1>18. CASE \E cycles \in Instructions, early \in BOOLEAN : BeginInstruction(cycles, early)
  BY <1>13, <1>18 DEF BeginInstruction, saveVars
<1>19. CASE Stop
  BY <1>14, <1>19 DEF Stop
<1> QED
  BY <1>1, <1>6, <1>7, <1>8, <1>9, <1>10, <1>11, <1>12, <1>14, <1>15, <1>16, <1>17, <1>18, <1>19
  DEF Next, Step
-----------------------------------------------------------------------------
(* The devices.                                                            *)

\* A divisor is not zero if no more bits were dropped than there are.
LEMMA QuotientType ==
  ASSUME NEW c \in Nat, NEW s \in 1..c
  PROVE  c \div s \in Nat \ {0}
<1>1. s \in Nat \ {0} /\ c \div s \in Nat
  OBVIOUS
<1>2. c = s * (c \div s) + (c % s) /\ c % s < s
  BY <1>1
<1>3. ASSUME c \div s = 0 PROVE FALSE
  <2>1. s * (c \div s) = 0  BY <1>1, <1>3
  <2>2. c = c % s  BY <1>1, <1>2, <2>1
  <2> QED BY <1>1, <1>2, <2>2
<1> QED BY <1>1, <1>3

\* A device that may run is granted a number of cycles.
LEMMA GrantType ==
  ASSUME IInv, NEW d \in Devices, MayRun(d)
  PROVE  Grant(d) \in Nat
<1>1. /\ Second \in Nat \ {0} /\ CycleTime[d] \in Nat /\ DivScale[d] \in 1..CycleTime[d]
      /\ target \in Nat /\ dev[d].localtime \in Nat
  <2>1. CycleTime[d] \in 1..(Second - 1) /\ Second \in Nat /\ MinimumQuantum \in 1..(Second - 1)
    BY SchedulerAssumption
  <2>2. DivScale[d] \in 1..CycleTime[d]
    BY SchedulerAssumption
  <2>3. dev[d] \in DeviceRecord /\ target \in 0..(Never - 1)
    BY DEF IInv, TypeOK
  <2>4. dev[d].localtime \in Nat /\ target \in Nat
    BY <2>3, NeverAssumption DEF DeviceRecord, Time
  <2> QED BY <2>1, <2>2, <2>4
<1>2. Delta(d) \in Int
  BY <1>1 DEF Delta
<1>3. Delta(d) \in Nat
  BY <1>1, <1>2 DEF MayRun
<1>4. DivScale[d] \in Nat \ {0} /\ CycleTime[d] \div DivScale[d] \in Nat \ {0}
  BY <1>1, QuotientType
<1>5. Delta(d) \div DivScale[d] \in Nat
  BY <1>3, <1>4
<1>6. (Delta(d) \div DivScale[d]) \div (CycleTime[d] \div DivScale[d]) \in Nat
  BY <1>4, <1>5
<1> QED BY <1>6 DEF Grant, CyclesIn

\* A call keeps the devices if it keeps each of them.
LEMMA DevicesKept ==
  ASSUME IInv, UNCHANGED <<executing, granted>>, DOMAIN dev' = Devices,
         dev' = [d \in Devices |-> dev'[d]],
         \A d \in Devices : Kept(dev[d], dev'[d], d = executing)
  PROVE  dev' \in [Devices -> DeviceRecord] /\ DevicesInv'
<1>1. dev' \in [Devices -> DeviceRecord]
  BY DEF Kept
<1>2. ASSUME executing # None PROVE DevicesInv'
  <2>1. executing \in Devices /\ Kept(dev[executing], dev'[executing], TRUE)
    BY <1>2 DEF IInv, TypeOK
  <2> QED BY <1>2, <2>1 DEF IInv, DevicesInv, CyclesConserved, Kept
<1> QED BY <1>1, <1>2 DEF DevicesInv

\* The part of the invariant that a call on a device needs.
LEMMA DeviceFacts ==
  ASSUME IInv, NEW d \in Devices
  PROVE  /\ dev[d] \in DeviceRecord /\ (d = executing) \in BOOLEAN
         /\ d = executing => dev[d].icount <= dev[d].running
         /\ Kept(dev[d], dev[d], d = executing)
         /\ DOMAIN dev = Devices /\ dev = [x \in Devices |-> dev[x]]
<1>1. dev[d] \in DeviceRecord /\ dev \in [Devices -> DeviceRecord]
  BY DEF IInv, TypeOK
<1>2. d = executing => dev[d].icount <= dev[d].running
  BY SchedulerAssumption DEF IInv, DevicesInv
<1> QED BY <1>1, <1>2 DEF Kept

\* A call on one device keeps the devices if it keeps that one.
LEMMA DeviceKept ==
  ASSUME IInv, UNCHANGED <<executing, granted>>, NEW d \in Devices, NEW e,
         Kept(dev[d], e, d = executing), dev' = [dev EXCEPT ![d] = e]
  PROVE  dev' \in [Devices -> DeviceRecord] /\ DevicesInv'
<1>1. DOMAIN dev' = Devices /\ dev' = [x \in Devices |-> IF x = d THEN e ELSE dev[x]]
  BY DeviceFacts
<1>2. \A x \in Devices : Kept(dev[x], dev'[x], x = executing)
  BY <1>1, DeviceFacts
<1> QED BY <1>1, <1>2, DevicesKept

\* adjust() and timer_set() abort the slice of the executing device.
LEMMA ResyncKeeps ==
  ASSUME IInv, UNCHANGED <<executing, granted>>, NEW ts, NEW t, dev' = ResyncOn(ts, t)
  PROVE  dev' \in [Devices -> DeviceRecord] /\ DevicesInv'
<1>1. CASE Head(ts.list) = t /\ executing # None
  <2>1. executing \in Devices
    BY <1>1 DEF IInv, TypeOK
  <2>2. Kept(dev[executing], AbortTimeslice(dev[executing], TRUE), TRUE)
    BY <2>1, DeviceFacts, AbortKeeps
  <2>3. dev' = [dev EXCEPT ![executing] = AbortTimeslice(dev[executing], TRUE)]
    BY <1>1 DEF ResyncOn
  <2> QED BY <2>1, <2>2, <2>3, DeviceKept
<1>2. CASE ~(Head(ts.list) = t /\ executing # None)
  <2>1. dev' = dev  BY <1>2 DEF ResyncOn
  <2> QED BY <2>1 DEF IInv, TypeOK, DevicesInv, CyclesConserved
<1> QED BY <1>1, <1>2

\* Accounting a turn's cycles keeps the types.
LEMMA AccountType ==
  ASSUME IInv, NEW d \in Devices, NEW ran \in Nat, Account(d, ran)
  PROVE  dev' \in [Devices -> DeviceRecord] /\ target' \in 0..(Never - 1) /\ turn' = turn + 1
<1> DEFINE local == Plus(dev[d].localtime, ran * CycleTime[d])
           e == [dev[d] EXCEPT !.localtime = local, !.running = 0, !.icount = 0, !.stolen = 0]
<1>1. /\ dev' = [dev EXCEPT ![d] = e] /\ turn' = turn + 1
      /\ target' = IF local < target THEN (IF local > basetime THEN local ELSE basetime)
                                     ELSE target
  BY DEF Account
<1>2. CycleTime[d] \in Nat
  BY SchedulerAssumption
<1>3. dev[d] \in DeviceRecord /\ dev[d].localtime \in Nat
  BY NeverAssumption DEF IInv, TypeOK, DeviceRecord, Time
<1>4. local \in Time
  <2>1. ran * CycleTime[d] \in Nat  BY <1>2
  <2> QED BY <1>3, <2>1, PlusType
<1> HIDE DEF local
<1>5. e \in DeviceRecord
  <2> DEFINE f == dev[d]
  <2>1. f \in DeviceRecord  BY <1>3
  <2> HIDE DEF f
  <2> DEFINE g == [f EXCEPT !.localtime = local, !.running = 0]
  <2>2. g \in DeviceRecord
    BY <1>4, <2>1 DEF DeviceRecord
  <2>3. [f EXCEPT !.localtime = local, !.running = 0, !.icount = 0, !.stolen = 0] =
          [g EXCEPT !.icount = 0, !.stolen = 0]
    OBVIOUS
  <2> HIDE DEF g
  <2>4. [g EXCEPT !.icount = 0, !.stolen = 0] \in DeviceRecord
    <3>1. 0 \in Int  OBVIOUS
    <3> QED BY <2>2, <3>1 DEF DeviceRecord
  <2> QED BY <2>3, <2>4 DEF f
<1> HIDE DEF e
<1>6. dev' \in [Devices -> DeviceRecord]
  BY <1>1, <1>5 DEF IInv, TypeOK
<1>7. target \in 0..(Never - 1) /\ basetime \in 0..(Never - 1)
  BY DEF IInv, TypeOK
<1> QED BY <1>1, <1>4, <1>6, <1>7, NeverAssumption DEF Time

\* The cycles the executing device has run are a number of cycles.
LEMMA RanType ==
  ASSUME IInv, executing # None
  PROVE  /\ executing \in Devices
         /\ granted - dev[executing].icount - dev[executing].stolen \in Nat
         /\ granted - dev[executing].icount - dev[executing].stolen =
              dev[executing].running - dev[executing].icount
<1>1. executing \in Devices /\ granted \in Nat /\ dev[executing] \in DeviceRecord
  BY DEF IInv, TypeOK
<1>2. /\ dev[executing].icount <= dev[executing].running
      /\ dev[executing].running + dev[executing].stolen = granted
  BY DEF IInv, DevicesInv, CyclesConserved
<1> QED BY <1>1, <1>2 DEF DeviceRecord

\* Every step keeps the devices' types and conserves the cycles of the turn.
LEMMA DevicesStep ==
  ASSUME IInv, [Next]_vars
  PROVE  dev' \in [Devices -> DeviceRecord] /\ DevicesInv'
<1>0. /\ dev \in [Devices -> DeviceRecord] /\ DevicesInv
      /\ phase \notin {"run", "instruction"} => executing = None
      /\ phase \in {"run", "instruction"} => executing # None /\ executing \in Devices
  BY DEF IInv, TypeOK, Control
<1>1. ASSUME UNCHANGED <<dev, executing, granted>>
      PROVE  dev' \in [Devices -> DeviceRecord] /\ DevicesInv'
  BY <1>0, <1>1 DEF DevicesInv, CyclesConserved
<1>2. ASSUME dev' \in [Devices -> DeviceRecord], executing' = None
      PROVE  dev' \in [Devices -> DeviceRecord] /\ DevicesInv'
  BY <1>2 DEF DevicesInv
<1>3. ASSUME EmulatedCall PROVE dev' \in [Devices -> DeviceRecord] /\ DevicesInv'
  <2>0. Call => UNCHANGED <<executing, granted>>
    BY DEF Call, sliceVars
  <2>1. ASSUME NEW t \in Timers, NEW delay \in Delays, TimerSet(t, delay)
        PROVE  dev' \in [Devices -> DeviceRecord] /\ DevicesInv'
    <3>1. dev' = ResyncOn(tm', t) /\ UNCHANGED <<executing, granted>>
      BY <2>0, <2>1 DEF TimerSet
    <3> QED BY <3>1, ResyncKeeps
  <2>2. ASSUME NEW t \in Timers, NEW delay \in Delays, NEW period \in Periods,
               TimerAdjust(t, delay, period)
        PROVE  dev' \in [Devices -> DeviceRecord] /\ DevicesInv'
    <3>1. dev' = ResyncOn(tm', t) /\ UNCHANGED <<executing, granted>>
      BY <2>0, <2>2 DEF TimerAdjust
    <3> QED BY <3>1, ResyncKeeps
  <2>3. ASSUME NEW t \in Timers, NEW on \in EnableArgs, TimerEnable(t, on)
        PROVE  dev' \in [Devices -> DeviceRecord] /\ DevicesInv'
    BY <1>1, <2>0, <2>3 DEF TimerEnable
  <2>4. ASSUME NEW d \in Devices, NEW arg \in SuspendArgs, SuspendDevice(d, arg[1], arg[2])
        PROVE  dev' \in [Devices -> DeviceRecord] /\ DevicesInv'
    <3>1. arg[1] \in Reasons /\ arg[2] \in BOOLEAN
      BY SchedulerAssumption
    <3>2. /\ dev' = [dev EXCEPT ![d] = Suspend(dev[d], d = executing, arg[1], arg[2])]
          /\ UNCHANGED <<executing, granted>>
      BY <2>0, <2>4 DEF SuspendDevice
    <3>3. Kept(dev[d], Suspend(dev[d], d = executing, arg[1], arg[2]), d = executing)
      BY <3>1, DeviceFacts, SuspendKeeps
    <3> QED BY <3>2, <3>3, DeviceKept
  <2>5. ASSUME NEW d \in Devices, NEW arg \in SuspendArgs, ResumeDevice(d, arg[1])
        PROVE  dev' \in [Devices -> DeviceRecord] /\ DevicesInv'
    <3>1. /\ dev' = [dev EXCEPT ![d] = Resume(dev[d], d = executing, {arg[1]})]
          /\ UNCHANGED <<executing, granted>>
      BY <2>0, <2>5 DEF ResumeDevice
    <3>2. Kept(dev[d], Resume(dev[d], d = executing, {arg[1]}), d = executing)
      BY DeviceFacts, ResumeKeeps
    <3> QED BY <3>1, <3>2, DeviceKept
  <2>6. ASSUME NEW d \in Devices, NEW arg \in SuspendArgs, NEW trigid \in TriggerIds,
               AwaitTrigger(d, trigid, arg[2])
        PROVE  dev' \in [Devices -> DeviceRecord] /\ DevicesInv'
    <3>1. arg[2] \in BOOLEAN
      BY SchedulerAssumption
    <3>2. /\ dev' = [dev EXCEPT ![d] =
                       SuspendUntilTrigger(dev[d], d = executing, trigid, arg[2])]
          /\ UNCHANGED <<executing, granted>>
      BY <2>0, <2>6 DEF AwaitTrigger
    <3>3. Kept(dev[d], SuspendUntilTrigger(dev[d], d = executing, trigid, arg[2]), d = executing)
      BY <3>1, DeviceFacts, SuspendUntilTriggerKeeps
    <3> QED BY <3>2, <3>3, DeviceKept
  <2>7. ASSUME NEW trigid \in TriggerIds, FireTrigger(trigid)
        PROVE  dev' \in [Devices -> DeviceRecord] /\ DevicesInv'
    <3>1. /\ dev' = [d \in Devices |-> Trigger(dev[d], d = executing, trigid)]
          /\ UNCHANGED <<executing, granted>>
      BY <2>0, <2>7 DEF FireTrigger
    <3>2. ASSUME NEW d \in Devices
          PROVE  Kept(dev[d], Trigger(dev[d], d = executing, trigid), d = executing)
      BY DeviceFacts, TriggerKeeps
    <3> QED BY <3>1, <3>2, DevicesKept
  <2>8. ASSUME NEW cycles \in EatArgs, Eat(cycles)
        PROVE  dev' \in [Devices -> DeviceRecord] /\ DevicesInv'
    <3>1. /\ executing \in Devices /\ cycles \in Nat
          /\ dev' = [dev EXCEPT ![executing] = EatCycles(dev[executing], TRUE, cycles)]
          /\ UNCHANGED <<executing, granted>>
      BY <2>0, <2>8, SchedulerAssumption DEF Eat, IInv, TypeOK
    <3>2. Kept(dev[executing], EatCycles(dev[executing], TRUE, cycles), TRUE)
      BY <3>1, DeviceFacts, EatKeeps
    <3> QED BY <3>1, <3>2, DeviceKept
  <2>9. ASSUME NEW b \in Boosts, BoostInterleave(b[1], b[2])
        PROVE  dev' \in [Devices -> DeviceRecord] /\ DevicesInv'
    BY <1>1, <2>0, <2>9 DEF BoostInterleave
  <2> QED
    BY <1>3, <2>1, <2>2, <2>3, <2>4, <2>5, <2>6, <2>7, <2>8, <2>9 DEF EmulatedCall
<1>4. CASE BeginSlice
  <2>1. executing' = None /\ ApplyChanges
    BY <1>0, <1>4 DEF BeginSlice
  <2>2. \A d \in Devices : ApplySuspend(dev[d]) \in DeviceRecord
    BY <1>0, ApplySuspendType
  <2>3. dev' \in [Devices -> DeviceRecord]
    BY <1>0, <2>1, <2>2 DEF ApplyChanges, devVars
  <2> QED BY <1>2, <2>1, <2>3
<1>5. ASSUME NEW d \in Devices, SpinTurn(d)
      PROVE  dev' \in [Devices -> DeviceRecord] /\ DevicesInv'
  <2>1. MayRun(d) /\ Account(d, Grant(d)) /\ executing' = None
    BY <1>0, <1>5 DEF SpinTurn, Turn
  <2> QED BY <1>2, <2>1, GrantType, AccountType
<1>6. ASSUME NEW d \in Devices, EnterDevice(d)
      PROVE  dev' \in [Devices -> DeviceRecord] /\ DevicesInv'
  <2> DEFINE g == Grant(d)
             f == dev[d]
             e == [f EXCEPT !.running = g, !.icount = g, !.stolen = 0]
  <2>1. /\ dev' = [dev EXCEPT ![d] = e] /\ granted' = g /\ executing' = d /\ MayRun(d)
    BY <1>6 DEF EnterDevice
  <2>2. g \in Nat /\ f \in DeviceRecord
    BY <1>0, <2>1, GrantType
  <2> HIDE DEF g, f
  <2>3. e \in DeviceRecord /\ e.running = g /\ e.icount = g /\ e.stolen = 0
    <3>1. e.running = g /\ e.icount = g /\ e.stolen = 0
      BY <2>2 DEF DeviceRecord
    <3>2. g \in Int /\ 0 \in Int
      BY <2>2
    <3>3. e \in DeviceRecord
      BY <2>2, <3>2 DEF DeviceRecord
    <3> QED BY <3>1, <3>3
  <2> HIDE DEF e
  <2>4. dev' \in [Devices -> DeviceRecord] /\ dev'[d] = e
    BY <1>0, <2>1, <2>3
  <2> QED BY <2>1, <2>2, <2>3, <2>4 DEF DevicesInv, CyclesConserved
<1>7. ASSUME NEW cycles \in Nat, phase \in {"run", "instruction"},
             UNCHANGED <<executing, granted>>,
             dev' = [dev EXCEPT ![executing].icount = @ - cycles]
      PROVE  dev' \in [Devices -> DeviceRecord] /\ DevicesInv'
  <2> DEFINE f == dev[executing]
             e == [f EXCEPT !.icount = @ - cycles]
  <2>1. executing \in Devices /\ f \in DeviceRecord /\ f.icount <= f.running
    BY <1>0, <1>7 DEF DevicesInv
  <2>2. dev' = [dev EXCEPT ![executing] = e]
    BY <1>7
  <2> HIDE DEF f
  <2>3. Kept(f, e, TRUE)
    BY <2>1 DEF Kept, DeviceRecord
  <2> HIDE DEF e
  <2> QED BY <1>7, <2>1, <2>2, <2>3, DeviceKept DEF f
<1>8. ASSUME NEW cycles \in Instructions, NEW early \in BOOLEAN, BeginInstruction(cycles, early)
      PROVE  dev' \in [Devices -> DeviceRecord] /\ DevicesInv'
  <2>1. phase = "run" /\ UNCHANGED <<executing, granted>> /\ cycles \in Nat
    BY <1>8, SchedulerAssumption DEF BeginInstruction
  <2>2. CASE early
    BY <1>7, <1>8, <2>1, <2>2 DEF BeginInstruction
  <2>3. CASE ~early
    BY <1>1, <1>8, <2>1, <2>3 DEF BeginInstruction
  <2> QED BY <2>2, <2>3
<1>9. CASE EndInstruction
  <2>1. owed \in Nat
    BY DEF IInv, TypeOK
  <2> QED BY <1>7, <1>9, <2>1 DEF EndInstruction
<1>10. CASE LeaveDevice
  <2>1. /\ executing # None /\ executing' = None
        /\ Account(executing, granted - dev[executing].icount - dev[executing].stolen)
    BY <1>0, <1>10 DEF LeaveDevice
  <2> QED BY <1>2, <2>1, RanType, AccountType
<1>11. CASE LoadState
  <2>1. executing' = None /\ dev' = saved.dev /\ saved \in StateFile
    BY <1>0, <1>11 DEF LoadState, IInv, TypeOK, sliceVars
  <2> QED BY <1>2, <2>1 DEF StateFile
<1>12. ASSUME NEW d \in Devices, SkipTurn(d)
       PROVE  dev' \in [Devices -> DeviceRecord] /\ DevicesInv'
  BY <1>1, <1>12 DEF SkipTurn, devVars
<1>13. ASSUME NEW t \in Timers, TimerAlloc(t)
       PROVE  dev' \in [Devices -> DeviceRecord] /\ DevicesInv'
  BY <1>1, <1>13 DEF TimerAlloc, devVars, sliceVars
<1>14. CASE StartDone \/ Timeslice \/ EndSlice \/ SlicesDone \/ StartCallback \/ SkipDisabled
            \/ EndCallback \/ TimersDone \/ SaveState
  BY <1>1, <1>14 DEF StartDone, Timeslice, EndSlice, SlicesDone, StartCallback, SkipDisabled,
                     EndCallback, TimersDone, SaveState, devVars, sliceVars
<1>15. CASE DetachTimer \/ DetachDone \/ ReattachTimer \/ ReattachDone
  BY <1>1, <1>15 DEF DetachTimer, DetachDone, ReattachTimer, ReattachDone, devVars, sliceVars
<1>16. CASE Stop \/ UNCHANGED vars
  BY <1>1, <1>16 DEF Stop, vars, devVars, sliceVars
<1> QED
  BY <1>3, <1>4, <1>5, <1>6, <1>8, <1>9, <1>10, <1>11, <1>12, <1>13, <1>14, <1>15, <1>16
  DEF Next, Step
-----------------------------------------------------------------------------
(* The quanta.                                                             *)

\* QuantaSound, of a set of slots.
Ruled(qs) ==
  /\ \E q \in qs : q.expire = Never /\ q.requested = MinimumQuantum
  /\ \A q, r \in qs : q.requested = r.requested => q = r

\* add_scheduling_quantum keeps the machine's quantum and one slot per length.
LEMMA AddQuantumKeeps ==
  ASSUME NEW qs \in SUBSET Slot, Ruled(qs), NEW now \in 0..(Never - 1),
         NEW requested \in 0..(Second - 1), NEW expire \in Time,
         NEW least \in 1..(Second - 1)
  PROVE  LET rs == AddQuantum(qs, now, requested, expire, least) IN
         rs \subseteq Slot /\ Ruled(rs)
<1> DEFINE live == {q \in qs : ~Expired(q, now)}
           same == {q \in live : q.requested = requested}
           longer(q) == [q EXCEPT !.expire = IF q.expire >= expire THEN q.expire ELSE expire]
           kept == (live \ same) \cup {longer(q) : q \in same}
           actual == IF requested >= least THEN requested ELSE least
           slot == [requested |-> requested, actual |-> actual, expire |-> expire]
           rs == AddQuantum(qs, now, requested, expire, least)
<1>1. Never \in Nat /\ Second \in Nat
  BY NeverAssumption, SchedulerAssumption
<1>2. /\ live \subseteq Slot /\ \A q, r \in live : q.requested = r.requested => q = r
      /\ \E q \in live : q.expire = Never /\ q.requested = MinimumQuantum
  BY <1>1 DEF Ruled, Expired
<1>3. CASE same # {}
  <2>1. rs = kept
    BY <1>3 DEF AddQuantum
  <2>2. ASSUME NEW q \in same
        PROVE  /\ longer(q) \in Slot /\ longer(q).requested = q.requested
               /\ q.expire = Never => longer(q).expire = Never
    BY <1>1, <1>2 DEF Slot, Time
  <2> HIDE DEF longer
  <2>3. kept \subseteq Slot
    BY <1>2, <2>2
  <2>4. \E q \in kept : q.expire = Never /\ q.requested = MinimumQuantum
    BY <1>2, <2>2
  <2>5. \A q, r \in kept : q.requested = r.requested => q = r
    BY <1>2, <2>2
  <2> QED BY <2>1, <2>3, <2>4, <2>5 DEF Ruled
<1>4. CASE same = {}
  <2>1. rs = live \cup {slot}
    BY <1>4 DEF AddQuantum
  <2>2. slot \in Slot /\ slot.requested = requested
    BY <1>1 DEF Slot
  <2> HIDE DEF slot
  <2>3. \A q \in live : q.requested # requested
    BY <1>4
  <2>4. live \cup {slot} \subseteq Slot
    BY <1>2, <2>2
  <2>5. \E q \in live \cup {slot} : q.expire = Never /\ q.requested = MinimumQuantum
    BY <1>2
  <2>6. \A q, r \in live \cup {slot} : q.requested = r.requested => q = r
    BY <1>2, <2>2, <2>3
  <2> QED BY <2>1, <2>4, <2>5, <2>6 DEF Ruled
<1> QED BY <1>3, <1>4

\* There is always a shortest quantum.
LEMMA FirstType ==
  ASSUME NEW qs \in SUBSET Slot, qs # {}
  PROVE  First(qs) \in qs
<1> DEFINE lengths == {q.requested : q \in qs}
<1>1. lengths \subseteq Nat /\ lengths # {}
  BY SchedulerAssumption DEF Slot
<1>2. \E x \in lengths : \A y \in lengths : x <= y
  <2> HIDE DEF lengths
  <2> QED BY <1>1, LeastElement
<1>3. \E q \in qs : \A r \in qs : q.requested <= r.requested
  BY <1>2
<1> QED BY <1>3 DEF First

\* Every step keeps the quanta sound.
LEMMA QuantaStep ==
  ASSUME IInv, [Next]_vars
  PROVE  quanta' \subseteq Slot /\ minimum' = minimum /\ QuantaSound'
<1>0. quanta \subseteq Slot /\ QuantaSound /\ minimum \in 1..(Second - 1)
  BY DEF IInv, TypeOK
<1>1. ASSUME UNCHANGED quantaVars
      PROVE  quanta' \subseteq Slot /\ minimum' = minimum /\ QuantaSound'
  BY <1>0, <1>1 DEF quantaVars, QuantaSound
<1>2. CASE Timeslice
  <2>1. quanta' = DropExpired(quanta, basetime) /\ minimum' = minimum
    BY <1>2 DEF Timeslice
  <2>2. quanta' \subseteq quanta
    BY <2>1 DEF DropExpired
  <2>3. ASSUME NEW q \in quanta, q.expire = Never
        PROVE  q \in quanta'
    <3>1. basetime \in 0..(Never - 1) /\ q.requested <= q.requested
      BY <1>0, SchedulerAssumption DEF IInv, TypeOK, Slot
    <3>2. ~Expired(q, basetime)
      BY <2>3, <3>1, NeverAssumption DEF Expired
    <3> QED BY <2>1, <3>1, <3>2 DEF DropExpired
  <2> QED BY <1>0, <2>1, <2>2, <2>3 DEF QuantaSound
<1>3. ASSUME NEW b \in Boosts, BoostInterleave(b[1], b[2])
      PROVE  quanta' \subseteq Slot /\ minimum' = minimum /\ QuantaSound'
  <2>1. /\ quanta' = AddQuantum(quanta, Now, b[1], Plus(Now, b[2]), minimum)
        /\ minimum' = minimum /\ Now < Never
    BY <1>3 DEF BoostInterleave, Call, MayCall
  <2>2. /\ Now \in 0..(Never - 1) /\ b[1] \in 0..(Second - 1) /\ b[2] \in Nat
    BY <2>1, NowType, SchedulerAssumption, NeverAssumption DEF Time
  <2>3. Plus(Now, b[2]) \in Time
    BY <2>2, NeverAssumption, PlusType
  <2>4. Ruled(quanta)
    BY <1>0 DEF Ruled, QuantaSound
  <2>5. quanta' \subseteq Slot /\ Ruled(quanta')
    BY <1>0, <2>1, <2>2, <2>3, <2>4, AddQuantumKeeps
  <2> QED BY <2>1, <2>5 DEF Ruled, QuantaSound
<1>4. ASSUME EmulatedCall PROVE quanta' \subseteq Slot /\ minimum' = minimum /\ QuantaSound'
  <2>1. Call => UNCHANGED minimum
    BY DEF Call
  <2> QED
    BY <1>1, <1>3, <1>4, <2>1
    DEF EmulatedCall, TimerSet, TimerAdjust, TimerEnable, SuspendDevice, ResumeDevice,
        AwaitTrigger, FireTrigger, Eat, quantaVars
<1>5. CASE \E d \in Devices : SkipTurn(d) \/ SpinTurn(d) \/ EnterDevice(d)
  BY <1>1, <1>5 DEF SkipTurn, SpinTurn, EnterDevice
<1>6. CASE \E cycles \in Instructions, early \in BOOLEAN : BeginInstruction(cycles, early)
  BY <1>1, <1>6 DEF BeginInstruction
<1>7. CASE StartDone \/ BeginSlice \/ EndInstruction \/ LeaveDevice \/ EndSlice \/ SlicesDone
           \/ StartCallback \/ SkipDisabled \/ EndCallback \/ TimersDone
  BY <1>1, <1>7 DEF StartDone, BeginSlice, EndInstruction, LeaveDevice, EndSlice, SlicesDone,
                    StartCallback, SkipDisabled, EndCallback, TimersDone
<1>8. CASE \/ SaveState \/ LoadState \/ DetachTimer \/ DetachDone \/ ReattachTimer
           \/ ReattachDone \/ \E t \in Timers : TimerAlloc(t)
  BY <1>1, <1>8 DEF SaveState, LoadState, DetachTimer, DetachDone, ReattachTimer, ReattachDone,
                    TimerAlloc
<1>9. CASE Stop \/ UNCHANGED vars
  BY <1>1, <1>9 DEF Stop, vars
<1> QED BY <1>2, <1>4, <1>5, <1>6, <1>7, <1>8, <1>9 DEF Next, Step
-----------------------------------------------------------------------------
(* Everything else.                                                        *)

\* The conjuncts of TypeOK about the thread's place and its local variables.
SliceType ==
  /\ pending \in BOOLEAN
  /\ basetime \in 0..(Never - 1) /\ executing \in Devices \cup {None}
  /\ target \in 0..(Never - 1) /\ turn \in Nat /\ granted \in Nat /\ owed \in Nat

PhaseType ==
  /\ callback \in [timer : Timers \cup {None}, modified : BOOLEAN, expire : Time]
  /\ phase \in {"start", "idle", "slice", "turn", "run", "instruction", "timers", "callback",
                "detach", "reattach"}
  /\ private \in Seq(Timers)
  /\ saved = None \/ saved \in StateFile
  /\ ops \in 0..MaxOps /\ saves \in 0..MaxSaves

\* The target of a slice stays short of never.
LEMMA TargetType ==
  ASSUME IInv, BeginSlice
  PROVE  target' \in 0..(Never - 1)
<1> DEFINE a == First(quanta).actual
           h == HeadExpire(tm)
<1>1. quanta \in SUBSET Slot /\ quanta # {}
  BY DEF IInv, TypeOK, QuantaSound
<1>2. First(quanta) \in Slot
  BY <1>1, FirstType
<1>3. a \in 0..(Second - 1)
  BY <1>2 DEF Slot
<1>4. phase = "slice" /\ basetime < h /\ basetime < Horizon /\ basetime \in Nat
  BY NeverAssumption DEF BeginSlice, IInv, TypeOK
<1>5. h \in Time
  BY <1>4, ListFacts DEF HeadExpire, WellFormed, TimerState
<1>6. target' = Earlier(Plus(basetime, a), h)
  BY DEF BeginSlice
<1> HIDE DEF a, h
<1>7. Horizon \in Nat /\ Second \in Nat /\ Horizon + Second < Never /\ Never \in Nat
  BY SchedulerAssumption, NeverAssumption
<1>8. basetime + a < Never /\ basetime + a \in Nat
  BY <1>3, <1>4, <1>7
<1>9. Plus(basetime, a) = basetime + a
  BY <1>7, <1>8 DEF Plus
<1> QED BY <1>4, <1>5, <1>6, <1>7, <1>8, <1>9 DEF Earlier, Time

\* Every step keeps the types of the slice's variables.
LEMMA SliceStep ==
  ASSUME IInv, [Next]_vars
  PROVE  SliceType'
<1>0. SliceType /\ Never \in Nat
  BY NeverAssumption DEF IInv, TypeOK, SliceType
<1>1. ASSUME UNCHANGED <<basetime, sliceVars>>, pending' \in BOOLEAN
      PROVE  SliceType'
  BY <1>0, <1>1 DEF SliceType, sliceVars
<1>2. ASSUME EmulatedCall PROVE SliceType'
  <2>1. Call => UNCHANGED <<basetime, sliceVars>>
    BY DEF Call
  <2> QED
    BY <1>0, <1>1, <1>2, <2>1
    DEF EmulatedCall, TimerSet, TimerAdjust, TimerEnable, SuspendDevice, ResumeDevice,
        AwaitTrigger, FireTrigger, Eat, BoostInterleave, SliceType
<1>3. CASE BeginSlice
  <2>1. target' \in 0..(Never - 1)
    BY <1>3, TargetType
  <2>2. pending' \in BOOLEAN
    BY <1>0, <1>3 DEF BeginSlice, ApplyChanges, devVars, SliceType
  <2> QED BY <1>0, <1>3, <2>1, <2>2 DEF BeginSlice, SliceType
<1>4. ASSUME NEW d \in Devices, SpinTurn(d) PROVE SliceType'
  <2>1. target' \in 0..(Never - 1) /\ turn' = turn + 1
    BY <1>4, GrantType, AccountType DEF SpinTurn
  <2> QED BY <1>0, <1>4, <2>1 DEF SpinTurn, SliceType
<1>5. ASSUME NEW d \in Devices, EnterDevice(d) PROVE SliceType'
  <2>1. Grant(d) \in Nat
    BY <1>5, GrantType DEF EnterDevice
  <2> QED BY <1>0, <1>5, <2>1 DEF EnterDevice, SliceType
<1>6. CASE LeaveDevice
  <2>1. executing # None
    BY <1>6 DEF LeaveDevice, IInv, Control
  <2>2. target' \in 0..(Never - 1) /\ turn' = turn + 1
    BY <1>6, <2>1, RanType, AccountType DEF LeaveDevice
  <2> QED BY <1>0, <1>6, <2>2 DEF LeaveDevice, SliceType
<1>7. ASSUME NEW d \in Devices, SkipTurn(d) PROVE SliceType'
  BY <1>0, <1>7 DEF SkipTurn, SliceType, devVars
<1>8. ASSUME NEW cycles \in Instructions, NEW early \in BOOLEAN, BeginInstruction(cycles, early)
      PROVE  SliceType'
  <2>1. owed' \in Nat
    BY <1>8, SchedulerAssumption DEF BeginInstruction
  <2> QED BY <1>0, <1>8, <2>1 DEF BeginInstruction, SliceType
<1>9. CASE EndInstruction \/ EndSlice
  BY <1>0, <1>9 DEF EndInstruction, EndSlice, SliceType, devVars
<1>10. CASE LoadState
  <2>1. saved \in StateFile
    BY <1>10 DEF LoadState, IInv, TypeOK
  <2>2. basetime' \in 0..(Never - 1)
    BY <1>10, <2>1 DEF LoadState, StateFile
  <2> QED BY <1>0, <1>10, <2>2 DEF LoadState, SliceType, sliceVars
<1>11. CASE \/ StartDone \/ Timeslice \/ SlicesDone \/ StartCallback \/ SkipDisabled \/ EndCallback
            \/ TimersDone \/ SaveState \/ \E t \in Timers : TimerAlloc(t)
  BY <1>0, <1>1, <1>11
  DEF StartDone, Timeslice, SlicesDone, StartCallback, SkipDisabled, EndCallback, TimersDone,
      SaveState, TimerAlloc, devVars, SliceType
<1>12. CASE DetachTimer \/ DetachDone \/ ReattachTimer \/ ReattachDone
  BY <1>0, <1>1, <1>12
  DEF DetachTimer, DetachDone, ReattachTimer, ReattachDone, devVars, SliceType
<1>13. CASE Stop \/ UNCHANGED vars
  BY <1>0, <1>1, <1>13 DEF Stop, vars, devVars, SliceType
<1> QED
  BY <1>2, <1>3, <1>4, <1>5, <1>6, <1>7, <1>8, <1>9, <1>10, <1>11, <1>12, <1>13 DEF Next, Step

\* Every step keeps the phase in step with the device that executes, the
\* callback that runs and postload()'s private list.
LEMMA PhaseStep ==
  ASSUME IInv, [Next]_vars
  PROVE  PhaseType' /\ Control'
<1>0. PhaseType /\ Control /\ None \notin Timers /\ None \notin Devices
  BY SchedulerAssumption DEF IInv, TypeOK, PhaseType
<1>1. ASSUME UNCHANGED <<callback, saveVars, ops, executing>>, phase' \in {"idle", "slice", "turn", "timers"},
             phase \in {"start", "idle", "slice", "turn", "timers"}
      PROVE  PhaseType' /\ Control'
  BY <1>0, <1>1 DEF PhaseType, Control, saveVars
<1>2. ASSUME EmulatedCall PROVE PhaseType' /\ Control'
  <2>1. Call => /\ UNCHANGED <<phase, saveVars, executing>> /\ ops' \in 0..MaxOps
    BY <1>0, SchedulerAssumption DEF Call, MayCall, PhaseType, sliceVars
  <2>2. ASSUME Call, callback' = callback PROVE PhaseType' /\ Control'
    BY <1>0, <2>1, <2>2 DEF PhaseType, Control, saveVars
  <2>3. ASSUME NEW t \in Timers, NEW delay \in Delays, NEW period \in Periods,
               TimerAdjust(t, delay, period)
        PROVE  PhaseType' /\ Control'
    <3>1. /\ callback' \in [timer : Timers \cup {None}, modified : BOOLEAN, expire : Time]
          /\ callback'.timer = callback.timer
      BY <1>0, <2>3 DEF TimerAdjust, PhaseType
    <3> QED BY <1>0, <2>1, <2>3, <3>1 DEF TimerAdjust, PhaseType, Control, saveVars
  <2> QED
    BY <1>2, <2>2, <2>3
    DEF EmulatedCall, TimerSet, TimerEnable, SuspendDevice, ResumeDevice, AwaitTrigger,
        FireTrigger, Eat, BoostInterleave
<1>3. CASE StartDone \/ Timeslice \/ EndSlice \/ SlicesDone \/ TimersDone \/ BeginSlice
  BY <1>1, <1>3 DEF StartDone, Timeslice, EndSlice, SlicesDone, TimersDone, BeginSlice, sliceVars
<1>4. CASE \E d \in Devices : SkipTurn(d) \/ SpinTurn(d)
  BY <1>1, <1>4 DEF SkipTurn, SpinTurn, Turn
<1>5. CASE \E d \in Devices : EnterDevice(d)
  BY <1>0, <1>5 DEF EnterDevice, Turn, PhaseType, Control, saveVars
<1>6. CASE \E cycles \in Instructions, early \in BOOLEAN : BeginInstruction(cycles, early)
  BY <1>0, <1>6 DEF BeginInstruction, PhaseType, Control, saveVars
<1>7. CASE EndInstruction \/ LeaveDevice
  BY <1>0, <1>7 DEF EndInstruction, LeaveDevice, PhaseType, Control, saveVars
<1>8. CASE StartCallback
  <2>1. /\ phase = "timers" /\ phase' = "callback" /\ UNCHANGED <<saveVars, ops, executing>>
        /\ callback' = [timer |-> Head(tm.list), modified |-> FALSE, expire |-> HeadExpire(tm)]
    BY <1>8 DEF StartCallback, HeadDue, sliceVars
  <2>2. Head(tm.list) \in Timers /\ HeadExpire(tm) \in Time
    BY <2>1, ListFacts DEF HeadExpire, WellFormed, TimerState
  <2> QED BY <1>0, <2>1, <2>2 DEF PhaseType, Control, saveVars
<1>9. CASE SkipDisabled
  BY <1>0, <1>9 DEF SkipDisabled, PhaseType, Control, saveVars, sliceVars
<1>10. CASE EndCallback
  <2>1. 0 \in Time  BY NeverAssumption DEF Time
  <2> QED BY <1>0, <1>10, <2>1 DEF EndCallback, NoCallback, PhaseType, Control, saveVars, sliceVars
<1>11. CASE SaveState
  <2>1. /\ tm \in TimerState /\ basetime \in 0..(Never - 1)
        /\ dev \in [Devices -> DeviceRecord]
    BY DEF IInv, TypeOK
  <2>2. saved' \in StateFile
    BY <1>11, <2>1 DEF SaveState, StateFile, TimerState
  <2>3. saves' \in 0..MaxSaves
    BY <1>0, <1>11, SchedulerAssumption DEF SaveState, PhaseType
  <2> QED BY <1>0, <1>11, <2>2, <2>3 DEF SaveState, PhaseType, Control, sliceVars
<1>12. CASE LoadState
  <2>1. saves' \in 0..MaxSaves
    BY <1>0, <1>12, SchedulerAssumption DEF LoadState, PhaseType
  <2> QED BY <1>0, <1>12, <2>1 DEF LoadState, PhaseType, Control, sliceVars
<1>13. CASE DetachTimer
  <2> DEFINE l == tm.list
  <2>1. l \in Seq(Timers) /\ l # <<>>
    BY <1>13 DEF DetachTimer, IInv, TypeOK, TimerState
  <2>2. Head(l) \in Timers
    <3> HIDE DEF l
    <3> QED BY <2>1
  <2>3. private' \in Seq(Timers)
    BY <1>0, <1>13, <2>2 DEF DetachTimer, PhaseType
  <2> QED BY <1>0, <1>13, <2>3 DEF DetachTimer, PhaseType, Control, sliceVars
<1>14. CASE ReattachTimer
  <2>1. private' \in Seq(Timers)
    BY <1>0, <1>14 DEF ReattachTimer, PhaseType
  <2> QED BY <1>0, <1>14, <2>1 DEF ReattachTimer, PhaseType, Control, sliceVars
<1>15. CASE DetachDone \/ ReattachDone
  BY <1>0, <1>15 DEF DetachDone, ReattachDone, PhaseType, Control, saveVars, sliceVars
<1>16. CASE (\E t \in Timers : TimerAlloc(t)) \/ Stop \/ UNCHANGED vars
  BY <1>0, <1>16 DEF TimerAlloc, Stop, vars, PhaseType, Control, saveVars, sliceVars
<1> QED
  BY <1>2, <1>3, <1>4, <1>5, <1>6, <1>7, <1>8, <1>9, <1>10, <1>11, <1>12, <1>13, <1>14, <1>15,
     <1>16
  DEF Next, Step

-----------------------------------------------------------------------------
(* The theorems.                                                           *)

\* The perfect interleave is a positive part of a second.
LEMMA InterleaveType == PerfectInterleave(CycleTime, Second) \in 1..(Second - 1)
<1> DEFINE f == CHOOSE d \in DOMAIN CycleTime :
                  \A e \in DOMAIN CycleTime : CycleTime[d] <= CycleTime[e]
           others == {CycleTime[e] : e \in DOMAIN CycleTime \ {f}} \cup {Second - 1}
<1>1. others \subseteq 1..(Second - 1) /\ others # {}
  BY SchedulerAssumption
<1>2. PerfectInterleave(CycleTime, Second) = CHOOSE q \in others : \A r \in others : q <= r
  BY DEF PerfectInterleave
<1> HIDE DEF others
<1>3. others \subseteq Nat
  BY <1>1, SchedulerAssumption
<1>4. \E q \in others : \A r \in others : q <= r
  BY <1>1, <1>3, LeastElement
<1> QED BY <1>1, <1>2, <1>4

\* The invariant holds when the devices are being started.
LEMMA InitInv == Init => IInv
<1> SUFFICES ASSUME Init PROVE IInv
  OBVIOUS
<1>1. Never \in Nat \ {0} /\ Second \in Nat /\ MinimumQuantum \in 1..(Second - 1)
      /\ Sentinel \in Timers /\ None \notin Timers
  BY NeverAssumption, SchedulerAssumption, TimerAssumption
<1>2. minimum \in 1..(Second - 1)
  BY InterleaveType DEF Init
<1>3. quanta \subseteq Slot /\ QuantaSound
  <2> DEFINE actual == IF MinimumQuantum >= minimum THEN MinimumQuantum ELSE minimum
             slot == [requested |-> MinimumQuantum, actual |-> actual, expire |-> Never]
  <2>1. quanta = {slot}
    BY DEF Init, CoreQuantum, AddQuantum
  <2>2. slot \in Slot /\ slot.requested = MinimumQuantum /\ slot.expire = Never
    BY <1>1, <1>2 DEF Slot, Time
  <2> HIDE DEF slot
  <2> QED BY <2>1, <2>2 DEF QuantaSound
<1>4. /\ tm.list = <<Sentinel>> /\ tm.expire = [t \in Timers |-> Never]
      /\ tm.enabled = [t \in Timers |-> t = Sentinel] /\ tm.period = [t \in Timers |-> Never]
      /\ tm \in TimerState
  BY <1>1 DEF Init, TimerState, Time
<1>5. Distinct(tm) /\ Ordered(tm) /\ Queued(tm) = {Sentinel}
  BY <1>4 DEF Distinct, Ordered, Queued
<1>6. TimersInv
  <2>1. Held = {} /\ Len(private) = 0 /\ phase = "start" /\ callback.timer = None
    BY DEF Held, Init, NoCallback
  <2> QED BY <1>1, <1>4, <1>5, <2>1 DEF TimersInv, TimersOrdered, NoTimerLost
<1>7. StartedDevice \in DeviceRecord
  BY <1>1 DEF StartedDevice, DeviceRecord, Reasons, Time
<1>8. dev \in [Devices -> DeviceRecord] /\ DevicesInv
  BY <1>7 DEF Init, DevicesInv
<1>9. SliceType
  BY <1>1 DEF SliceType, Init
<1>10. PhaseType /\ Control
  BY <1>1, SchedulerAssumption DEF PhaseType, Control, Init, NoCallback, Time
<1> QED
  BY <1>2, <1>3, <1>4, <1>6, <1>8, <1>9, <1>10 DEF IInv, TypeOK, SliceType, PhaseType

\* The invariant is inductive.
LEMMA StepInv == IInv /\ [Next]_vars => IInv'
<1> SUFFICES ASSUME IInv, [Next]_vars PROVE IInv'
  OBVIOUS
<1>1. minimum \in 1..(Second - 1)
  BY DEF IInv, TypeOK
<1> QED
  BY <1>1, TimersStep, DevicesStep, QuantaStep, SliceStep, PhaseStep
  DEF IInv, TypeOK, SliceType, PhaseType

\* The scheduler never leaves the invariant.
THEOREM Invariance == Spec => []IInv
BY InitInv, StepInv, PTL DEF Spec

\* Type correctness: no slice target, expiry or local time leaves its range,
\* and the executing device, the callback's timer and the state file exist.
THEOREM TypeCorrect == Spec => []TypeOK
<1>1. IInv => TypeOK  BY DEF IInv
<1> QED BY <1>1, Invariance, PTL

\* The timer list is ordered, whatever the callbacks and the emulated code do
\* to the timers, and no timer is linked twice.
THEOREM AlwaysOrdered == Spec => []TimersOrdered
<1>1. IInv => TimersOrdered  BY DEF IInv, TimersInv
<1> QED BY <1>1, Invariance, PTL

\* No permanent timer is lost, not even while a loaded state is put in place.
THEOREM NeverLost == Spec => []NoTimerLost
<1>1. IInv => NoTimerLost  BY DEF IInv, TimersInv
<1> QED BY <1>1, Invariance, PTL

\* Aborting and eating conserve the cycles of the executing device's turn.
THEOREM AlwaysConserved == Spec => []CyclesConserved
<1>1. IInv => CyclesConserved  BY DEF IInv, DevicesInv, CyclesConserved
<1> QED BY <1>1, Invariance, PTL

\* The machine's quantum is always there and no length has two slots.
THEOREM AlwaysRuled == Spec => []QuantaSound
<1>1. IInv => QuantaSound  BY DEF IInv
<1> QED BY <1>1, Invariance, PTL

\* One step of EarliestFirst.
LEMMA EarliestStep ==
  ASSUME IInv, [Next]_vars, phase # "callback", phase' = "callback", NEW t \in Queued(tm),
         tm.enabled[t]
  PROVE  callback'.expire <= tm.expire[t]
<1>1. StartCallback
  <2>1. EmulatedCall => phase' = phase
    BY DEF EmulatedCall, TimerSet, TimerAdjust, TimerEnable, SuspendDevice, ResumeDevice,
           AwaitTrigger, FireTrigger, Eat, BoostInterleave, Call
  <2>2. ~UNCHANGED phase
    OBVIOUS
  <2> QED
    BY <2>1, <2>2
    DEF Next, Step, vars, Stop, TimerAlloc, StartDone, Timeslice, BeginSlice, SkipTurn, SpinTurn,
        EnterDevice, BeginInstruction, EndInstruction, LeaveDevice, EndSlice, SlicesDone,
        SkipDisabled, EndCallback, TimersDone, SaveState, LoadState, DetachTimer, DetachDone,
        ReattachTimer, ReattachDone
<1>2. phase = "timers" /\ callback'.expire = tm.expire[Head(tm.list)]
  BY <1>1 DEF StartCallback, HeadDue, HeadExpire
<1>3. WellFormed(tm)
  BY <1>2, ListFacts
<1> QED BY <1>2, <1>3, HeadIsNext

\* Callbacks come in the order of their expiry.
THEOREM AlwaysEarliestFirst == Spec => EarliestFirst
<1>1. IInv /\ [Next]_vars =>
        [phase # "callback" /\ phase' = "callback" =>
           \A t \in Queued(tm) : tm.enabled[t] => callback'.expire <= tm.expire[t]]_vars
  BY EarliestStep
<1> QED BY <1>1, Invariance, PTL DEF Spec, EarliestFirst

\* One step of ChargedTime.
LEMMA ChargedStep ==
  ASSUME IInv, [Next]_vars, executing # None, executing' = None,
         Now < Never, dev'[executing].localtime < Never
  PROVE  dev'[executing].localtime - Now =
           (dev[executing].running - dev[executing].icount)
             * (CycleTime[executing] - ClockedTime[executing])
<1>1. LeaveDevice
  <2>1. EmulatedCall => executing' = executing
    BY DEF EmulatedCall, TimerSet, TimerAdjust, TimerEnable, SuspendDevice, ResumeDevice,
           AwaitTrigger, FireTrigger, Eat, BoostInterleave, Call, sliceVars
  <2>2. ASSUME NEW d \in Devices PROVE ~EnterDevice(d)
    BY SchedulerAssumption DEF EnterDevice
  <2>3. ~UNCHANGED executing
    OBVIOUS
  <2> QED
    BY <2>1, <2>2, <2>3
    DEF Next, Step, vars, Stop, TimerAlloc, StartDone, Timeslice, BeginSlice, SkipTurn, SpinTurn,
        BeginInstruction, EndInstruction, EndSlice, SlicesDone, StartCallback, SkipDisabled,
        EndCallback, TimersDone, SaveState, LoadState, DetachTimer, DetachDone, ReattachTimer,
        ReattachDone, sliceVars
<1> DEFINE d == dev[executing]
           ran == granted - d.icount - d.stolen
<1>2. executing \in Devices /\ ran = d.running - d.icount
  BY RanType
<1>3. callback.timer = None
  BY <1>1 DEF LeaveDevice, IInv, Control
<1>4. Now = Plus(d.localtime, ran * ClockedTime[executing])
  BY <1>2, <1>3 DEF Now, LocalTime
<1>5. dev'[executing].localtime = Plus(d.localtime, ran * CycleTime[executing])
  <2>1. dev' = [dev EXCEPT ![executing] =
                 [@ EXCEPT !.localtime = Plus(d.localtime, ran * CycleTime[executing]),
                           !.running = 0, !.icount = 0, !.stolen = 0]]
    BY <1>1 DEF LeaveDevice, Account
  <2>2. d \in DeviceRecord /\ dev \in [Devices -> DeviceRecord]
    BY <1>2 DEF IInv, TypeOK
  <2> DEFINE local == Plus(d.localtime, ran * CycleTime[executing])
             e == [d EXCEPT !.localtime = local, !.running = 0, !.icount = 0, !.stolen = 0]
  <2>3. dev'[executing] = e
    BY <1>2, <2>1, <2>2
  <2> HIDE DEF local, d
  <2>4. e.localtime = local
    BY <2>2 DEF DeviceRecord
  <2> QED BY <2>3, <2>4 DEF local
<1>6. /\ d.localtime \in Nat /\ ran \in Nat
      /\ CycleTime[executing] \in Nat /\ ClockedTime[executing] \in Nat
  <2>1. ran \in Nat
    BY <1>2, RanType
  <2>2. d.localtime \in Nat
    BY <1>2, NeverAssumption DEF IInv, TypeOK, DeviceRecord, Time
  <2>3. CycleTime[executing] \in Nat /\ ClockedTime[executing] \in Nat
    BY <1>2, SchedulerAssumption
  <2> QED BY <2>1, <2>2, <2>3
<1> DEFINE c == CycleTime[executing]  s == ClockedTime[executing]  now == Now
           charged == dev'[executing].localtime  l == d.localtime
<1>7. charged - now = ran * (c - s)
  <2>1. /\ now = Plus(l, ran * s) /\ charged = Plus(l, ran * c)
        /\ now < Never /\ charged < Never
    BY <1>4, <1>5
  <2>2. l \in Nat /\ ran \in Nat /\ c \in Nat /\ s \in Nat
    BY <1>6
  <2> HIDE DEF l, ran, c, s, now, charged
  <2> DEFINE p == ran * c  q == ran * s
  <2>3. p \in Nat /\ q \in Nat /\ p - q = ran * (c - s)
    BY <2>2
  <2>4. now = Plus(l, q) /\ charged = Plus(l, p)
    BY <2>1
  <2> HIDE DEF p, q
  <2>5. now = l + q /\ charged = l + p
    BY <2>1, <2>2, <2>3, <2>4, NeverAssumption DEF Plus
  <2> QED BY <2>2, <2>3, <2>5
<1>8. ran = dev[executing].running - dev[executing].icount
  BY <1>2
<1> HIDE DEF ran
<1> QED BY <1>7, <1>8

\* A device is charged for the cycles time() has counted in its turn, each once,
\* whatever the conversions of its core make of a cycle.
THEOREM AlwaysCharged == Spec => ChargedTime
<1>1. IInv /\ [Next]_vars =>
        [executing # None /\ executing' = None =>
           LET d   == dev[executing]
               ran == d.running - d.icount
           IN  Now < Never /\ dev'[executing].localtime < Never =>
                 dev'[executing].localtime - Now =
                   ran * (CycleTime[executing] - ClockedTime[executing])]_vars
  BY ChargedStep
<1> QED BY <1>1, Invariance, PTL DEF Spec, ChargedTime

=============================================================================
