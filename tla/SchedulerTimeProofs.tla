-------------------------- MODULE SchedulerTimeProofs --------------------------
(***************************************************************************)
(* Time in device_scheduler, for every number of timers and devices, every *)
(* cycle time and every bound: it does not run backwards, the devices stay *)
(* in step with it, and timers are on time.                                *)
(***************************************************************************)
EXTENDS SchedulerProofs

-----------------------------------------------------------------------------
(* The device list.                                                        *)

\* Each of rebuild_execute_list()'s lists has the devices it is for.
LEMMA DeviceListHas ==
  ASSUME NEW dv, NEW b \in BOOLEAN
  PROVE  /\ DeviceList(dv, b) \in Seq(Devices)
         /\ \A k \in 1..Len(DeviceOrder) : (dv[DeviceOrder[k]].suspend # {}) = b =>
              \E i \in 1..Len(DeviceList(dv, b)) : DeviceList(dv, b)[i] = DeviceOrder[k]
<1> DEFINE N == Len(DeviceOrder)
           In(k) == (dv[DeviceOrder[k]].suspend # {}) = b
           Is(f, m) == f = [n \in 0..m |-> Linked(f, n, dv, b)]
           Good(l, n) == /\ l \in Seq(Devices)
                         /\ \A k \in 1..n : In(k) => \E i \in 1..Len(l) : l[i] = DeviceOrder[k]
<1>1. N \in Nat /\ \A n \in 1..N : DeviceOrder[n] \in Devices
  BY SchedulerAssumption, ElementOfSeq
<1>2. DeviceList(dv, b) = (CHOOSE f : Is(f, N))[N]
  BY DEF DeviceList
<1>3. ASSUME NEW n \in 0..N, NEW f, n # 0 => Good(f[n - 1], n - 1)
      PROVE  Good(Linked(f, n, dv, b), n)
  <2>1. CASE n = 0
    BY <2>1 DEF Linked
  <2>2. CASE n # 0
    <3> DEFINE l == f[n - 1]  d == DeviceOrder[n]
    <3>1. Good(l, n - 1) /\ d \in Devices
      <4>. HIDE DEF Good
      <4>1. n \in 1..N
        BY <1>1, <2>2
      <4>2. d \in Devices
        BY <1>1, <4>1
      <4>. QED  BY <1>3, <2>2, <4>2
    <3>2. Linked(f, n, dv, b) = IF In(n) THEN Append(l, d) ELSE l
      BY <2>2 DEF Linked
    <3> HIDE DEF l, In
    <3>3. Append(l, d) \in Seq(Devices) /\ Len(Append(l, d)) = Len(l) + 1 /\ Append(l, d)[Len(l) + 1] = d
          /\ \A i \in 1..Len(l) : Append(l, d)[i] = l[i]
      BY <3>1
    <3>4. Len(l) \in Nat
      BY <3>1
    <3>5. CASE In(n)
      <4> DEFINE m == Append(l, d)
      <4>0. m \in Seq(Devices) /\ Len(m) = Len(l) + 1 /\ m[Len(l) + 1] = d
          /\ \A i \in 1..Len(l) : m[i] = l[i]
        BY <3>3
      <4> HIDE DEF m, d
      <4>1. ASSUME NEW k \in 1..n, In(k) PROVE \E i \in 1..Len(m) : m[i] = DeviceOrder[k]
        <5>1. CASE k = n
          BY <3>4, <4>0, <5>1 DEF d
        <5>2. CASE k # n
          <6>1. PICK i \in 1..Len(l) : l[i] = DeviceOrder[k]
            BY <3>1, <4>1, <5>2
          <6>. QED  BY <3>4, <4>0, <6>1
        <5>. QED  BY <5>1, <5>2
      <4>. QED  BY <3>2, <3>5, <4>0, <4>1 DEF m
    <3>6. CASE ~In(n)
      <4>1. ASSUME NEW k \in 1..n, In(k) PROVE k \in 1..(n - 1)
        BY <3>6, <4>1
      <4>. QED  BY <3>1, <3>2, <3>6, <4>1
    <3>. QED  BY <3>5, <3>6
  <2>. QED  BY <2>1, <2>2
<1>. HIDE DEF Good
<1>4. \A m \in Nat : \E f : Is(f, m)
  <2> DEFINE T == {m \in Nat : ~\E f : Is(f, m)}
  <2>1. SUFFICES ASSUME T # {} PROVE FALSE
    OBVIOUS
  <2>2. PICK m \in T : \A y \in T : m <= y
    <3>1. T \subseteq Nat
      OBVIOUS
    <3>. HIDE DEF T
    <3>. QED  BY <2>1, <3>1, LeastElement
  <2>3. m \in Nat /\ ~\E f : Is(f, m)
    BY <2>2
  <2>4. CASE m = 0
    <3> DEFINE f == [n \in 0..0 |-> <<>>]
    <3>1. \A n \in 0..0 : Linked(f, n, dv, b) = <<>>
      BY DEF Linked
    <3>2. Is(f, 0)
      BY <3>1
    <3>. QED  BY <2>3, <2>4, <3>2
  <2>5. CASE m # 0
    <3>1. m - 1 \in Nat /\ m - 1 \notin T
      BY <2>2, <2>3, <2>5
    <3>2. PICK f : Is(f, m - 1)
      BY <3>1
    <3> DEFINE g == [n \in 0..m |-> IF n = m THEN Linked(f, m, dv, b) ELSE f[n]]
    <3>3. \A n \in 0..m : Linked(g, n, dv, b) = Linked(f, n, dv, b)
      BY <2>3 DEF Linked
    <3>4. \A n \in 0..(m - 1) : f[n] = Linked(f, n, dv, b)
      BY <3>2
    <3>5. \A n \in 0..m : g[n] = Linked(g, n, dv, b)
      BY <2>3, <3>3, <3>4
    <3>6. Is(g, m)
      BY <3>5
    <3>. QED  BY <2>3, <3>6
  <2>. QED  BY <2>4, <2>5
<1> DEFINE f == CHOOSE f : Is(f, N)
<1>5. Is(f, N)
  BY <1>1, <1>4
<1>6. \A n \in 0..N : f[n] = Linked(f, n, dv, b)
  BY <1>5
<1>. HIDE DEF f
<1>7. \A n \in 0..N : Good(f[n], n)
  <2> DEFINE T == {n \in 0..N : ~Good(f[n], n)}
  <2>1. SUFFICES ASSUME T # {} PROVE FALSE
    OBVIOUS
  <2>2. PICK n \in T : \A y \in T : n <= y
    <3>1. T \subseteq Nat
      BY <1>1
    <3>. HIDE DEF T
    <3>. QED  BY <2>1, <3>1, LeastElement
  <2>3. n # 0 => Good(f[n - 1], n - 1)
    <3>1. ASSUME n # 0, ~Good(f[n - 1], n - 1) PROVE FALSE
      <4>1. n - 1 \in T
        BY <1>1, <2>2, <3>1
      <4>. QED  BY <1>1, <2>2, <4>1
    <3>. QED  BY <3>1
  <2>4. Good(Linked(f, n, dv, b), n)
    BY <1>3, <2>2, <2>3
  <2>. QED  BY <1>6, <2>2, <2>4
<1>8. Good(f[N], N)
  BY <1>1, <1>7
<1>. QED  BY <1>2, <1>8 DEF Good, f

\* rebuild_execute_list() leaves out no device.
LEMMA RebuildHas ==
  ASSUME NEW dv
  PROVE  /\ Rebuild(dv) \in Seq(Devices)
         /\ \A d \in Devices : \E i \in 1..Len(Rebuild(dv)) : Rebuild(dv)[i] = d
<1> DEFINE a == DeviceList(dv, FALSE)
           b == DeviceList(dv, TRUE)
           In(k, s) == (dv[DeviceOrder[k]].suspend # {}) = s
<1>1. /\ a \in Seq(Devices)
      /\ \A k \in 1..Len(DeviceOrder) : In(k, FALSE) => \E i \in 1..Len(a) : a[i] = DeviceOrder[k]
  BY DeviceListHas
<1>2. /\ b \in Seq(Devices)
      /\ \A k \in 1..Len(DeviceOrder) : In(k, TRUE) => \E i \in 1..Len(b) : b[i] = DeviceOrder[k]
  BY DeviceListHas
<1>3. Rebuild(dv) = a \o b
  BY DEF Rebuild
<1>4. \A k : In(k, FALSE) \/ In(k, TRUE)
  OBVIOUS
<1>. HIDE DEF a, b, In
<1>5. /\ a \o b \in Seq(Devices) /\ Len(a \o b) = Len(a) + Len(b)
      /\ \A i \in 1..Len(a) : (a \o b)[i] = a[i]
      /\ \A i \in 1..Len(b) : (a \o b)[Len(a) + i] = b[i]
      /\ Len(a) \in Nat /\ Len(b) \in Nat
  BY <1>1, <1>2
<1> DEFINE l == a \o b
<1>. HIDE DEF l
<1>6. ASSUME NEW d \in Devices PROVE \E i \in 1..Len(l) : l[i] = d
  <2>1. PICK k \in 1..Len(DeviceOrder) : DeviceOrder[k] = d
    BY DEF Devices
  <2>2. CASE In(k, FALSE)
    <3>1. PICK i \in 1..Len(a) : a[i] = d
      BY <1>1, <2>1, <2>2
    <3>. QED  BY <1>5, <3>1 DEF l
  <2>3. CASE In(k, TRUE)
    <3>1. PICK i \in 1..Len(b) : b[i] = d
      BY <1>2, <2>1, <2>3
    <3>2. Len(a) + i \in 1..Len(l) /\ l[Len(a) + i] = d
      BY <1>5, <3>1 DEF l
    <3>. QED  BY <3>2
  <2>. QED  BY <1>4, <2>2, <2>3
<1>. QED  BY <1>3, <1>5, <1>6 DEF l

-----------------------------------------------------------------------------
(* The steps.                                                              *)

Turning == phase \in {"turn", "run", "instruction"}
Loading == phase \in {"detach", "reattach"}

\* A step that leaves the devices, the slice and the saved state alone.
Still ==
  /\ UNCHANGED <<devVars, basetime, target, turn, granted, owed, executing, saved>>
  /\ Turning' = Turning /\ Loading' = Loading

\* The steps that do not.
Moves ==
  \/ EmulatedCall \/ BeginSlice \/ EndInstruction \/ LeaveDevice \/ EndSlice
  \/ \E d \in Devices : SkipTurn(d) \/ SpinTurn(d) \/ EnterDevice(d)
  \/ \E cycles \in Instructions, early \in BOOLEAN : BeginInstruction(cycles, early)
  \/ SaveState \/ LoadState \/ ReattachDone

LEMMA StillOrMoves == ASSUME IInv, [Next]_vars PROVE Still \/ Moves
<1>1. CASE Stop \/ UNCHANGED vars
  BY <1>1 DEF Stop, vars, sliceVars, saveVars, Still, Turning, Loading
<1>2. CASE \E t \in Timers : TimerAlloc(t)
  BY <1>2 DEF TimerAlloc, sliceVars, saveVars, Still, Turning, Loading
<1>3. CASE StartDone \/ Timeslice \/ SlicesDone \/ StartCallback \/ SkipDisabled \/ EndCallback
           \/ TimersDone
  BY <1>3 DEF StartDone, Timeslice, SlicesDone, StartCallback, SkipDisabled, EndCallback, TimersDone,
              HeadDue, sliceVars, saveVars, Still, Turning, Loading
<1>4. CASE DetachTimer \/ DetachDone \/ ReattachTimer
  BY <1>4 DEF DetachTimer, DetachDone, ReattachTimer, sliceVars, saveVars, Still, Turning, Loading
<1>. QED  BY <1>1, <1>2, <1>3, <1>4 DEF Next, Step, Moves
-----------------------------------------------------------------------------
(* What a call does to a device.                                           *)

\* Every suspension that is asked for eats its cycles.
AllEat == \A arg \in SuspendArgs : arg[2]

\* The cycles a call leaves the executing device: those it has run stay, and it
\* goes on as it did or not at all; unless it eats some.
Spent(d, e) ==
  \/ /\ e.running - e.icount = d.running - d.icount
     /\ e.icount = 0 \/ (e.icount = d.icount /\ e.running = d.running)
  \/ \E cycles \in EatArgs :
       e.running = d.running /\ e.icount = IF cycles > d.icount THEN 0 ELSE d.icount - cycles

\* A call on device d that leaves e changes neither its time nor the suspensions
\* in force; those asked for eat cycles if all do, and only itself yields.
Touched(d, e, active) ==
  /\ e.localtime = d.localtime /\ e.suspend = d.suspend /\ e.eat = d.eat
  /\ AllEat /\ (d.nextsuspend # {} => d.nexteat) => (e.nextsuspend # {} => e.nexteat)
  /\ ~ForeignYield /\ ~active /\ "timeslice" \in e.nextsuspend => "timeslice" \in d.nextsuspend
  /\ active => Spent(d, e)

LEMMA SameTouched == ASSUME NEW d, NEW active \in BOOLEAN PROVE Touched(d, d, active)
BY DEF Touched, Spent

\* device_execute_interface::abort_timeslice.
LEMMA AbortTouches ==
  ASSUME NEW d \in DeviceRecord, NEW active \in BOOLEAN
  PROVE  /\ Touched(d, AbortTimeslice(d, active), active)
         /\ AbortTimeslice(d, active).nextsuspend = d.nextsuspend
<1> DEFINE e == AbortTimeslice(d, active)
<1>1. CASE active
  <2>1. /\ e.localtime = d.localtime /\ e.suspend = d.suspend /\ e.eat = d.eat
        /\ e.nextsuspend = d.nextsuspend /\ e.nexteat = d.nexteat
        /\ e.running = d.running - d.icount /\ e.icount = 0
    BY <1>1 DEF AbortTimeslice, DeviceRecord
  <2>2. e.running - e.icount = d.running - d.icount
    BY <2>1 DEF DeviceRecord
  <2>. HIDE DEF e
  <2>. QED  BY <1>1, <2>1, <2>2 DEF Touched, Spent, e
<1>2. CASE ~active
  BY <1>2, SameTouched DEF AbortTimeslice
<1>. QED  BY <1>1, <1>2

\* What is done to the suspensions asked for, and then an abort.
LEMMA AbortOf ==
  ASSUME NEW d \in DeviceRecord, NEW active \in BOOLEAN, NEW e \in DeviceRecord,
         e.localtime = d.localtime, e.suspend = d.suspend, e.eat = d.eat,
         e.running = d.running, e.icount = d.icount,
         AllEat /\ (d.nextsuspend # {} => d.nexteat) => (e.nextsuspend # {} => e.nexteat),
         ~ForeignYield /\ ~active /\ "timeslice" \in e.nextsuspend => "timeslice" \in d.nextsuspend
  PROVE  Touched(d, AbortTimeslice(e, active), active)
<1> DEFINE a == AbortTimeslice(e, active)
<1>1. CASE active
  <2>1. /\ a.localtime = d.localtime /\ a.suspend = d.suspend /\ a.eat = d.eat
        /\ a.nextsuspend = e.nextsuspend /\ a.nexteat = e.nexteat
        /\ a.running = d.running - d.icount /\ a.icount = 0
    BY <1>1 DEF AbortTimeslice, DeviceRecord
  <2>2. a.running - a.icount = d.running - d.icount
    BY <2>1 DEF DeviceRecord
  <2>. HIDE DEF a
  <2>. QED  BY <1>1, <2>1, <2>2 DEF Touched, Spent, a
<1>2. CASE ~active
  BY <1>2 DEF AbortTimeslice, Touched
<1>. QED  BY <1>1, <1>2

\* device_execute_interface::suspend.
LEMMA SuspendTouches ==
  ASSUME NEW d \in DeviceRecord, NEW active \in BOOLEAN, NEW reason \in Reasons,
         NEW eatcycles \in BOOLEAN, AllEat => eatcycles,
         reason = "timeslice" => active \/ ForeignYield
  PROVE  Touched(d, Suspend(d, active, reason, eatcycles), active)
<1> DEFINE e == [d EXCEPT !.nextsuspend = @ \cup {reason}, !.nexteat = eatcycles]
<1>1. /\ e \in DeviceRecord /\ e.localtime = d.localtime /\ e.suspend = d.suspend /\ e.eat = d.eat
      /\ e.running = d.running /\ e.icount = d.icount
      /\ e.nextsuspend = d.nextsuspend \cup {reason} /\ e.nexteat = eatcycles
  BY DEF DeviceRecord
<1>2. Suspend(d, active, reason, eatcycles) = AbortTimeslice(e, active)
  BY DEF Suspend
<1>. HIDE DEF e
<1>3. ~ForeignYield /\ ~active /\ "timeslice" \in e.nextsuspend => "timeslice" \in d.nextsuspend
  BY <1>1
<1>4. AllEat => e.nexteat
  BY <1>1
<1>. QED  BY <1>1, <1>2, <1>3, <1>4, AbortOf

\* device_execute_interface::resume.
LEMMA ResumeTouches ==
  ASSUME NEW d \in DeviceRecord, NEW active \in BOOLEAN, NEW reasons
  PROVE  Touched(d, Resume(d, active, reasons), active)
<1> DEFINE e == [d EXCEPT !.nextsuspend = @ \ reasons]
<1>1. /\ e \in DeviceRecord /\ e.localtime = d.localtime /\ e.suspend = d.suspend /\ e.eat = d.eat
      /\ e.running = d.running /\ e.icount = d.icount
      /\ e.nextsuspend = d.nextsuspend \ reasons /\ e.nexteat = d.nexteat
  BY DEF DeviceRecord
<1>2. Resume(d, active, reasons) = AbortTimeslice(e, active)
  BY DEF Resume
<1>. HIDE DEF e
<1>3. /\ e.nextsuspend # {} => d.nextsuspend # {}
      /\ "timeslice" \in e.nextsuspend => "timeslice" \in d.nextsuspend
  BY <1>1
<1>. QED  BY <1>1, <1>2, <1>3, AbortOf

\* device_execute_interface::suspend_until_trigger.
LEMMA SuspendUntilTriggerTouches ==
  ASSUME NEW d \in DeviceRecord, NEW active \in BOOLEAN, active => d.icount <= d.running,
         NEW trigid \in TriggerIds, NEW eatcycles \in BOOLEAN, AllEat => eatcycles
  PROVE  Touched(d, SuspendUntilTrigger(d, active, trigid, eatcycles), active)
<1> DEFINE e == Suspend(d, active, "trigger", eatcycles)
           f == [e EXCEPT !.trigger = trigid]
<1>1. Touched(d, e, active) /\ e \in DeviceRecord
  BY SuspendTouches, SuspendKeeps DEF Reasons, Kept
<1>2. SuspendUntilTrigger(d, active, trigid, eatcycles) = f
  BY DEF SuspendUntilTrigger
<1>. HIDE DEF e
<1>3. /\ f.localtime = e.localtime /\ f.suspend = e.suspend /\ f.eat = e.eat
      /\ f.running = e.running /\ f.icount = e.icount
      /\ f.nextsuspend = e.nextsuspend /\ f.nexteat = e.nexteat
  BY <1>1 DEF DeviceRecord
<1>. HIDE DEF f
<1>. QED  BY <1>1, <1>2, <1>3 DEF Touched, Spent

\* device_execute_interface::trigger: a device that does not wait for the trigger
\* keeps the suspensions asked for.
LEMMA TriggerTouches ==
  ASSUME NEW d \in DeviceRecord, NEW active \in BOOLEAN, active => d.icount <= d.running,
         NEW trigid \in TriggerIds
  PROVE  /\ Touched(d, Trigger(d, active, trigid), active)
         /\ ~Awaits(d, trigid) => Trigger(d, active, trigid).nextsuspend = d.nextsuspend
<1> DEFINE a == AbortTimeslice(d, active)
           e == Resume(a, active, {"trigger"})
           f == [e EXCEPT !.trigger = 0]
<1>1. Touched(d, a, active) /\ a \in DeviceRecord /\ a.nextsuspend = d.nextsuspend
  BY AbortTouches, AbortKeeps DEF Kept
<1>2. Trigger(d, active, trigid) = IF Awaits(d, trigid) THEN f ELSE a
  BY DEF Trigger
<1>3. active => a.icount <= a.running
  BY AbortKeeps DEF Kept
<1>4. active => a.icount = 0 /\ a.running - a.icount = d.running - d.icount
  <2>1. CASE active
    <3>1. a.running = d.running - d.icount /\ a.icount = 0
      BY <2>1 DEF AbortTimeslice, DeviceRecord
    <3>. QED  BY <3>1 DEF DeviceRecord
  <2>. QED  BY <2>1
<1>. HIDE DEF a
<1>5. e \in DeviceRecord /\ Touched(a, e, active)
  BY <1>1, <1>3, ResumeKeeps, ResumeTouches DEF Kept
<1>6. active => e.icount = 0 /\ e.running - e.icount = a.running - a.icount
  <2>1. CASE active
    <3> DEFINE b == [a EXCEPT !.nextsuspend = @ \ {"trigger"}]
    <3>1. b.running = a.running /\ b.icount = a.icount /\ b \in DeviceRecord
      BY <1>1 DEF DeviceRecord
    <3>2. e = AbortTimeslice(b, TRUE)
      BY <2>1 DEF Resume
    <3>. HIDE DEF b, e
    <3>3. e.running = b.running - b.icount /\ e.icount = 0
      BY <3>1, <3>2 DEF AbortTimeslice, DeviceRecord
    <3>. QED  BY <1>1, <3>1, <3>3 DEF DeviceRecord
  <2>. QED  BY <2>1
<1>. HIDE DEF e
<1>7. /\ f.localtime = e.localtime /\ f.suspend = e.suspend /\ f.eat = e.eat
      /\ f.running = e.running /\ f.icount = e.icount
      /\ f.nextsuspend = e.nextsuspend /\ f.nexteat = e.nexteat
  BY <1>5 DEF DeviceRecord
<1>. HIDE DEF f
<1>8. active => Spent(d, f)
  BY <1>4, <1>6, <1>7 DEF Spent
<1>9. Touched(d, f, active)
  BY <1>1, <1>5, <1>7, <1>8 DEF Touched
<1>. QED  BY <1>1, <1>2, <1>9

\* device_execute_interface::eat_cycles.
LEMMA EatTouches ==
  ASSUME NEW d \in DeviceRecord, NEW cycles \in EatArgs
  PROVE  /\ Touched(d, EatCycles(d, TRUE, cycles), TRUE)
         /\ EatCycles(d, TRUE, cycles).nextsuspend = d.nextsuspend
<1> DEFINE e == EatCycles(d, TRUE, cycles)
<1>1. /\ e.localtime = d.localtime /\ e.suspend = d.suspend /\ e.eat = d.eat
      /\ e.nextsuspend = d.nextsuspend /\ e.nexteat = d.nexteat
      /\ e.running = d.running /\ e.icount = IF cycles > d.icount THEN 0 ELSE d.icount - cycles
  BY DEF EatCycles, DeviceRecord
<1>. HIDE DEF e
<1>. QED  BY <1>1 DEF Touched, Spent, e
\* What every call leaves alone, and what it does to the devices.
Calls ==
  /\ UNCHANGED <<execList, basetime, phase, minimum, target, turn, granted, owed, executing, saved>>
  /\ phase \in {"start", "idle", "instruction", "callback"}
  /\ dev' \in [Devices -> DeviceRecord]
  /\ \A d \in Devices : Touched(dev[d], dev'[d], d = executing)
  /\ \/ pending'
     \/ pending' = pending /\ \A d \in Devices : dev'[d].nextsuspend = dev[d].nextsuspend

\* A call on one device.
LEMMA CallOnOne ==
  ASSUME IInv, Call, NEW d \in Devices, NEW e, dev' = [dev EXCEPT ![d] = e],
         Touched(dev[d], e, d = executing), dev' \in [Devices -> DeviceRecord],
         pending' \/ (pending' = pending /\ e.nextsuspend = dev[d].nextsuspend)
  PROVE  Calls
<1>1. dev \in [Devices -> DeviceRecord]
  BY DEF IInv, TypeOK
<1>2. \A x \in Devices : dev'[x] = IF x = d THEN e ELSE dev[x]
  BY <1>1
<1>3. \A x \in Devices : Touched(dev[x], dev'[x], x = executing)
  BY <1>2, SameTouched
<1>. QED  BY <1>2, <1>3 DEF Calls, Call, MayCall, sliceVars, saveVars

\* A call that leaves the devices alone.
LEMMA CallOnNone ==
  ASSUME IInv, Call, UNCHANGED <<dev, pending>>
  PROVE  Calls
<1>1. dev \in [Devices -> DeviceRecord]
  BY DEF IInv, TypeOK
<1>2. \A x \in Devices : Touched(dev[x], dev[x], x = executing)
  BY SameTouched
<1>. QED  BY <1>1, <1>2 DEF Calls, Call, MayCall, sliceVars, saveVars

\* adjust() and timer_set() may abort the slice.
LEMMA CallResyncs ==
  ASSUME IInv, Call, NEW ts, NEW t, dev' = ResyncOn(ts, t), pending' = pending,
         dev' \in [Devices -> DeviceRecord]
  PROVE  Calls
<1>1. CASE Head(ts.list) = t /\ executing # None
  <2> DEFINE e == AbortTimeslice(dev[executing], TRUE)
  <2>1. executing \in Devices /\ dev[executing] \in DeviceRecord
    BY <1>1 DEF IInv, TypeOK
  <2>2. dev' = [dev EXCEPT ![executing] = e]
    BY <1>1 DEF ResyncOn
  <2>3. Touched(dev[executing], e, TRUE) /\ e.nextsuspend = dev[executing].nextsuspend
    BY <2>1, AbortTouches
  <2>. HIDE DEF e
  <2>. QED  BY <2>1, <2>2, <2>3, CallOnOne
<1>2. CASE ~(Head(ts.list) = t /\ executing # None)
  BY <1>2, CallOnNone DEF ResyncOn
<1>. QED  BY <1>1, <1>2

LEMMA CallFacts == ASSUME IInv, EmulatedCall PROVE Calls
<1>0. dev' \in [Devices -> DeviceRecord] /\ pending' \in BOOLEAN
  BY DevicesStep, SliceStep DEF Next, SliceType
<1>1. ASSUME NEW t \in Timers, NEW delay \in Delays, TimerSet(t, delay) PROVE Calls
  BY <1>0, <1>1, CallResyncs DEF TimerSet
<1>2. ASSUME NEW t \in Timers, NEW delay \in Delays, NEW period \in Periods,
             TimerAdjust(t, delay, period)
      PROVE  Calls
  BY <1>0, <1>2, CallResyncs DEF TimerAdjust
<1>3. ASSUME NEW t \in Timers, NEW on \in EnableArgs, TimerEnable(t, on) PROVE Calls
  BY <1>3, CallOnNone DEF TimerEnable
<1>4. ASSUME NEW d \in Devices, NEW arg \in SuspendArgs, SuspendDevice(d, arg[1], arg[2]) PROVE Calls
  <2> DEFINE e == Suspend(dev[d], d = executing, arg[1], arg[2])
  <2>1. /\ arg[1] \in Reasons /\ arg[2] \in BOOLEAN /\ (AllEat => arg[2])
        /\ arg[1] = "timeslice" => d = executing \/ ForeignYield
        /\ dev[d] \in DeviceRecord /\ (d = executing) \in BOOLEAN
    BY <1>4, SchedulerAssumption, DeviceFacts DEF AllEat, SuspendDevice
  <2>2. Touched(dev[d], e, d = executing)
    BY <2>1, SuspendTouches
  <2>3. Call /\ pending' /\ dev' = [dev EXCEPT ![d] = e]
    BY <1>4 DEF SuspendDevice
  <2>. HIDE DEF e
  <2>. QED  BY <1>0, <2>2, <2>3, CallOnOne
<1>5. ASSUME NEW d \in Devices, NEW arg \in SuspendArgs, ResumeDevice(d, arg[1]) PROVE Calls
  <2> DEFINE e == Resume(dev[d], d = executing, {arg[1]})
  <2>1. Touched(dev[d], e, d = executing)
    BY DeviceFacts, ResumeTouches
  <2>2. Call /\ pending' /\ dev' = [dev EXCEPT ![d] = e]
    BY <1>5 DEF ResumeDevice
  <2>. HIDE DEF e
  <2>. QED  BY <1>0, <2>1, <2>2, CallOnOne
<1>6. ASSUME NEW d \in Devices, NEW arg \in SuspendArgs, NEW trigid \in TriggerIds,
             AwaitTrigger(d, trigid, arg[2])
      PROVE  Calls
  <2> DEFINE e == SuspendUntilTrigger(dev[d], d = executing, trigid, arg[2])
  <2>1. arg[2] \in BOOLEAN /\ (AllEat => arg[2])
    BY SchedulerAssumption DEF AllEat
  <2>2. Touched(dev[d], e, d = executing)
    BY <2>1, DeviceFacts, SuspendUntilTriggerTouches
  <2>3. Call /\ pending' /\ dev' = [dev EXCEPT ![d] = e]
    BY <1>6 DEF AwaitTrigger
  <2>. HIDE DEF e
  <2>. QED  BY <1>0, <2>2, <2>3, CallOnOne
<1>7. ASSUME NEW trigid \in TriggerIds, FireTrigger(trigid) PROVE Calls
  <2>1. /\ Call /\ pending' = (pending \/ \E d \in Devices : Awaits(dev[d], trigid))
        /\ dev' = [d \in Devices |-> Trigger(dev[d], d = executing, trigid)]
    BY <1>7 DEF FireTrigger
  <2>2. ASSUME NEW d \in Devices
        PROVE  /\ Touched(dev[d], dev'[d], d = executing)
               /\ ~Awaits(dev[d], trigid) => dev'[d].nextsuspend = dev[d].nextsuspend
    BY <2>1, DeviceFacts, TriggerTouches
  <2>3. pending \in BOOLEAN
    BY DEF IInv, TypeOK
  <2>4. \/ pending'
        \/ pending' = pending /\ \A d \in Devices : dev'[d].nextsuspend = dev[d].nextsuspend
    BY <2>1, <2>2, <2>3
  <2>. QED  BY <1>0, <2>1, <2>2, <2>4 DEF Calls, Call, MayCall, sliceVars, saveVars
<1>8. ASSUME NEW cycles \in EatArgs, Eat(cycles) PROVE Calls
  <2> DEFINE e == EatCycles(dev[executing], TRUE, cycles)
  <2>1. executing \in Devices /\ dev[executing] \in DeviceRecord
    BY <1>8 DEF Eat, IInv, TypeOK
  <2>2. Touched(dev[executing], e, TRUE) /\ e.nextsuspend = dev[executing].nextsuspend
    BY <2>1, EatTouches
  <2>3. Call /\ pending' = pending /\ dev' = [dev EXCEPT ![executing] = e]
    BY <1>8 DEF Eat
  <2>. HIDE DEF e
  <2>. QED  BY <1>0, <2>1, <2>2, <2>3, CallOnOne
<1>9. ASSUME NEW b \in Boosts, BoostInterleave(b[1], b[2]) PROVE Calls
  BY <1>9, CallOnNone DEF BoostInterleave
<1>. QED  BY <1>1, <1>2, <1>3, <1>4, <1>5, <1>6, <1>7, <1>8, <1>9 DEF EmulatedCall
-----------------------------------------------------------------------------
(* Time does not run backwards.                                            *)

\* A device that executes is not suspended, and the target of a slice is not
\* before the base time.
Aims ==
  /\ executing # None => dev[executing].suspend = {}
  /\ Turning => basetime <= target

\* What accounting a turn's cycles changes.
LEMMA AccountFacts ==
  ASSUME IInv, NEW d \in Devices, NEW ran \in Nat, Account(d, ran)
  PROVE  /\ dev'[d].localtime = Plus(dev[d].localtime, ran * CycleTime[d])
         /\ dev'[d].localtime >= dev[d].localtime /\ dev'[d].localtime \in Nat
         /\ dev'[d].suspend = dev[d].suspend /\ dev'[d].nextsuspend = dev[d].nextsuspend
         /\ dev'[d].eat = dev[d].eat /\ dev'[d].nexteat = dev[d].nexteat
         /\ \A x \in Devices \ {d} : dev'[x] = dev[x]
         /\ target' = IF dev'[d].localtime < target
                      THEN (IF dev'[d].localtime > basetime THEN dev'[d].localtime ELSE basetime)
                      ELSE target
         /\ turn' = turn + 1
<1> DEFINE r == dev[d]
           local == Plus(r.localtime, ran * CycleTime[d])
           e == [r EXCEPT !.localtime = local, !.running = 0, !.icount = 0, !.stolen = 0]
<1>1. /\ dev' = [dev EXCEPT ![d] = e] /\ turn' = turn + 1
      /\ target' = IF local < target THEN (IF local > basetime THEN local ELSE basetime)
                                     ELSE target
  BY DEF Account
<1>2. r \in DeviceRecord /\ dev \in [Devices -> DeviceRecord]
  BY DEF IInv, TypeOK
<1>3. r.localtime \in Time /\ CycleTime[d] \in Nat /\ Never \in Nat
  BY <1>2, SchedulerAssumption, NeverAssumption DEF DeviceRecord
<1>4. local >= r.localtime /\ local \in Nat
  <2> DEFINE x == ran * CycleTime[d]
  <2>1. x \in Nat
    BY <1>3
  <2>. HIDE DEF x
  <2>2. r.localtime \in Nat /\ r.localtime <= Never
    BY <1>3 DEF Time
  <2>. HIDE DEF r
  <2>. QED  BY <1>3, <2>1, <2>2 DEF Plus, x
<1>. HIDE DEF r, local
<1>5. /\ e.localtime = local /\ e.suspend = r.suspend /\ e.nextsuspend = r.nextsuspend
      /\ e.eat = r.eat /\ e.nexteat = r.nexteat
  BY <1>2 DEF DeviceRecord
<1>. HIDE DEF e
<1>6. dev'[d] = e /\ \A x \in Devices \ {d} : dev'[x] = dev[x]
  BY <1>1, <1>2
<1>. QED  BY <1>1, <1>4, <1>5, <1>6 DEF r, local

\* A step to the next slice aims at a time that is not before this one.
LEMMA TargetFacts ==
  ASSUME IInv, BeginSlice
  PROVE  /\ First(quanta) \in quanta /\ First(quanta).actual \in 0..(Second - 1)
         /\ basetime <= target' /\ target' <= basetime + First(quanta).actual
         /\ target' <= HeadExpire(tm) /\ HeadExpire(tm) \in Time
<1> DEFINE a == First(quanta).actual
           h == HeadExpire(tm)
<1>1. quanta \in SUBSET Slot /\ quanta # {}
  BY DEF IInv, TypeOK, QuantaSound
<1>2. First(quanta) \in quanta
  BY <1>1, FirstType
<1>3. a \in 0..(Second - 1)
  BY <1>1, <1>2 DEF Slot
<1>4. phase = "slice" /\ basetime < h /\ basetime < Horizon /\ basetime \in Nat
  BY NeverAssumption DEF BeginSlice, IInv, TypeOK
<1>5. h \in Time
  BY <1>4, ListFacts DEF HeadExpire, WellFormed, TimerState
<1>6. target' = Earlier(Plus(basetime, a), h)
  BY DEF BeginSlice
<1>. HIDE DEF a, h
<1>7. Horizon \in Nat /\ Second \in Nat /\ Horizon + Second < Never /\ Never \in Nat
  BY SchedulerAssumption, NeverAssumption
<1>8. Plus(basetime, a) = basetime + a
  BY <1>3, <1>4, <1>7 DEF Plus
<1>9. basetime <= target' /\ target' <= basetime + a /\ target' <= h
  BY <1>3, <1>4, <1>5, <1>6, <1>7, <1>8 DEF Earlier, Time
<1>. QED  BY <1>2, <1>3, <1>5, <1>9 DEF a, h

\* The executing device is one, it executes in its turn, and what it has run is a
\* number of cycles.
LEMMA LeaveFacts ==
  ASSUME IInv, LeaveDevice
  PROVE  /\ executing \in Devices /\ phase = "run" /\ phase' = "turn" /\ executing' = None
         /\ dev[executing].running - dev[executing].icount \in Nat
         /\ Account(executing, dev[executing].running - dev[executing].icount)
         /\ UNCHANGED <<execList, pending, basetime, saved>>
<1>1. executing # None
  BY DEF LeaveDevice, IInv, Control
<1>2. /\ executing \in Devices
      /\ granted - dev[executing].icount - dev[executing].stolen \in Nat
      /\ granted - dev[executing].icount - dev[executing].stolen =
           dev[executing].running - dev[executing].icount
  BY <1>1, RanType
<1>. QED  BY <1>2 DEF LeaveDevice, saveVars

\* The steps of a turn that leave all but the executing device's counters alone.
LEMMA CountFacts ==
  ASSUME IInv,
         \/ \E d \in Devices : EnterDevice(d)
         \/ \E cycles \in Instructions, early \in BOOLEAN : BeginInstruction(cycles, early)
         \/ EndInstruction
  PROVE  /\ Turning /\ Turning' /\ UNCHANGED <<execList, pending, basetime, target, turn, saved>>
         /\ executing' # None /\ executing' \in Devices
         /\ \A x \in Devices : /\ dev'[x].localtime = dev[x].localtime
                               /\ dev'[x].suspend = dev[x].suspend
                               /\ dev'[x].nextsuspend = dev[x].nextsuspend
                               /\ dev'[x].eat = dev[x].eat /\ dev'[x].nexteat = dev[x].nexteat
<1>0. dev \in [Devices -> DeviceRecord] /\ None \notin Devices
  BY SchedulerAssumption DEF IInv, TypeOK
<1>1. ASSUME NEW d \in Devices, NEW a, NEW b, NEW c,
             dev' = [dev EXCEPT ![d] = [@ EXCEPT !.running = a, !.icount = b, !.stolen = c]]
      PROVE  \A x \in Devices : /\ dev'[x].localtime = dev[x].localtime
                               /\ dev'[x].suspend = dev[x].suspend
                               /\ dev'[x].nextsuspend = dev[x].nextsuspend
                               /\ dev'[x].eat = dev[x].eat /\ dev'[x].nexteat = dev[x].nexteat
  <2> DEFINE r == dev[d]
             e == [r EXCEPT !.running = a, !.icount = b, !.stolen = c]
  <2>1. r \in DeviceRecord
    BY <1>0
  <2>2. \A x \in Devices : dev'[x] = IF x = d THEN e ELSE dev[x]
    BY <1>0, <1>1
  <2>. HIDE DEF r
  <2>3. /\ e.localtime = r.localtime /\ e.suspend = r.suspend /\ e.nextsuspend = r.nextsuspend
        /\ e.eat = r.eat /\ e.nexteat = r.nexteat
    BY <2>1 DEF DeviceRecord
  <2>. HIDE DEF e
  <2>. QED  BY <2>2, <2>3 DEF r
<1>2. ASSUME executing \in Devices, NEW i, dev' = [dev EXCEPT ![executing].icount = i]
      PROVE  \A x \in Devices : /\ dev'[x].localtime = dev[x].localtime
                               /\ dev'[x].suspend = dev[x].suspend
                               /\ dev'[x].nextsuspend = dev[x].nextsuspend
                               /\ dev'[x].eat = dev[x].eat /\ dev'[x].nexteat = dev[x].nexteat
  <2> DEFINE r == dev[executing]
             e == [r EXCEPT !.icount = i]
  <2>1. r \in DeviceRecord
    BY <1>0, <1>2
  <2>2. \A x \in Devices : dev'[x] = IF x = executing THEN e ELSE dev[x]
    BY <1>0, <1>2
  <2>. HIDE DEF r
  <2>3. /\ e.localtime = r.localtime /\ e.suspend = r.suspend /\ e.nextsuspend = r.nextsuspend
        /\ e.eat = r.eat /\ e.nexteat = r.nexteat
    BY <2>1 DEF DeviceRecord
  <2>. HIDE DEF e
  <2>. QED  BY <2>2, <2>3 DEF r
<1>3. ASSUME NEW d \in Devices, EnterDevice(d)
      PROVE  dev' = [dev EXCEPT ![d] = [@ EXCEPT !.running = Grant(d), !.icount = Grant(d), !.stolen = 0]]
  BY <1>3 DEF EnterDevice
<1>4. CASE \E d \in Devices : EnterDevice(d)
  <2>1. PICK d \in Devices : EnterDevice(d)
    BY <1>4
  <2>. QED  BY <1>0, <1>1, <1>3, <2>1 DEF EnterDevice, Turn, Turning, saveVars
<1>5. phase \in {"run", "instruction"} => executing # None /\ executing \in Devices
  BY DEF IInv, TypeOK, Control
<1>6. CASE \E cycles \in Instructions, early \in BOOLEAN : BeginInstruction(cycles, early)
  <2>1. PICK cycles \in Instructions, early \in BOOLEAN : BeginInstruction(cycles, early)
    BY <1>6
  <2>2. CASE early
    <3>1. dev' = [dev EXCEPT ![executing].icount = dev[executing].icount - cycles]
      BY <2>1, <2>2 DEF BeginInstruction
    <3>. QED  BY <1>2, <1>5, <2>1, <3>1 DEF BeginInstruction, Turning, saveVars
  <2>3. CASE ~early
    BY <1>5, <2>1, <2>3 DEF BeginInstruction, Turning, saveVars
  <2>. QED  BY <2>2, <2>3
<1>7. CASE EndInstruction
  <2>1. dev' = [dev EXCEPT ![executing].icount = dev[executing].icount - owed]
    BY <1>7 DEF EndInstruction
  <2>. QED  BY <1>2, <1>5, <1>7, <2>1 DEF EndInstruction, Turning, saveVars
<1>. QED  BY <1>4, <1>6, <1>7
\* What applying the suspensions asked for does to the devices.
LEMMA ApplyFacts ==
  ASSUME IInv, BeginSlice
  PROVE  /\ phase = "slice" /\ phase' = "turn" /\ executing = None /\ executing' = None
         /\ UNCHANGED <<basetime, saved>> /\ turn' = 1
         /\ \A d \in Devices : dev'[d].localtime = dev[d].localtime
         /\ \/ ~pending /\ UNCHANGED <<dev, execList, pending>>
            \/ /\ \A d \in Devices :
                    /\ dev'[d].suspend = dev[d].nextsuspend
                    /\ dev'[d].nextsuspend = dev[d].nextsuspend \ {"timeslice"}
                    /\ dev'[d].eat = dev[d].nexteat /\ dev'[d].nexteat = dev[d].nexteat
               /\ \/ pending' = pending /\ execList' = Rebuild(dev')
                  \/ /\ pending' = FALSE /\ execList' = execList
                     /\ \A d \in Devices : dev[d].suspend = dev'[d].suspend
<1>1. /\ phase = "slice" /\ phase' = "turn" /\ executing = None /\ executing' = None
      /\ UNCHANGED <<basetime, saved>> /\ turn' = 1
  BY DEF BeginSlice, IInv, Control, saveVars
<1> DEFINE dv == [d \in Devices |-> ApplySuspend(dev[d])]
<1>2. ASSUME NEW d \in Devices
      PROVE  /\ dv[d].localtime = dev[d].localtime /\ dv[d].suspend = dev[d].nextsuspend
             /\ dv[d].nextsuspend = dev[d].nextsuspend \ {"timeslice"}
             /\ dv[d].eat = dev[d].nexteat /\ dv[d].nexteat = dev[d].nexteat
  <2> DEFINE r == dev[d]
  <2>1. r \in DeviceRecord
    BY DEF IInv, TypeOK
  <2>2. dv[d] = ApplySuspend(r)
    OBVIOUS
  <2>. HIDE DEF r
  <2>. QED  BY <2>1, <2>2 DEF ApplySuspend, DeviceRecord, r
<1>3. ApplyChanges
  BY DEF BeginSlice
<1>4. IF ~pending THEN UNCHANGED devVars
      ELSE /\ dev' = dv
           /\ IF \E d \in Devices : dev[d].suspend # dv[d].suspend
              THEN execList' = Rebuild(dv) /\ UNCHANGED pending
              ELSE pending' = FALSE /\ UNCHANGED execList
  BY <1>3 DEF ApplyChanges
<1>. HIDE DEF dv
<1>5. CASE ~pending
  BY <1>1, <1>4, <1>5 DEF devVars
<1>6. CASE pending
  <2>1. dev' = dv
    BY <1>4, <1>6
  <2>2. \/ pending' = pending /\ execList' = Rebuild(dv)
        \/ /\ pending' = FALSE /\ execList' = execList
           /\ \A d \in Devices : dev[d].suspend = dv[d].suspend
    BY <1>4, <1>6
  <2>. QED  BY <1>1, <1>2, <2>1, <2>2
<1>. QED  BY <1>5, <1>6

\* What a step does to the time and to the executing device.
LEMMA AimsStep ==
  ASSUME IInv, Aims, [Next]_vars
  PROVE  /\ Aims'
         /\ phase' # "detach" => /\ basetime' >= basetime
                                 /\ \A d \in Devices : dev'[d].localtime >= dev[d].localtime
<1>0. /\ \A d \in Devices : dev[d].localtime \in Nat
      /\ basetime \in Nat /\ target \in Nat
      /\ phase \in {"run", "instruction"} <=> executing # None
      /\ executing # None => executing \in Devices
  BY NeverAssumption DEF IInv, TypeOK, Control, DeviceRecord, Time
<1>1. CASE Still
  BY <1>0, <1>1 DEF Still, Aims, devVars
<1>2. CASE EmulatedCall
  <2>1. Calls
    BY <1>2, CallFacts
  <2>2. \A d \in Devices : dev'[d].localtime = dev[d].localtime /\ dev'[d].suspend = dev[d].suspend
    BY <2>1 DEF Calls, Touched
  <2>. QED  BY <1>0, <2>1, <2>2 DEF Calls, Aims, Turning
<1>3. CASE BeginSlice
  <2>1. basetime <= target' /\ Turning'
    BY <1>3, TargetFacts DEF BeginSlice, Turning
  <2>. QED  BY <1>0, <1>3, <2>1, ApplyFacts DEF Aims
<1>4. ASSUME NEW d \in Devices, SkipTurn(d)
      PROVE  /\ UNCHANGED <<dev, executing, basetime, target, phase>>
  BY <1>4 DEF SkipTurn, devVars
<1>5. ASSUME NEW d \in Devices, SpinTurn(d)
      PROVE  /\ Aims' /\ basetime' >= basetime
             /\ \A x \in Devices : dev'[x].localtime >= dev[x].localtime
  <2>1. phase = "turn" /\ phase' = "turn" /\ executing = None /\ executing' = None
        /\ basetime' = basetime /\ MayRun(d) /\ Account(d, Grant(d))
    BY <1>0, <1>5 DEF SpinTurn, Turn
  <2>2. Grant(d) \in Nat
    BY <2>1, GrantType
  <2> DEFINE ran == Grant(d)
  <2>3. Account(d, ran) /\ ran \in Nat
    BY <2>1, <2>2
  <2>. HIDE DEF ran
  <2>4. /\ dev'[d].localtime >= dev[d].localtime /\ dev'[d].localtime \in Nat
        /\ \A x \in Devices \ {d} : dev'[x] = dev[x]
        /\ target' = IF dev'[d].localtime < target
                     THEN (IF dev'[d].localtime > basetime THEN dev'[d].localtime ELSE basetime)
                     ELSE target
    BY <2>3, AccountFacts
  <2>5. basetime <= target
    BY <2>1 DEF Aims, Turning
  <2>6. basetime <= target'
    BY <1>0, <2>4, <2>5
  <2>7. Aims'
    BY <2>1, <2>6 DEF Aims
  <2>. QED  BY <1>0, <2>1, <2>4, <2>7
<1>6. ASSUME NEW d \in Devices, EnterDevice(d)
      PROVE  executing' = d /\ dev[d].suspend = {}
  BY <1>6 DEF EnterDevice
<1>7. ASSUME \/ \E cycles \in Instructions, early \in BOOLEAN : BeginInstruction(cycles, early)
             \/ EndInstruction
      PROVE  executing' = executing /\ executing # None /\ executing \in Devices
  BY <1>0, <1>7 DEF BeginInstruction, EndInstruction
<1>8. CASE \/ \E d \in Devices : EnterDevice(d)
           \/ \E cycles \in Instructions, early \in BOOLEAN : BeginInstruction(cycles, early)
           \/ EndInstruction
  <2>1. /\ Turning /\ UNCHANGED <<basetime, target>> /\ executing' \in Devices
        /\ \A x \in Devices : /\ dev'[x].localtime = dev[x].localtime
                              /\ dev'[x].suspend = dev[x].suspend
    BY <1>8, CountFacts
  <2>2. dev[executing'].suspend = {}
    BY <1>6, <1>7, <1>8 DEF Aims
  <2>. QED  BY <1>0, <2>1, <2>2 DEF Aims
<1>9. CASE LeaveDevice
  <2>1. /\ executing \in Devices /\ phase = "run" /\ phase' = "turn" /\ executing' = None
        /\ dev[executing].running - dev[executing].icount \in Nat
        /\ Account(executing, dev[executing].running - dev[executing].icount)
        /\ UNCHANGED basetime
    BY <1>9, LeaveFacts
  <2> DEFINE ran == dev[executing].running - dev[executing].icount
             d == executing
  <2>2. Account(d, ran) /\ ran \in Nat /\ d \in Devices
    BY <2>1
  <2>. HIDE DEF ran, d
  <2>3. /\ dev'[d].localtime >= dev[d].localtime /\ dev'[d].localtime \in Nat
        /\ \A x \in Devices \ {d} : dev'[x] = dev[x]
        /\ target' = IF dev'[d].localtime < target
                     THEN (IF dev'[d].localtime > basetime THEN dev'[d].localtime ELSE basetime)
                     ELSE target
    BY <2>2, AccountFacts
  <2>4. basetime <= target
    BY <2>1 DEF Aims, Turning
  <2>5. basetime <= target'
    BY <1>0, <2>3, <2>4
  <2>6. Aims'
    BY <2>1, <2>5 DEF Aims
  <2>. QED  BY <1>0, <2>1, <2>3, <2>6
<1>10. CASE EndSlice
  <2>1. /\ phase = "turn" /\ phase' = "slice" /\ basetime' = target /\ UNCHANGED <<dev, executing>>
    BY <1>10 DEF EndSlice, devVars
  <2>. QED  BY <1>0, <2>1 DEF Aims, Turning
<1>11. CASE SaveState
  BY <1>0, <1>11 DEF SaveState, devVars, sliceVars, Aims, Turning
<1>12. CASE LoadState
  <2>1. phase = "idle" /\ phase' = "detach" /\ executing' = executing
    BY <1>12 DEF LoadState, sliceVars
  <2>. QED  BY <1>0, <2>1 DEF Aims, Turning
<1>13. CASE ReattachDone
  <2>1. /\ phase = "reattach" /\ phase' = "idle" /\ UNCHANGED <<executing, dev, basetime>>
    BY <1>13 DEF ReattachDone, sliceVars
  <2>. QED  BY <1>0, <2>1 DEF Aims, Turning
<1>14. CASE \E d \in Devices : SkipTurn(d)
  BY <1>0, <1>4, <1>14 DEF Aims, Turning
<1>. QED  BY <1>1, <1>2, <1>3, <1>5, <1>8, <1>9, <1>10, <1>11, <1>12, <1>13, <1>14, StillOrMoves
          DEF Moves

LEMMA AimsInit == Init => Aims
BY DEF Init, Aims, Turning

\* Only loading a state moves the base time or a device's time backwards.
THEOREM AlwaysForward == Spec => TimeForward
<1>1. (IInv /\ Aims) /\ [Next]_vars => Aims'
  BY AimsStep
<1>2. (IInv /\ Aims) /\ [Next]_vars =>
        [phase' # "detach" => /\ basetime' >= basetime
                              /\ \A d \in Devices : dev'[d].localtime >= dev[d].localtime]_vars
  BY AimsStep
<1>. QED  BY <1>1, <1>2, AimsInit, Invariance, PTL DEF Spec, TimeForward

-----------------------------------------------------------------------------
(* Suspensions take effect.                                                *)

\* A device that has yielded is not to yield again.
Yielding(dv) == \A d \in Devices : "timeslice" \in dv[d].suspend => "timeslice" \notin dv[d].nextsuspend

\* Changes that are not in force are known to be pending, except while a loaded
\* state is put in place.
Requested ==
  /\ Yielding(dev) /\ (saved # None => Yielding(saved.dev))
  /\ pending \/ Loading \/ \A d \in Devices : dev[d].suspend = dev[d].nextsuspend

\* A step that leaves the suspensions alone.
LEMMA SameRequested ==
  ASSUME Requested, UNCHANGED <<pending, saved>>, Loading' = Loading,
         \A d \in Devices : dev'[d].suspend = dev[d].suspend /\ dev'[d].nextsuspend = dev[d].nextsuspend
  PROVE  Requested'
BY DEF Requested, Yielding

LEMMA RequestedStep ==
  ASSUME IInv, Aims, ~ForeignYield, Requested, [Next]_vars
  PROVE  Requested'
<1>0. /\ phase \in {"run", "instruction"} <=> executing # None
      /\ executing # None => executing \in Devices
  BY DEF IInv, TypeOK, Control
<1>1. CASE Still
  BY <1>1, SameRequested DEF Still, devVars
<1>2. CASE EmulatedCall
  <2>1. Calls
    BY <1>2, CallFacts
  <2>2. \A d \in Devices : /\ dev'[d].suspend = dev[d].suspend
                           /\ d # executing /\ "timeslice" \in dev'[d].nextsuspend
                                => "timeslice" \in dev[d].nextsuspend
    BY <2>1 DEF Calls, Touched
  <2>3. Yielding(dev')
    <3>1. executing # None => dev[executing].suspend = {}
      BY DEF Aims
    <3>2. SUFFICES ASSUME NEW d \in Devices, "timeslice" \in dev[d].suspend
                   PROVE  "timeslice" \notin dev'[d].nextsuspend
      BY <2>2 DEF Yielding
    <3>3. d # executing
      <4>1. d # None
        BY SchedulerAssumption
      <4>. QED  BY <3>1, <3>2, <4>1
    <3>. QED  BY <2>2, <3>2, <3>3 DEF Requested, Yielding
  <2>4. saved' = saved /\ ~Loading /\ ~Loading'
    BY <2>1 DEF Calls, Loading
  <2>5. pending' \/ \A d \in Devices : dev'[d].suspend = dev'[d].nextsuspend
    BY <2>1, <2>2, <2>4 DEF Calls, Requested
  <2>. QED  BY <2>3, <2>4, <2>5 DEF Requested
<1>3. CASE BeginSlice
  <2>1. ~Loading /\ ~Loading' /\ saved' = saved
    BY <1>3, ApplyFacts DEF Loading
  <2>2. CASE ~pending /\ UNCHANGED <<dev, execList, pending>>
    <3>1. \A d \in Devices : dev'[d].suspend = dev[d].suspend /\ dev'[d].nextsuspend = dev[d].nextsuspend
      BY <2>2
    <3>. QED  BY <2>1, <2>2, <3>1 DEF Requested, Yielding
  <2>3. CASE /\ \A d \in Devices :
                  /\ dev'[d].suspend = dev[d].nextsuspend
                  /\ dev'[d].nextsuspend = dev[d].nextsuspend \ {"timeslice"}
             /\ pending' = pending \/ \A d \in Devices : dev[d].suspend = dev'[d].suspend
    <3>1. Yielding(dev')
      BY <2>3 DEF Yielding
    <3>2. CASE pending' = pending
      <4>1. pending' \/ \A d \in Devices : dev[d].suspend = dev[d].nextsuspend
        BY <2>1, <3>2 DEF Requested
      <4>2. ASSUME \A d \in Devices : dev[d].suspend = dev[d].nextsuspend, NEW d \in Devices
            PROVE  dev'[d].suspend = dev'[d].nextsuspend
        <5>1. "timeslice" \in dev[d].suspend => "timeslice" \notin dev[d].nextsuspend
          BY DEF Requested, Yielding
        <5>2. /\ dev[d].suspend = dev[d].nextsuspend
              /\ dev'[d].suspend = dev[d].nextsuspend
              /\ dev'[d].nextsuspend = dev[d].nextsuspend \ {"timeslice"}
          BY <2>3, <4>2
        <5>. QED  BY <5>1, <5>2
      <4>. QED  BY <2>1, <3>1, <4>1, <4>2 DEF Requested
    <3>3. CASE \A d \in Devices : dev[d].suspend = dev'[d].suspend
      <4>1. ASSUME NEW d \in Devices PROVE dev'[d].suspend = dev'[d].nextsuspend
        <5>1. dev[d].suspend = dev[d].nextsuspend
          BY <2>3, <3>3
        <5>2. "timeslice" \notin dev[d].nextsuspend
          BY <5>1 DEF Requested, Yielding
        <5>. QED  BY <2>3, <5>2
      <4>. QED  BY <2>1, <3>1, <4>1 DEF Requested
    <3>. QED  BY <2>3, <3>2, <3>3
  <2>. QED  BY <1>3, <2>2, <2>3, ApplyFacts
<1>4. ASSUME NEW d \in Devices, SkipTurn(d) PROVE Requested'
  BY <1>4, SameRequested DEF SkipTurn, devVars, saveVars, Loading
<1>5. ASSUME NEW d \in Devices, SpinTurn(d) PROVE Requested'
  <2>1. MayRun(d) /\ UNCHANGED <<phase, pending, saved>> /\ Account(d, Grant(d))
    BY <1>5 DEF SpinTurn, saveVars
  <2> DEFINE ran == Grant(d)
  <2>2. Account(d, ran) /\ ran \in Nat
    BY <2>1, GrantType
  <2>. HIDE DEF ran
  <2>3. \A x \in Devices : dev'[x].suspend = dev[x].suspend /\ dev'[x].nextsuspend = dev[x].nextsuspend
    BY <2>2, AccountFacts
  <2>. QED  BY <2>1, <2>3, SameRequested DEF Loading
<1>6. CASE \/ \E d \in Devices : EnterDevice(d)
           \/ \E cycles \in Instructions, early \in BOOLEAN : BeginInstruction(cycles, early)
           \/ EndInstruction
  BY <1>6, CountFacts, SameRequested DEF Turning, Loading
<1>7. CASE LeaveDevice
  <2> DEFINE ran == dev[executing].running - dev[executing].icount
             d == executing
  <2>1. /\ d \in Devices /\ phase = "run" /\ phase' = "turn" /\ ran \in Nat /\ Account(d, ran)
        /\ UNCHANGED <<pending, saved>>
    BY <1>7, LeaveFacts
  <2>. HIDE DEF ran, d
  <2>2. \A x \in Devices : dev'[x].suspend = dev[x].suspend /\ dev'[x].nextsuspend = dev[x].nextsuspend
    BY <2>1, AccountFacts
  <2>. QED  BY <2>1, <2>2, SameRequested DEF Loading
<1>8. CASE EndSlice
  BY <1>8, SameRequested DEF EndSlice, devVars, saveVars, Loading
<1>9. CASE SaveState
  <2>1. saved'.dev = dev /\ UNCHANGED <<dev, pending, phase>>
    BY <1>9 DEF SaveState, devVars
  <2>. QED  BY <2>1 DEF Requested, Loading
<1>10. CASE LoadState
  <2>1. dev' = saved.dev /\ saved # None /\ saved' = saved /\ Loading'
    BY <1>10 DEF LoadState, Loading
  <2>. QED  BY <2>1 DEF Requested
<1>11. CASE ReattachDone
  <2>1. pending' = TRUE /\ UNCHANGED <<dev, saved>>
    BY <1>11 DEF ReattachDone, saveVars
  <2>. QED  BY <2>1 DEF Requested
<1>. QED  BY <1>1, <1>2, <1>3, <1>4, <1>5, <1>6, <1>7, <1>8, <1>9, <1>10, <1>11, StillOrMoves
          DEF Moves

LEMMA RequestedInit == Init => Requested
BY DEF Init, Requested, Yielding, StartedDevice

\* A slice begins with the suspensions that were asked for before it.
LEMMA TakesEffectStep ==
  ASSUME IInv, Aims, Requested, [Next]_vars, phase = "slice", phase' = "turn"
  PROVE  \A d \in Devices : dev'[d].suspend = dev[d].nextsuspend
<1>1. CASE BeginSlice
  <2>1. ~Loading
    BY DEF Loading
  <2>. QED  BY <1>1, <2>1, ApplyFacts DEF Requested
<1>2. ~Still
  BY DEF Still, Turning
<1>3. ~EmulatedCall
  BY CallFacts DEF Calls
<1>4. Moves => BeginSlice
  BY <1>3, SchedulerAssumption
  DEF Moves, EndInstruction, LeaveDevice, EndSlice, SkipTurn, SpinTurn, EnterDevice, Turn,
      BeginInstruction, SaveState, LoadState, ReattachDone
<1>. QED  BY <1>1, <1>2, <1>4, StillOrMoves

\* A suspension or resumption that was asked for before a slice is in force in it,
\* if a device is made to yield by nobody but itself (schedule.cpp:389-410).
THEOREM EffectTaken == ASSUME ~ForeignYield PROVE Spec => SuspendTakesEffect
<1>1. IInv /\ Aims /\ Requested /\ [Next]_vars => Requested'
  BY RequestedStep
<1>2. IInv /\ Aims /\ [Next]_vars => Aims'
  BY AimsStep
<1>3. IInv /\ Aims /\ Requested /\ [Next]_vars =>
        [phase = "slice" /\ phase' = "turn" =>
           \A d \in Devices : dev'[d].suspend = dev[d].nextsuspend]_vars
  BY TakesEffectStep
<1>. QED  BY <1>1, <1>2, <1>3, AimsInit, RequestedInit, Invariance, PTL DEF Spec, SuspendTakesEffect

-----------------------------------------------------------------------------
(* The devices stay in step.                                               *)

Least == PerfectInterleave(CycleTime, Second)

\* The longest slice: the machine's quantum, or the perfect interleave.
Longest == IF MinimumQuantum >= Least THEN MinimumQuantum ELSE Least

\* A slice and a cycle of any device fit into a second, and a suspended device eats
\* its cycles.
Paced == AllEat /\ \A d \in Devices : Longest + CycleTime[d] <= Second

\* A device's time is less than a cycle behind the base time.
Keeping(base, dv) == \A d \in Devices : base < dv[d].localtime + CycleTime[d]

Eating(dv) == \A d \in Devices : dv[d].suspend # {} => dv[d].eat
WillEat(dv) == \A d \in Devices : dv[d].nextsuspend # {} => dv[d].nexteat

\* The devices that are suspended eat their cycles.
Fed ==
  /\ WillEat(dev) /\ (saved # None => WillEat(saved.dev))
  /\ pending \/ Loading \/ Eating(dev)
  /\ Turning => Eating(dev)

\* A slot of the quantum list lasts as long as it says, or for the perfect interleave.
Slotted == minimum = Least /\ \A q \in quanta : q.actual <= q.requested \/ q.actual <= Least

\* Every device has its turns.
Listed == execList \in Seq(Devices) /\ \A d \in Devices : \E i \in 1..Len(execList) : execList[i] = d

\* The devices that had their turn have come within a cycle of the target.
Reached ==
  /\ turn \in Nat \ {0} /\ target <= basetime + Longest
  /\ \A i \in 1..Len(execList) :
       i < turn => target < dev[execList[i]].localtime + CycleTime[execList[i]]
  /\ executing # None => turn <= Len(execList) /\ execList[turn] = executing

Stepping ==
  /\ Keeping(basetime, dev) /\ (saved # None => Keeping(saved.basetime, saved.dev))
  /\ Fed /\ Slotted /\ Listed /\ (Turning => Reached)

LEMMA Multiples ==
  ASSUME NEW s \in Nat \ {0}, NEW k \in Int
  PROVE  /\ s * k \in Int
         /\ k = 0 => s * k = 0
         /\ k >= 1 => s * k >= s
         /\ k >= 2 => s * k >= s + s
<1>1. s * k \in Int /\ s * (k - 1) = s * k - s /\ s * (k - 2) = s * k - s - s
  OBVIOUS
<1>2. \A j \in Nat : s * j \in Nat
  OBVIOUS
<1>3. k >= 1 => s * (k - 1) \in Nat
  BY <1>2
<1>4. k >= 2 => s * (k - 2) \in Nat
  BY <1>2
<1>. QED  BY <1>1, <1>3, <1>4

LEMMA Difference ==
  ASSUME NEW t \in Nat, NEW l \in Nat, NEW s \in Nat \ {0}
  PROVE  /\ t - l = s * ((t \div s) - (l \div s)) + ((t % s) - (l % s))
         /\ (t \div s) - (l \div s) \in Int /\ t \div s \in Nat /\ l \div s \in Nat
         /\ t % s \in 0..(s - 1) /\ l % s \in 0..(s - 1)
<1>1. t = s * (t \div s) + (t % s) /\ t \div s \in Nat /\ t % s \in 0..(s - 1)
  OBVIOUS
<1>2. l = s * (l \div s) + (l % s) /\ l \div s \in Nat /\ l % s \in 0..(s - 1)
  OBVIOUS
<1> DEFINE a == t \div s  b == l \div s  c == t % s  e == l % s
<1>3. a \in Nat /\ b \in Nat /\ c \in 0..(s - 1) /\ e \in 0..(s - 1) /\ t = s * a + c /\ l = s * b + e
  BY <1>1, <1>2
<1>. HIDE DEF a, b, c, e
<1>4. s * (a - b) = s * a - s * b /\ s * a \in Nat /\ s * b \in Nat
  BY <1>3
<1>5. t - l = s * (a - b) + (c - e)
  BY <1>3, <1>4
<1>. QED  BY <1>3, <1>5 DEF a, b, c, e

\* The numbers of a device's turn.
LEMMA TurnNumbers ==
  ASSUME IInv, NEW d \in Devices
  PROVE  /\ Second \in Nat \ {0} /\ CycleTime[d] \in Nat \ {0} /\ CycleTime[d] < Second
         /\ target \in Nat /\ basetime \in Nat /\ dev[d].localtime \in Nat
         /\ dev[d].localtime <= Never /\ Never \in Nat
<1>1. dev[d].localtime \in Time /\ Never \in Nat
  BY NeverAssumption DEF IInv, TypeOK, DeviceRecord
<1>2. CycleTime[d] \in 1..(Second - 1) /\ Second \in Nat
  BY SchedulerAssumption
<1>. QED  BY <1>1, <1>2 DEF IInv, TypeOK, Time

LEMMA LongestType == Longest \in Nat /\ Least \in Nat /\ MinimumQuantum \in Nat
BY InterleaveType, SchedulerAssumption DEF Longest, Least

\* What timeslice() computes is the time to the target, and a device it passes over
\* is within a cycle of the target.
LEMMA DeltaFacts ==
  ASSUME IInv, Paced, Stepping, Turning, NEW d \in Devices
  PROVE  /\ Eligible(d) => Delta(d) = target - dev[d].localtime
         /\ ~MayRun(d) => target < dev[d].localtime + CycleTime[d]
<1> DEFINE t == target  l == dev[d].localtime  s == Second  c == CycleTime[d]
           k == (t \div s) - (l \div s)
           r == (t % s) - (l % s)
<1>1. /\ s \in Nat \ {0} /\ c \in Nat \ {0} /\ t \in Nat /\ l \in Nat /\ basetime \in Nat
  BY TurnNumbers
<1>2. t - l < s
  <2>1. basetime < l + c /\ t <= basetime + Longest /\ Longest + c <= s
    BY DEF Stepping, Keeping, Reached, Paced
  <2>. QED  BY <1>1, <2>1, LongestType
<1>3. dev[d].suspend = {} \/ dev[d].eat
  BY DEF Stepping, Fed, Eating
<1>4. Eligible(d) <=> t \div s >= l \div s
  BY <1>3 DEF Eligible
<1>5. Delta(d) = IF r < 0 /\ t \div s > l \div s THEN r + s ELSE r
  BY DEF Delta
<1>6. t - l = s * k + r /\ k \in Int /\ t \div s \in Nat /\ l \div s \in Nat
      /\ t % s \in 0..(s - 1) /\ l % s \in 0..(s - 1)
  BY <1>1, Difference
<1>7. MayRun(d) <=> Eligible(d) /\ Delta(d) >= c
  BY DEF MayRun
<1>8. r \in Int /\ r < s /\ r > -s
  BY <1>1, <1>6
<1>9. (k >= 0 <=> t \div s >= l \div s) /\ (k > 0 <=> t \div s > l \div s)
  BY <1>6
<1>10. s * k \in Int /\ (k = 0 => s * k = 0) /\ (k >= 1 => s * k >= s) /\ (k >= 2 => s * k >= s + s)
  BY <1>1, <1>6, Multiples
<1>11. s * (-k) \in Int /\ (-k >= 1 => s * (-k) >= s) /\ s * (-k) = -(s * k)
  BY <1>1, <1>6, Multiples
<1> DEFINE m == s * k
           n == s * (-k)
<1>12. /\ m \in Int /\ (k = 0 => m = 0) /\ (k >= 1 => m >= s) /\ (k >= 2 => m >= s + s)
       /\ (k <= -1 => -m >= s) /\ t - l = m + r
  BY <1>6, <1>10, <1>11
<1>13. k = 1 => m = s
  BY <1>1
<1>. HIDE DEF t, l, s, c, k, r, m, n
<1>14. ASSUME Eligible(d) PROVE Delta(d) = t - l
  <2>1. k >= 0
    BY <1>4, <1>9, <1>14
  <2>2. k < 2
    BY <1>1, <1>2, <1>6, <1>8, <1>12
  <2>3. CASE k = 0
    BY <1>5, <1>6, <1>9, <1>12, <2>3, <1>8
  <2>4. CASE k = 1
    <3>1. r < 0
      BY <1>1, <1>2, <1>8, <1>12, <1>13, <2>4
    <3>2. Delta(d) = r + s
      BY <1>5, <1>9, <2>4, <3>1
    <3>. QED  BY <1>1, <1>8, <1>12, <1>13, <2>4, <3>2
  <2>. QED  BY <1>6, <2>1, <2>2, <2>3, <2>4
<1>15. ASSUME ~MayRun(d) PROVE t < l + c
  <2>1. CASE Eligible(d)
    BY <1>1, <1>7, <1>14, <1>15, <2>1
  <2>2. CASE ~Eligible(d)
    <3>1. k <= -1
      BY <1>4, <1>6, <1>9, <2>2
    <3>. QED  BY <1>1, <1>8, <1>12, <3>1
  <2>. QED  BY <2>1, <2>2
<1>. QED  BY <1>14, <1>15 DEF t, l, c

\* The steps that change the quanta.
LEMMA QuantaMoves ==
  ASSUME IInv, [Next]_vars
  PROVE  \/ UNCHANGED quantaVars \/ Timeslice
         \/ \E b \in Boosts : BoostInterleave(b[1], b[2])
<1>1. ASSUME EmulatedCall
      PROVE  UNCHANGED quantaVars \/ \E b \in Boosts : BoostInterleave(b[1], b[2])
  <2>1. Call => UNCHANGED minimum
    BY DEF Call
  <2> QED
    BY <1>1, <2>1
    DEF EmulatedCall, TimerSet, TimerAdjust, TimerEnable, SuspendDevice, ResumeDevice,
        AwaitTrigger, FireTrigger, Eat, quantaVars
<1>2. CASE \E d \in Devices : SkipTurn(d) \/ SpinTurn(d) \/ EnterDevice(d)
  BY <1>2 DEF SkipTurn, SpinTurn, EnterDevice
<1>3. CASE \E cycles \in Instructions, early \in BOOLEAN : BeginInstruction(cycles, early)
  BY <1>3 DEF BeginInstruction
<1>4. CASE StartDone \/ BeginSlice \/ EndInstruction \/ LeaveDevice \/ EndSlice \/ SlicesDone
           \/ StartCallback \/ SkipDisabled \/ EndCallback \/ TimersDone
  BY <1>4 DEF StartDone, BeginSlice, EndInstruction, LeaveDevice, EndSlice, SlicesDone,
              StartCallback, SkipDisabled, EndCallback, TimersDone
<1>5. CASE \/ SaveState \/ LoadState \/ DetachTimer \/ DetachDone \/ ReattachTimer
           \/ ReattachDone \/ \E t \in Timers : TimerAlloc(t)
  BY <1>5 DEF SaveState, LoadState, DetachTimer, DetachDone, ReattachTimer, ReattachDone, TimerAlloc
<1>6. CASE Stop \/ UNCHANGED vars
  BY <1>6 DEF Stop, vars
<1> QED BY <1>1, <1>2, <1>3, <1>4, <1>5, <1>6 DEF Next, Step

\* add_scheduling_quantum's new slot lasts for the interleave or what was asked for.
LEMMA AddQuantumSlots ==
  ASSUME NEW qs \in SUBSET Slot, NEW now, NEW requested, NEW expire, NEW least,
         NEW q \in AddQuantum(qs, now, requested, expire, least),
         \A r \in qs : r.actual <= r.requested \/ r.actual <= Least,
         least = Least, requested \in Nat
  PROVE  q.actual <= q.requested \/ q.actual <= Least
<1> DEFINE live == {r \in qs : ~Expired(r, now)}
           same == {r \in live : r.requested = requested}
           longer(r) == [r EXCEPT !.expire = IF r.expire >= expire THEN r.expire ELSE expire]
           kept == (live \ same) \cup {longer(r) : r \in same}
           actual == IF requested >= least THEN requested ELSE least
           slot == [requested |-> requested, actual |-> actual, expire |-> expire]
           rs == AddQuantum(qs, now, requested, expire, least)
<1>0. Least \in Nat
  BY LongestType
<1>1. CASE same # {}
  <2>1. rs = kept
    BY <1>1 DEF AddQuantum
  <2>2. \A r \in same : longer(r).requested = r.requested /\ longer(r).actual = r.actual
    BY DEF Slot
  <2>3. q \in kept
    BY <2>1
  <2>. HIDE DEF longer
  <2>. QED  BY <2>2, <2>3
<1>2. CASE same = {}
  <2>1. rs = live \cup {slot}
    BY <1>2 DEF AddQuantum
  <2>2. slot.requested = requested /\ slot.actual = actual
    OBVIOUS
  <2>3. actual <= requested \/ actual <= Least
    BY <1>0
  <2>4. q \in live \cup {slot}
    BY <2>1
  <2>. HIDE DEF slot, actual
  <2>. QED  BY <2>2, <2>3, <2>4
<1>. QED  BY <1>1, <1>2

LEMMA SlottedStep == ASSUME IInv, Slotted, [Next]_vars PROVE Slotted'
<1>1. CASE UNCHANGED quantaVars
  BY <1>1 DEF quantaVars, Slotted
<1>2. CASE Timeslice
  BY <1>2 DEF Timeslice, DropExpired, Slotted
<1>3. ASSUME NEW b \in Boosts, BoostInterleave(b[1], b[2]) PROVE Slotted'
  <2>1. quanta' = AddQuantum(quanta, Now, b[1], Plus(Now, b[2]), minimum) /\ minimum' = minimum
    BY <1>3 DEF BoostInterleave, Call
  <2>2. b[1] \in Nat /\ quanta \in SUBSET Slot
    BY SchedulerAssumption DEF IInv, TypeOK
  <2> DEFINE now == Now  expire == Plus(Now, b[2])  requested == b[1]
  <2>3. quanta' = AddQuantum(quanta, now, requested, expire, minimum) /\ requested \in Nat
    BY <2>1, <2>2
  <2>. HIDE DEF now, expire, requested
  <2>4. ASSUME NEW q \in quanta' PROVE q.actual <= q.requested \/ q.actual <= Least
    BY <2>2, <2>3, <2>4, AddQuantumSlots DEF Slotted
  <2>. QED  BY <2>1, <2>4 DEF Slotted
<1>. QED  BY <1>1, <1>2, <1>3, QuantaMoves

\* A slice is not longer than the longest.
LEMMA LongestFacts ==
  ASSUME IInv, Slotted, BeginSlice
  PROVE  target' <= basetime + Longest
<1>1. /\ First(quanta) \in quanta /\ First(quanta).actual \in 0..(Second - 1)
      /\ target' <= basetime + First(quanta).actual
      /\ target' \in Nat /\ basetime \in Nat /\ Second \in Nat
  BY TargetFacts, TargetType, SchedulerAssumption, NeverAssumption DEF IInv, TypeOK
<1>2. quanta \subseteq Slot /\ QuantaSound
  BY DEF IInv, TypeOK
<1>3. First(quanta).requested <= MinimumQuantum
  <2>1. PICK q \in quanta : q.requested = MinimumQuantum
    BY <1>2 DEF QuantaSound
  <2>2. \E p \in quanta : \A r \in quanta : p.requested <= r.requested
    <3> DEFINE lengths == {p.requested : p \in quanta}
    <3>1. lengths \subseteq Nat /\ lengths # {}
      BY <1>2, <2>1, SchedulerAssumption DEF Slot
    <3>2. \E x \in lengths : \A y \in lengths : x <= y
      <4> HIDE DEF lengths
      <4> QED BY <3>1, LeastElement
    <3>. QED  BY <3>2
  <2>3. \A r \in quanta : First(quanta).requested <= r.requested
    BY <2>2 DEF First
  <2>. QED  BY <2>1, <2>3
<1> DEFINE a == First(quanta).actual  r == First(quanta).requested
<1>4. a <= r \/ a <= Least
  BY <1>1 DEF Slotted
<1>5. r \in Nat /\ a \in Nat
  BY <1>1, <1>2, SchedulerAssumption DEF Slot
<1>6. r <= MinimumQuantum /\ target' <= basetime + a
  BY <1>1, <1>3
<1>. HIDE DEF a, r
<1>7. a <= Longest
  BY <1>4, <1>5, <1>6, LongestType DEF Longest
<1>. QED  BY <1>1, <1>5, <1>6, <1>7, LongestType

\* A step that leaves the suspensions alone, and the phase as far as they are concerned.
LEMMA SameFed ==
  ASSUME Fed, UNCHANGED <<pending, saved>>, Loading' = Loading, Turning' => Turning,
         \A d \in Devices : /\ dev'[d].suspend = dev[d].suspend /\ dev'[d].eat = dev[d].eat
                            /\ dev'[d].nextsuspend = dev[d].nextsuspend
                            /\ dev'[d].nexteat = dev[d].nexteat
  PROVE  Fed'
<1>1. (WillEat(dev))' = WillEat(dev) /\ (Eating(dev))' = Eating(dev)
  BY DEF WillEat, Eating
<1>. QED  BY <1>1 DEF Fed, WillEat

LEMMA FedStep ==
  ASSUME IInv, AllEat, Fed, [Next]_vars
  PROVE  Fed'
<1>1. CASE Still
  BY <1>1, SameFed DEF Still, devVars
<1>2. CASE EmulatedCall
  <2>1. Calls
    BY <1>2, CallFacts
  <2>2. \A d \in Devices : /\ dev'[d].suspend = dev[d].suspend /\ dev'[d].eat = dev[d].eat
                           /\ dev[d].nextsuspend = {} \/ dev[d].nexteat
                                => dev'[d].nextsuspend = {} \/ dev'[d].nexteat
    BY <2>1 DEF Calls, Touched
  <2>3. WillEat(dev') /\ (Eating(dev))' = Eating(dev)
    BY <2>2 DEF Fed, WillEat, Eating
  <2>4. saved' = saved /\ Loading' = Loading /\ Turning' = Turning /\ (pending => pending')
    BY <2>1 DEF Calls, Loading, Turning
  <2>. QED  BY <2>3, <2>4 DEF Fed, WillEat
<1>3. CASE BeginSlice
  <2>1. ~Loading /\ ~Loading' /\ saved' = saved /\ Turning'
    BY <1>3, ApplyFacts DEF Loading, Turning
  <2>2. CASE ~pending /\ UNCHANGED <<dev, execList, pending>>
    <3>1. (WillEat(dev))' = WillEat(dev) /\ (Eating(dev))' = Eating(dev)
      BY <2>2 DEF WillEat, Eating
    <3>. QED  BY <2>1, <2>2, <3>1 DEF Fed, WillEat
  <2>3. CASE \A d \in Devices :
               /\ dev'[d].suspend = dev[d].nextsuspend
               /\ dev'[d].nextsuspend = dev[d].nextsuspend \ {"timeslice"}
               /\ dev'[d].eat = dev[d].nexteat /\ dev'[d].nexteat = dev[d].nexteat
    <3>1. WillEat(dev') /\ Eating(dev')
      BY <2>3 DEF Fed, WillEat, Eating
    <3>2. (WillEat(dev))' /\ (Eating(dev))'
      BY <3>1 DEF WillEat, Eating
    <3>. QED  BY <2>1, <3>2 DEF Fed, WillEat
  <2>. QED  BY <1>3, <2>2, <2>3, ApplyFacts
<1>4. ASSUME NEW d \in Devices, SkipTurn(d) PROVE Fed'
  BY <1>4, SameFed DEF SkipTurn, devVars, saveVars, Loading, Turning
<1>5. ASSUME NEW d \in Devices, SpinTurn(d) PROVE Fed'
  <2>1. MayRun(d) /\ UNCHANGED <<phase, pending, saved>> /\ Account(d, Grant(d))
    BY <1>5 DEF SpinTurn, saveVars
  <2> DEFINE ran == Grant(d)
  <2>2. Account(d, ran) /\ ran \in Nat
    BY <2>1, GrantType
  <2>. HIDE DEF ran
  <2>3. \A x \in Devices : /\ dev'[x].suspend = dev[x].suspend /\ dev'[x].eat = dev[x].eat
                           /\ dev'[x].nextsuspend = dev[x].nextsuspend
                           /\ dev'[x].nexteat = dev[x].nexteat
    BY <2>2, AccountFacts
  <2>. QED  BY <2>1, <2>3, SameFed DEF Loading, Turning
<1>6. CASE \/ \E d \in Devices : EnterDevice(d)
           \/ \E cycles \in Instructions, early \in BOOLEAN : BeginInstruction(cycles, early)
           \/ EndInstruction
  <2>1. Loading' = Loading
    BY <1>6, CountFacts DEF Turning, Loading
  <2>. QED  BY <1>6, <2>1, CountFacts, SameFed
<1>7. CASE LeaveDevice
  <2> DEFINE ran == dev[executing].running - dev[executing].icount
             d == executing
  <2>1. /\ d \in Devices /\ phase = "run" /\ phase' = "turn" /\ ran \in Nat /\ Account(d, ran)
        /\ UNCHANGED <<pending, saved>>
    BY <1>7, LeaveFacts
  <2>. HIDE DEF ran, d
  <2>2. \A x \in Devices : /\ dev'[x].suspend = dev[x].suspend /\ dev'[x].eat = dev[x].eat
                           /\ dev'[x].nextsuspend = dev[x].nextsuspend
                           /\ dev'[x].nexteat = dev[x].nexteat
    BY <2>1, AccountFacts
  <2>. QED  BY <2>1, <2>2, SameFed DEF Loading, Turning
<1>8. CASE EndSlice
  BY <1>8, SameFed DEF EndSlice, devVars, saveVars, Loading, Turning
<1>9. CASE SaveState
  <2>1. saved'.dev = dev /\ UNCHANGED <<dev, pending, phase>>
    BY <1>9 DEF SaveState, devVars
  <2>2. (WillEat(dev))' = WillEat(dev) /\ (Eating(dev))' = Eating(dev)
    BY <2>1 DEF WillEat, Eating
  <2>. QED  BY <2>1, <2>2 DEF Fed, Loading, Turning, WillEat
<1>10. CASE LoadState
  <2>1. dev' = saved.dev /\ saved # None /\ saved' = saved /\ Loading' /\ ~Turning'
    BY <1>10 DEF LoadState, Loading, Turning
  <2>. QED  BY <2>1 DEF Fed, WillEat
<1>11. CASE ReattachDone
  <2>1. pending' = TRUE /\ UNCHANGED <<dev, saved>> /\ ~Turning'
    BY <1>11 DEF ReattachDone, saveVars, Turning
  <2>. QED  BY <2>1 DEF Fed, WillEat
<1>. QED  BY <1>1, <1>2, <1>3, <1>4, <1>5, <1>6, <1>7, <1>8, <1>9, <1>10, <1>11, StillOrMoves
          DEF Moves

\* The list of devices is made anew from all of them.
LEMMA ListedStep ==
  ASSUME IInv, Listed, [Next]_vars
  PROVE  Listed'
<1>1. ASSUME execList' = execList PROVE Listed'
  BY <1>1 DEF Listed
<1>2. ASSUME NEW dv, execList' = Rebuild(dv) PROVE Listed'
  BY <1>2, RebuildHas DEF Listed
<1>3. CASE BeginSlice
  BY <1>1, <1>2, <1>3, ApplyFacts
<1>4. CASE ReattachDone
  BY <1>2, <1>4 DEF ReattachDone
<1>5. CASE Still \/ EmulatedCall \/ LeaveDevice
  BY <1>1, <1>5, CallFacts, LeaveFacts DEF Still, devVars, Calls
<1>6. CASE \/ \E d \in Devices : EnterDevice(d)
           \/ \E cycles \in Instructions, early \in BOOLEAN : BeginInstruction(cycles, early)
           \/ EndInstruction
  BY <1>1, <1>6, CountFacts
<1>7. CASE EndSlice \/ SaveState \/ LoadState \/ \E d \in Devices : SkipTurn(d) \/ SpinTurn(d)
  BY <1>1, <1>7 DEF EndSlice, SaveState, LoadState, SkipTurn, SpinTurn, devVars
<1>. QED  BY <1>3, <1>4, <1>5, <1>6, <1>7, StillOrMoves DEF Moves

LEMMA SameKeeping ==
  ASSUME IInv, Keeping(basetime, dev), saved # None => Keeping(saved.basetime, saved.dev),
         UNCHANGED <<basetime, saved>>,
         \A d \in Devices : dev'[d].localtime >= dev[d].localtime /\ dev'[d].localtime \in Nat
  PROVE  (Keeping(basetime, dev) /\ (saved # None => Keeping(saved.basetime, saved.dev)))'
<1>1. ASSUME NEW d \in Devices PROVE basetime' < dev'[d].localtime + CycleTime[d]
  BY TurnNumbers DEF Keeping
<1>. QED  BY <1>1 DEF Keeping

\* The base time and the local times come into step again at the end of a slice.
LEMMA KeepingStep ==
  ASSUME IInv, Aims, Stepping, [Next]_vars
  PROVE  (Keeping(basetime, dev) /\ (saved # None => Keeping(saved.basetime, saved.dev)))'
<1>0. Keeping(basetime, dev) /\ (saved # None => Keeping(saved.basetime, saved.dev))
  BY DEF Stepping
<1>1. \A d \in Devices : dev'[d].localtime \in Nat
  BY DevicesStep, NeverAssumption DEF DeviceRecord, Time
<1>2. CASE phase' # "detach" /\ UNCHANGED <<basetime, saved>>
  BY <1>0, <1>1, <1>2, AimsStep, SameKeeping
<1>3. CASE Still
  <2>1. \A d \in Devices : dev'[d].localtime >= dev[d].localtime
    BY <1>3, TurnNumbers DEF Still, devVars
  <2>2. UNCHANGED <<basetime, saved>>
    BY <1>3 DEF Still
  <2>. QED  BY <1>0, <1>1, <2>1, <2>2, SameKeeping
<1>4. CASE EndSlice
  <2>1. Turning /\ turn > Len(execList) /\ basetime' = target /\ UNCHANGED <<dev, saved>>
    BY <1>4 DEF EndSlice, Turning, devVars, saveVars
  <2>2. ASSUME NEW d \in Devices PROVE target < dev[d].localtime + CycleTime[d]
    <3>1. PICK i \in 1..Len(execList) : execList[i] = d
      BY DEF Stepping, Listed
    <3>2. i < turn
      <4>1. Len(execList) \in Nat /\ turn \in Nat
        BY <2>1 DEF Stepping, Listed, Reached
      <4>. QED  BY <2>1, <4>1
    <3>. QED  BY <2>1, <3>1, <3>2 DEF Stepping, Reached
  <2>. QED  BY <1>0, <2>1, <2>2 DEF Keeping
<1>5. CASE SaveState
  <2>1. saved'.dev = dev /\ saved'.basetime = basetime /\ UNCHANGED <<dev, basetime>>
    BY <1>5 DEF SaveState, devVars
  <2>. QED  BY <1>0, <2>1 DEF Keeping
<1>6. CASE LoadState
  <2>1. dev' = saved.dev /\ basetime' = saved.basetime /\ saved # None /\ saved' = saved
    BY <1>6 DEF LoadState
  <2>. QED  BY <1>0, <2>1 DEF Keeping
<1>7. CASE EmulatedCall \/ BeginSlice \/ LeaveDevice
  <2>1. phase' # "detach" /\ UNCHANGED <<basetime, saved>>
    BY <1>7, CallFacts, ApplyFacts, LeaveFacts DEF Calls
  <2>. QED  BY <1>2, <2>1
<1>8. CASE \/ \E d \in Devices : EnterDevice(d)
           \/ \E cycles \in Instructions, early \in BOOLEAN : BeginInstruction(cycles, early)
           \/ EndInstruction
  <2>1. Turning' /\ UNCHANGED <<basetime, saved>>
    BY <1>8, CountFacts
  <2>. QED  BY <1>2, <2>1 DEF Turning
<1>9. CASE \E d \in Devices : SkipTurn(d) \/ SpinTurn(d)
  <2>1. phase' # "detach" /\ UNCHANGED <<basetime, saved>>
    BY <1>9 DEF SkipTurn, SpinTurn, Turn, saveVars
  <2>. QED  BY <1>2, <2>1
<1>10. CASE ReattachDone
  <2>1. phase' # "detach" /\ UNCHANGED <<basetime, saved>>
    BY <1>10 DEF ReattachDone, saveVars
  <2>. QED  BY <1>2, <2>1
<1>. QED  BY <1>3, <1>4, <1>5, <1>6, <1>7, <1>8, <1>9, <1>10, StillOrMoves DEF Moves

\* A device whose turn is over.
LEMMA AccountReaches ==
  ASSUME IInv, Aims, Stepping, Turning, NEW d \in Devices, NEW ran \in Nat, Account(d, ran),
         turn <= Len(execList), execList[turn] = d, UNCHANGED <<execList, basetime>>,
         executing' = None
  PROVE  Reached'
<1> DEFINE t == target  l == dev[d].localtime  c == CycleTime[d]  b == basetime
           m == dev'[d].localtime  u == target'
<1>1. /\ m >= l /\ m \in Nat /\ turn' = turn + 1
      /\ \A x \in Devices \ {d} : dev'[x] = dev[x]
      /\ u = IF m < t THEN (IF m > b THEN m ELSE b) ELSE t
  BY AccountFacts
<1>2. /\ c \in Nat \ {0} /\ t \in Nat /\ b \in Nat /\ l \in Nat
  BY TurnNumbers
<1>3. b <= t /\ b < l + c /\ t <= b + Longest /\ turn \in Nat \ {0}
      /\ execList \in Seq(Devices) /\ Len(execList) \in Nat
  BY DEF Aims, Stepping, Keeping, Reached, Listed
<1>. HIDE DEF t, l, c, b, m, u
<1>4. u <= t /\ u < m + c /\ u \in Nat /\ u <= b + Longest
  BY <1>1, <1>2, <1>3, LongestType
<1>5. ASSUME NEW i \in 1..Len(execList), i < turn + 1
      PROVE  u < dev'[execList[i]].localtime + CycleTime[execList[i]]
  <2>1. CASE execList[i] = d
    BY <1>4, <2>1 DEF m, c
  <2>2. CASE execList[i] # d
    <3> DEFINE x == execList[i]
    <3>1. x \in Devices
      BY <1>3, ElementOfSeq
    <3>2. i # turn
      BY <2>2
    <3>3. i < turn
      BY <1>3, <1>5, <3>2
    <3>4. t < dev[x].localtime + CycleTime[x]
      BY <3>3 DEF Stepping, Reached, t
    <3>5. dev'[x] = dev[x] /\ dev[x].localtime \in Nat /\ CycleTime[x] \in Nat
      BY <1>1, <2>2, <3>1, TurnNumbers
    <3>. HIDE DEF x
    <3>6. u < dev'[x].localtime + CycleTime[x]
      BY <1>2, <1>4, <3>4, <3>5
    <3>. QED  BY <3>6 DEF x
  <2>. QED  BY <2>1, <2>2
<1>. QED  BY <1>1, <1>3, <1>4, <1>5 DEF Reached, b, u

LEMMA ReachedStep ==
  ASSUME IInv, Aims, Paced, Stepping, [Next]_vars, Turning'
  PROVE  Reached'
<1>0. /\ phase \in {"run", "instruction"} <=> executing # None
      /\ execList \in Seq(Devices) /\ Len(execList) \in Nat
  BY DEF IInv, Control, Stepping, Listed
<1>1. ASSUME Turning, UNCHANGED <<execList, basetime, target, turn, executing>>,
             \A d \in Devices : dev'[d].localtime = dev[d].localtime
      PROVE  Reached'
  <2>1. \A i \in 1..Len(execList) : execList[i] \in Devices
    BY <1>0, ElementOfSeq
  <2>. QED  BY <1>1, <2>1 DEF Stepping, Reached
<1>2. CASE Still
  <2>1. Turning /\ UNCHANGED <<dev, execList, basetime, target, turn, executing>>
    BY <1>2 DEF Still, devVars
  <2>. QED  BY <1>1, <2>1
<1>3. CASE EmulatedCall
  <2>1. Calls
    BY <1>3, CallFacts
  <2>2. Turning /\ \A d \in Devices : dev'[d].localtime = dev[d].localtime
    BY <2>1 DEF Calls, Touched, Turning
  <2>. QED  BY <1>1, <2>1, <2>2 DEF Calls
<1>4. CASE BeginSlice
  <2>1. target' <= basetime + Longest /\ turn' = 1 /\ executing' = None /\ basetime' = basetime
    BY <1>4, LongestFacts, ApplyFacts DEF Stepping
  <2>2. \A i \in 1..Len(execList') : ~(i < 1)
    OBVIOUS
  <2>. QED  BY <2>1, <2>2 DEF Reached
<1>5. ASSUME NEW d \in Devices, SkipTurn(d) PROVE Reached'
  <2>1. /\ Turning /\ executing = None /\ executing' = None /\ turn <= Len(execList)
        /\ execList[turn] = d /\ ~MayRun(d) /\ turn' = turn + 1
        /\ UNCHANGED <<dev, execList, basetime, target>>
    BY <1>0, <1>5 DEF SkipTurn, Turn, Turning, devVars
  <2>2. target < dev[d].localtime + CycleTime[d]
    BY <2>1, DeltaFacts
  <2>3. Reached
    BY <2>1 DEF Stepping
  <2>4. ASSUME NEW i \in 1..Len(execList), i < turn + 1
        PROVE  target < dev[execList[i]].localtime + CycleTime[execList[i]]
    <3>1. CASE i = turn
      BY <2>1, <2>2, <3>1
    <3>2. CASE i # turn
      <4>1. i < turn
        BY <2>3, <2>4, <3>2 DEF Reached
      <4>. QED  BY <2>3, <4>1 DEF Reached
    <3>. QED  BY <3>1, <3>2
  <2>. QED  BY <2>1, <2>3, <2>4 DEF Reached
<1>6. ASSUME NEW d \in Devices, SpinTurn(d) PROVE Reached'
  <2>1. /\ MayRun(d) /\ Account(d, Grant(d)) /\ Turning /\ executing' = None
        /\ turn <= Len(execList) /\ execList[turn] = d /\ UNCHANGED <<execList, basetime>>
    BY <1>0, <1>6 DEF SpinTurn, Turn, Turning
  <2>2. Grant(d) \in Nat
    BY <2>1, GrantType
  <2>. QED  BY <2>1, <2>2, AccountReaches
<1>7. ASSUME NEW d \in Devices, EnterDevice(d) PROVE Reached'
  <2>1. /\ executing' = d /\ turn <= Len(execList) /\ execList[turn] = d
    BY <1>7 DEF EnterDevice, Turn
  <2>2. /\ Turning /\ UNCHANGED <<execList, basetime, target, turn>>
        /\ \A x \in Devices : dev'[x].localtime = dev[x].localtime
    BY <1>7, CountFacts
  <2>3. \A i \in 1..Len(execList) : execList[i] \in Devices
    BY <1>0, ElementOfSeq
  <2>4. Reached
    BY <2>2 DEF Stepping
  <2>. QED  BY <2>1, <2>2, <2>3, <2>4 DEF Reached
<1>8. CASE \/ \E cycles \in Instructions, early \in BOOLEAN : BeginInstruction(cycles, early)
           \/ EndInstruction
  <2>1. /\ Turning /\ UNCHANGED <<execList, basetime, target, turn>>
        /\ \A x \in Devices : dev'[x].localtime = dev[x].localtime
    BY <1>8, CountFacts
  <2>2. executing' = executing
    BY <1>8 DEF BeginInstruction, EndInstruction
  <2>. QED  BY <1>1, <2>1, <2>2
<1>9. CASE LeaveDevice
  <2>1. /\ executing \in Devices /\ executing # None /\ Turning /\ executing' = None
        /\ dev[executing].running - dev[executing].icount \in Nat
        /\ Account(executing, dev[executing].running - dev[executing].icount)
        /\ UNCHANGED <<execList, basetime>>
    BY <1>0, <1>9, LeaveFacts DEF Turning
  <2>2. turn <= Len(execList) /\ execList[turn] = executing
    BY <2>1 DEF Stepping, Reached
  <2>. QED  BY <2>1, <2>2, AccountReaches
<1>10. ~(EndSlice \/ SaveState \/ LoadState \/ ReattachDone)
  BY DEF EndSlice, SaveState, LoadState, ReattachDone, Turning
<1>. QED  BY <1>2, <1>3, <1>4, <1>5, <1>6, <1>7, <1>8, <1>9, <1>10, StillOrMoves DEF Moves

LEMMA SteppingStep ==
  ASSUME IInv, Aims, Paced, Stepping, [Next]_vars
  PROVE  Stepping'
<1>1. Fed' /\ Slotted' /\ Listed'
  BY FedStep, SlottedStep, ListedStep DEF Stepping, Paced
<1>. QED  BY <1>1, KeepingStep, ReachedStep DEF Stepping

LEMMA SteppingInit == Init => Stepping
<1> SUFFICES ASSUME Init PROVE Stepping
  OBVIOUS
<1>1. Keeping(basetime, dev)
  <2>1. \A d \in Devices : CycleTime[d] \in Nat \ {0} /\ dev[d].localtime = 0 /\ basetime = 0
    BY SchedulerAssumption DEF Init, StartedDevice
  <2>. QED  BY <2>1 DEF Keeping
<1>2. Fed
  BY DEF Init, Fed, WillEat, StartedDevice, Turning
<1>3. Slotted
  <2>1. quanta = AddQuantum({}, 0, MinimumQuantum, Never, Least) /\ minimum = Least
    BY DEF Init, CoreQuantum, Least
  <2>2. \A q \in quanta : q.actual <= q.requested \/ q.actual <= Least
    BY <2>1, AddQuantumSlots, LongestType
  <2>. QED  BY <2>1, <2>2 DEF Slotted
<1>4. Listed
  <2>1. execList = DeviceOrder /\ DeviceOrder \in Seq(Devices)
    BY SchedulerAssumption DEF Init
  <2>. QED  BY <2>1 DEF Listed, Devices
<1>5. saved = None /\ ~Turning
  BY DEF Init, Turning
<1>. QED  BY <1>1, <1>2, <1>3, <1>4, <1>5 DEF Stepping

\* The difference timeslice() computes from the attosecond parts is the time to the
\* target (the assertion at schedule.cpp:453), if every suspension asked for eats its
\* cycles and a slice and a cycle fit into a second.
THEOREM DeltaIsExact == ASSUME Paced PROVE Spec => []DeltaExact
<1>1. IInv /\ Aims /\ [Next]_vars => Aims'
  BY AimsStep
<1>2. IInv /\ Aims /\ Stepping /\ [Next]_vars => Stepping'
  BY SteppingStep
<1>3. ASSUME IInv, Stepping PROVE DeltaExact
  <2>1. SUFFICES ASSUME NEW d \in Devices, Turn(d), Eligible(d)
                 PROVE  Delta(d) = target - dev[d].localtime
    BY DEF DeltaExact
  <2>2. Turning
    BY <2>1 DEF Turn, Turning
  <2>. QED  BY <1>3, <2>1, <2>2, DeltaFacts
<1>4. IInv /\ Stepping => DeltaExact
  BY <1>3
<1>. QED  BY <1>1, <1>2, <1>4, AimsInit, SteppingInit, Invariance, PTL DEF Spec

-----------------------------------------------------------------------------
(* How far a device runs.                                                  *)

LongestInstruction == Max(Instructions)
SlowestCycle == Max({CycleTime[d] : d \in Devices})

\* No instruction is longer than some instruction.
Bounded == \E m \in Instructions : \A i \in Instructions : i <= m

\* A device is not granted a cycle more than the time to the target has: the divisor
\* that stands for its cycle time is exact, or is long enough for a second.
Fine == \A d \in Devices :
          DivScale[d] = 1 \/ (CycleTime[d] \div DivScale[d]) * CycleTime[d] >= Second

\* Cycles are not eaten, or the divisors are exact.
Exact == EatArgs = {} \/ \A d \in Devices : DivScale[d] = 1

Steady == Paced /\ Bounded /\ Fine /\ Exact

\* The cycles a device may run past those it is granted.
Extra == IF EatArgs = {} THEN LongestInstruction - 1 ELSE LongestInstruction

Near(base, dv) == \A d \in Devices : dv[d].localtime <= base + Longest + Overshoot

\* What the current instruction still costs.
Owing == owed <= LongestInstruction /\ (phase # "instruction" => owed = 0)

\* The cycles the executing device has run with the current instruction.
Done == dev[executing].running - dev[executing].icount + owed

\* The executing device does not run more than an instruction too far.
Ranging ==
  executing # None =>
    /\ Done <= granted + Extra
    /\ dev[executing].icount > 0 => dev[executing].running <= granted
    /\ dev[executing].localtime + (granted + Extra) * CycleTime[executing] <= target + Overshoot

Reaching == Ranging /\ Near(basetime, dev) /\ (saved # None => Near(saved.basetime, saved.dev))

LEMMA MaxFacts ==
  ASSUME NEW S, S \subseteq Nat, \E m \in S : \A i \in S : i <= m
  PROVE  Max(S) \in S /\ \A i \in S : i <= Max(S)
<1>1. \E m \in S : \A i \in S : m >= i
  OBVIOUS
<1>. QED  BY <1>1 DEF Max

\* The longest instruction and the slowest device.
LEMMA Extremes ==
  /\ SlowestCycle \in Nat \ {0} /\ \A d \in Devices : CycleTime[d] <= SlowestCycle
  /\ Bounded => /\ LongestInstruction \in Instructions /\ LongestInstruction \in Nat \ {0}
                /\ \A i \in Instructions : i <= LongestInstruction
                /\ Overshoot \in Nat /\ Extra \in Nat
                /\ \A d \in Devices : LongestInstruction * CycleTime[d] <= Overshoot
                /\ \A d \in Devices : CycleTime[d] <= Overshoot
<1> DEFINE S == {CycleTime[d] : d \in Devices}
           T == {k \in Nat : \A i \in S : i <= k}
<1>1. S \subseteq Nat \ {0} /\ S # {} /\ (\A i \in S : i <= Second) /\ Second \in Nat
  BY SchedulerAssumption
<1>2. \E m \in S : \A i \in S : i <= m
  <2>1. T \subseteq Nat /\ T # {}
    BY <1>1
  <2>2. PICK k \in T : \A y \in T : k <= y
    <3>. HIDE DEF T
    <3>. QED  BY <2>1, LeastElement
  <2>3. CASE k \in S
    BY <2>2, <2>3
  <2>4. CASE k \notin S
    <3>. HIDE DEF S
    <3>1. k \in Nat /\ \A i \in S : i <= k /\ i \in Nat /\ i # 0 /\ i # k
      BY <1>1, <2>2, <2>4
    <3>2. PICK i \in S : TRUE
      BY <1>1
    <3>3. k - 1 \in Nat
      BY <3>1, <3>2
    <3>4. \A j \in S : j <= k - 1
      BY <3>1
    <3>5. k - 1 \in T
      BY <3>3, <3>4
    <3>6. k <= k - 1
      BY <2>2, <3>5
    <3>. QED  BY <3>1, <3>6
  <2>. QED  BY <2>3, <2>4
<1>3. SlowestCycle \in S /\ \A i \in S : i <= SlowestCycle
  <2>1. SlowestCycle = Max(S)
    BY DEF SlowestCycle
  <2>. HIDE DEF S
  <2>. QED  BY <1>1, <1>2, <2>1, MaxFacts
<1>4. SlowestCycle \in Nat \ {0} /\ \A d \in Devices : CycleTime[d] <= SlowestCycle
  BY <1>1, <1>3
<1>5. ASSUME Bounded
      PROVE  /\ LongestInstruction \in Instructions /\ LongestInstruction \in Nat \ {0}
             /\ \A i \in Instructions : i <= LongestInstruction
             /\ Overshoot \in Nat /\ Extra \in Nat
             /\ \A d \in Devices : LongestInstruction * CycleTime[d] <= Overshoot
             /\ \A d \in Devices : CycleTime[d] <= Overshoot
  <2>1. Instructions \subseteq Nat \ {0}
    BY SchedulerAssumption
  <2>2. LongestInstruction \in Instructions /\ \A i \in Instructions : i <= LongestInstruction
    BY <1>5, <2>1, MaxFacts DEF Bounded, LongestInstruction
  <2> DEFINE m == LongestInstruction  x == SlowestCycle
  <2>3. Overshoot = m * x
    BY DEF Overshoot, LongestInstruction, SlowestCycle
  <2>4. m \in Nat \ {0} /\ x \in Nat \ {0}
    BY <1>4, <2>1, <2>2
  <2>5. Extra \in Nat
    BY <2>4 DEF Extra
  <2>6. ASSUME NEW d \in Devices PROVE m * CycleTime[d] <= m * x /\ CycleTime[d] <= m * x
    <3> DEFINE c == CycleTime[d]
    <3>1. c \in Nat \ {0} /\ c <= x
      BY <1>1, <1>4
    <3>. HIDE DEF m, x, c
    <3>2. m * (x - c) \in Nat /\ m * (x - c) = m * x - m * c /\ m * c \in Nat /\ m * x \in Nat
      BY <2>4, <3>1
    <3>3. (m - 1) * c \in Nat /\ (m - 1) * c = m * c - c
      BY <2>4, <3>1
    <3>4. m * c <= m * x /\ c <= m * x
      BY <2>4, <3>1, <3>2, <3>3
    <3>. QED  BY <3>4 DEF c
  <2>7. m * x \in Nat
    <3>. HIDE DEF m, x
    <3>. QED  BY <2>4
  <2>. QED  BY <2>2, <2>3, <2>4, <2>5, <2>6, <2>7
<1>. QED  BY <1>4, <1>5

\* timeslice's fixed-point division grants less than a cycle too much.
LEMMA Division ==
  ASSUME NEW x \in Nat, NEW c \in Nat \ {0}, NEW s \in 1..c, NEW g, g = CyclesIn(x, c, s),
         NEW second \in Nat, x < second
  PROVE  /\ g \in Nat
         /\ s = 1 => g * c <= x
         /\ s = 1 \/ (c \div s) * c >= second => g * c < x + c
<1> DEFINE q == c \div s  r == c % s  y == x \div s
<1>1. q \in Nat \ {0}
  BY QuotientType
<1>2. c = s * q + r /\ r \in 0..(s - 1) /\ x = s * y + (x % s) /\ x % s \in Nat /\ y \in Nat
  OBVIOUS
<1>3. g = y \div q
  BY DEF CyclesIn
<1>4. s * y <= x /\ s * y \in Nat
  BY <1>2
<1>5. q * g <= y /\ g \in Nat
  <2>. HIDE DEF q, y
  <2>. QED  BY <1>1, <1>2, <1>3
<1>. HIDE DEF q, r, y
<1>6. s * (q * g) <= s * y /\ s * (q * g) \in Nat
  <2>1. q * g \in Nat /\ y - q * g \in Nat
    BY <1>1, <1>2, <1>5
  <2> DEFINE z == q * g
  <2>2. z \in Nat /\ y - z \in Nat
    BY <2>1
  <2>. HIDE DEF z
  <2>3. s * (y - z) \in Nat /\ s * (y - z) = s * y - s * z /\ s * z \in Nat
    BY <1>2, <2>2
  <2>4. s * z <= s * y
    BY <1>4, <2>3
  <2>. QED  BY <2>3, <2>4 DEF z
<1>7. g * c = s * (q * g) + g * r
  BY <1>1, <1>2, <1>5
<1>8. g * r \in Nat /\ g * s \in Nat /\ g * r <= g * s
  <2>1. g * (s - r) \in Nat /\ g * (s - r) = g * s - g * r
    BY <1>2, <1>5
  <2>. QED  BY <1>2, <1>5, <2>1
<1>9. ASSUME s = 1 PROVE g * c <= x
  <2>1. r = 0
    BY <1>2, <1>9
  <2>2. g * r = 0
    BY <1>5, <2>1
  <2>. QED  BY <1>4, <1>6, <1>7, <2>2
<1>10. ASSUME q * c >= second PROVE g * c < x + c
  <2>1. s * (q * g) < q * c
    <3>1. q * c \in Nat
      BY <1>1
    <3>. QED  BY <1>4, <1>6, <1>10, <3>1
  <2>2. g * s < c
    <3>1. SUFFICES ASSUME g * s >= c PROVE FALSE
      BY <1>8
    <3> DEFINE h == g * s
    <3>2. h \in Nat /\ h - c \in Nat
      BY <1>8, <3>1
    <3>3. s * (q * g) = q * h
      BY <1>1, <1>5
    <3>. HIDE DEF h
    <3>4. q * (h - c) \in Nat /\ q * (h - c) = q * h - q * c /\ q * h \in Nat /\ q * c \in Nat
      BY <1>1, <3>2
    <3>. QED  BY <2>1, <3>3, <3>4
  <2>. QED  BY <1>4, <1>6, <1>7, <1>8, <2>2
<1>11. s = 1 => g * c < x + c
  <2>1. g * c \in Nat
    BY <1>5
  <2>. QED  BY <1>9, <2>1
<1>. QED  BY <1>5, <1>9, <1>10, <1>11 DEF q

LEMMA OwingStep ==
  ASSUME IInv, Bounded, Owing, [Next]_vars
  PROVE  Owing'
<1>0. /\ LongestInstruction \in Nat /\ \A i \in Instructions : i <= LongestInstruction
      /\ LongestInstruction' = LongestInstruction
  BY Extremes DEF LongestInstruction
<1>1. CASE EmulatedCall
  BY <1>0, <1>1, CallFacts DEF Calls, Owing
<1>2. CASE \E cycles \in Instructions, early \in BOOLEAN : BeginInstruction(cycles, early)
  <2>1. PICK cycles \in Instructions, early \in BOOLEAN : BeginInstruction(cycles, early)
    BY <1>2
  <2>2. phase' = "instruction" /\ (owed' = 0 \/ owed' = cycles)
    BY <2>1 DEF BeginInstruction
  <2>. QED  BY <1>0, <2>2 DEF Owing
<1>3. CASE EndInstruction
  BY <1>0, <1>3 DEF EndInstruction, Owing
<1>4. CASE \E d \in Devices : SkipTurn(d) \/ SpinTurn(d) \/ EnterDevice(d)
  BY <1>0, <1>4 DEF SkipTurn, SpinTurn, EnterDevice, Turn, Owing
<1>5. CASE BeginSlice \/ LeaveDevice \/ EndSlice \/ SaveState \/ LoadState \/ ReattachDone
  BY <1>0, <1>5 DEF BeginSlice, LeaveDevice, EndSlice, SaveState, LoadState, ReattachDone, sliceVars,
                    Owing
<1>6. CASE Still
  <2>1. owed' = owed /\ Turning' = Turning
    BY <1>6 DEF Still
  <2>2. owed # 0 => phase = "instruction" /\ executing # None
    BY DEF Owing, IInv, Control
  <2>3. owed # 0 => phase' \in {"run", "instruction"}
    BY <1>6, <2>2, StepInv DEF Still, IInv, Control
  <2>4. owed # 0 => phase' # "run"
    <3>1. [Next]_vars /\ phase = "instruction" /\ phase' = "run" => EndInstruction
      <4>1. EmulatedCall => phase' = phase
        BY CallFacts DEF Calls
      <4>. QED
        BY <4>1
        DEF Next, Step, vars, Stop, TimerAlloc, StartDone, Timeslice, BeginSlice, SkipTurn, SpinTurn,
            EnterDevice, Turn, BeginInstruction, LeaveDevice, EndSlice, SlicesDone, StartCallback,
            SkipDisabled, HeadDue, EndCallback, TimersDone, SaveState, LoadState, DetachTimer,
            DetachDone, ReattachTimer, ReattachDone
    <3>2. EndInstruction => owed' = 0
      BY DEF EndInstruction
    <3>. QED  BY <2>1, <2>2, <3>1, <3>2
  <2>. QED  BY <1>0, <2>1, <2>3, <2>4 DEF Owing
<1>. QED  BY <1>1, <1>2, <1>3, <1>4, <1>5, <1>6, StillOrMoves DEF Moves

\* A device that is granted its cycles ends its turn in reach of the target.
LEMMA GrantReaches ==
  ASSUME IInv, Paced, Stepping, Turning, NEW d \in Devices, MayRun(d)
  PROVE  /\ Grant(d) \in Nat /\ dev[d].localtime <= target
         /\ Fine => dev[d].localtime + Grant(d) * CycleTime[d] < target + CycleTime[d]
         /\ DivScale[d] = 1 => dev[d].localtime + Grant(d) * CycleTime[d] <= target
<1> DEFINE x == Delta(d)  c == CycleTime[d]  s == DivScale[d]  g == Grant(d)
           t == target  l == dev[d].localtime
<1>1. Eligible(d) /\ x >= c
  BY DEF MayRun
<1>2. x = t - l
  BY <1>1, DeltaFacts
<1>3. /\ c \in Nat \ {0} /\ c < Second /\ Second \in Nat /\ t \in Nat /\ l \in Nat
      /\ basetime \in Nat /\ s \in 1..c
  BY TurnNumbers, SchedulerAssumption
<1>4. x < Second
  <2>1. basetime < l + c /\ t <= basetime + Longest /\ Longest + c <= Second
    BY DEF Stepping, Keeping, Reached, Paced
  <2>. QED  BY <1>2, <1>3, <2>1, LongestType
<1>5. x \in Nat
  BY <1>1, <1>2, <1>3
<1>6. g = CyclesIn(x, c, s)
  BY DEF Grant
<1>7. Fine => s = 1 \/ (c \div s) * c >= Second
  BY DEF Fine
<1>. HIDE DEF x, c, s, g, t, l
<1>8. g \in Nat /\ (s = 1 => g * c <= x) /\ (Fine => g * c < x + c)
  BY <1>3, <1>4, <1>5, <1>6, <1>7, Division
<1>9. g * c \in Nat
  BY <1>3, <1>8
<1>10. l <= t /\ (Fine => l + g * c < t + c) /\ (s = 1 => l + g * c <= t)
  BY <1>2, <1>3, <1>5, <1>8, <1>9
<1>. QED  BY <1>8, <1>10 DEF x, c, s, g, t, l

\* A call leaves the executing device in reach.
LEMMA SpentReaches ==
  ASSUME NEW d \in DeviceRecord, NEW e \in DeviceRecord, Spent(d, e), NEW o \in Nat, NEW g \in Nat,
         Bounded, o <= LongestInstruction,
         d.running - d.icount + o <= g + Extra, d.icount > 0 => d.running <= g
  PROVE  e.running - e.icount + o <= g + Extra /\ (e.icount > 0 => e.running <= g)
<1>1. d.running \in Nat /\ d.icount \in Int /\ e.running \in Nat /\ e.icount \in Int
  BY DEF DeviceRecord
<1>2. LongestInstruction \in Nat /\ Extra \in Nat
  BY Extremes
<1>3. CASE e.running - e.icount = d.running - d.icount
           /\ (e.icount = 0 \/ (e.icount = d.icount /\ e.running = d.running))
  BY <1>1, <1>2, <1>3
<1>4. CASE \E cycles \in EatArgs :
             e.running = d.running /\ e.icount = IF cycles > d.icount THEN 0 ELSE d.icount - cycles
  <2>1. PICK cycles \in EatArgs :
             e.running = d.running /\ e.icount = IF cycles > d.icount THEN 0 ELSE d.icount - cycles
    BY <1>4
  <2>2. cycles \in Nat /\ Extra = LongestInstruction
    BY SchedulerAssumption DEF Extra
  <2> DEFINE m == LongestInstruction  i == d.icount  r == d.running  j == e.icount
  <2>3. /\ m \in Nat /\ i \in Int /\ r \in Nat /\ j = IF cycles > i THEN 0 ELSE i - cycles
        /\ r - i + o <= g + m /\ (i > 0 => r <= g) /\ o <= m
    BY <1>1, <1>2, <2>1, <2>2
  <2>. HIDE DEF m, i, r, j
  <2>4. r - j + o <= g + m /\ (j > 0 => r <= g)
    BY <2>2, <2>3
  <2>. QED  BY <2>1, <2>2, <2>4 DEF m, i, r, j
<1>. QED  BY <1>3, <1>4 DEF Spent

\* What a device runs in its turn does not take it out of reach.
LEMMA RanReaches ==
  ASSUME IInv, Bounded, Ranging, Owing, LeaveDevice
  PROVE  dev'[executing].localtime <= target + Overshoot
<1> DEFINE d == executing  r == dev[executing].running - dev[executing].icount
           c == CycleTime[executing]  l == dev[executing].localtime  g == granted + Extra
           t == target
<1>1. d \in Devices /\ phase = "run" /\ r \in Nat /\ Account(d, r) /\ d # None
  BY LeaveFacts, SchedulerAssumption
<1>2. c \in Nat \ {0} /\ l \in Nat /\ t \in Nat /\ Never \in Nat
  BY <1>1, TurnNumbers
<1>3. g \in Nat /\ Overshoot \in Nat
  BY Extremes DEF IInv, TypeOK
<1>4. r <= g /\ l + g * c <= t + Overshoot
  <2>1. owed = 0
    BY <1>1 DEF Owing
  <2>2. Done = r
    BY <1>1, <2>1 DEF Done
  <2>. QED  BY <1>1, <2>2 DEF Ranging
<1>5. dev'[d].localtime = Plus(l, r * c)
  BY <1>1, AccountFacts
<1>. HIDE DEF d, r, c, l, g, t
<1>6. (g - r) * c \in Nat /\ (g - r) * c = g * c - r * c /\ r * c \in Nat /\ g * c \in Nat
  BY <1>1, <1>2, <1>3, <1>4
<1> DEFINE x == r * c  y == g * c
<1>7. x \in Nat /\ y \in Nat /\ x <= y /\ l + y <= t + Overshoot /\ dev'[d].localtime = Plus(l, x)
  BY <1>4, <1>5, <1>6
<1>. HIDE DEF x, y
<1>8. Plus(l, x) <= l + x
  BY <1>2, <1>7 DEF Plus
<1>9. dev'[d].localtime <= t + Overshoot
  <2>1. Plus(l, x) \in Int
    BY <1>2, <1>7 DEF Plus
  <2>. QED  BY <1>2, <1>3, <1>7, <1>8, <2>1
<1>. QED  BY <1>9 DEF d, t

LEMMA RangingStep ==
  ASSUME IInv, Steady, Stepping, Owing, Ranging, [Next]_vars
  PROVE  Ranging'
<1>0. /\ phase \in {"run", "instruction"} <=> executing # None
      /\ executing # None => executing \in Devices
      /\ dev \in [Devices -> DeviceRecord] /\ granted \in Nat /\ owed \in Nat
      /\ target \in Nat
  BY NeverAssumption DEF IInv, TypeOK, Control
<1>1. Extra' = Extra /\ Overshoot' = Overshoot /\ Extra \in Nat
      /\ LongestInstruction \in Nat /\ \A i \in Instructions : i <= LongestInstruction
      /\ LongestInstruction - 1 <= Extra
  BY Extremes DEF Extra, Overshoot, Steady, LongestInstruction
<1>2. CASE executing' = None
  BY <1>2 DEF Ranging
<1>3. CASE Still
  BY <1>1, <1>3 DEF Still, devVars, Ranging, Done
<1>4. CASE EmulatedCall /\ executing' # None
  <2>1. Calls
    BY <1>4, CallFacts
  <2> DEFINE d == dev[executing]  e == dev'[executing]
  <2>2. executing' = executing /\ UNCHANGED <<granted, owed, target>> /\ executing \in Devices
    BY <1>0, <1>4, <2>1 DEF Calls
  <2>3. /\ d \in DeviceRecord /\ e \in DeviceRecord /\ Spent(d, e) /\ e.localtime = d.localtime
    BY <1>0, <2>1, <2>2 DEF Calls, Touched
  <2>4. owed <= LongestInstruction /\ executing # None
    BY <1>4, <2>2 DEF Owing
  <2>5. d.running - d.icount + owed <= granted + Extra /\ (d.icount > 0 => d.running <= granted)
    BY <2>4 DEF Ranging, Done
  <2>6. e.running - e.icount + owed <= granted + Extra /\ (e.icount > 0 => e.running <= granted)
    <3>. HIDE DEF d, e
    <3>. QED  BY <1>0, <2>3, <2>4, <2>5, SpentReaches DEF Steady
  <2>7. d.localtime + (granted + Extra) * CycleTime[executing] <= target + Overshoot
    BY <2>4 DEF Ranging
  <2>. QED  BY <1>1, <2>2, <2>3, <2>6, <2>7 DEF Ranging, Done
<1>5. ASSUME NEW d \in Devices, EnterDevice(d) PROVE Ranging'
  <2> DEFINE g == Grant(d)  c == CycleTime[d]  l == dev[d].localtime  t == target
  <2>1. /\ Turning /\ MayRun(d) /\ granted' = g /\ executing' = d /\ UNCHANGED <<target, owed>>
        /\ phase = "turn"
        /\ dev' = [dev EXCEPT ![d] = [@ EXCEPT !.running = g, !.icount = g, !.stolen = 0]]
    BY <1>5 DEF EnterDevice, Turn, Turning
  <2>2. /\ g \in Nat /\ l + g * c < t + c /\ (DivScale[d] = 1 => l + g * c <= t)
    BY <2>1, GrantReaches DEF Steady
  <2>3. owed = 0
    BY <2>1 DEF Owing
  <2>4. dev'[d].running = g /\ dev'[d].icount = g /\ dev'[d].localtime = l
    <3>1. dev[d] \in DeviceRecord
      BY <1>0
    <3> DEFINE r == dev[d]  e == [r EXCEPT !.running = g, !.icount = g, !.stolen = 0]
    <3>2. dev'[d] = e /\ r \in DeviceRecord
      BY <1>0, <2>1, <3>1
    <3>. HIDE DEF r, g
    <3>3. e.running = g /\ e.icount = g /\ e.localtime = r.localtime
      BY <3>2 DEF DeviceRecord
    <3>. HIDE DEF e
    <3>. QED  BY <3>2, <3>3 DEF r
  <2> DEFINE m == LongestInstruction
  <2>5. c \in Nat \ {0} /\ l \in Nat /\ t \in Nat /\ m * c <= Overshoot /\ Overshoot \in Nat
        /\ m \in Nat \ {0}
    BY TurnNumbers, Extremes DEF Steady
  <2>6. l + (g + Extra) * c <= t + Overshoot
    <3>1. CASE EatArgs = {}
      <4>1. Extra = m - 1
        BY <3>1 DEF Extra
      <4>. HIDE DEF g, c, l, t, m
      <4>2. (g + Extra) * c = g * c + m * c - c /\ g * c \in Nat /\ m * c \in Nat
        BY <2>2, <2>5, <4>1
      <4> DEFINE x == g * c  y == m * c  z == (g + Extra) * c
      <4>3. x \in Nat /\ y \in Nat /\ z = x + y - c /\ l + x < t + c /\ y <= Overshoot
        BY <2>2, <2>5, <4>2
      <4>. HIDE DEF x, y, z
      <4>4. l + z <= t + Overshoot
        BY <2>5, <4>3
      <4>. QED  BY <4>4 DEF z
    <3>2. CASE EatArgs # {}
      <4>1. Extra = m /\ DivScale[d] = 1
        BY <3>2 DEF Extra, Steady, Exact
      <4>. HIDE DEF g, c, l, t, m
      <4>2. (g + Extra) * c = g * c + m * c /\ g * c \in Nat /\ m * c \in Nat
        BY <2>2, <2>5, <4>1
      <4> DEFINE x == g * c  y == m * c  z == (g + Extra) * c
      <4>3. x \in Nat /\ y \in Nat /\ z = x + y /\ l + x <= t /\ y <= Overshoot
        BY <2>2, <2>5, <4>1, <4>2
      <4>. HIDE DEF x, y, z
      <4>4. l + z <= t + Overshoot
        BY <2>5, <4>3
      <4>. QED  BY <4>4 DEF z
    <3>. QED  BY <3>1, <3>2
  <2>. HIDE DEF g, c, l, t
  <2>7. g - g + 0 <= g + Extra
    BY <1>1, <2>2
  <2>. QED  BY <1>1, <2>1, <2>2, <2>3, <2>4, <2>6, <2>7 DEF Ranging, Done, c, t
<1>6. ASSUME NEW i \in Int, executing # None, UNCHANGED <<executing, granted, target>>,
             dev' = [dev EXCEPT ![executing].icount = i],
             dev[executing].running - i + owed' <= granted + Extra,
             i > 0 => dev[executing].running <= granted
      PROVE  Ranging'
  <2> DEFINE r == dev[executing]  e == [r EXCEPT !.icount = i]
  <2>1. r \in DeviceRecord /\ dev'[executing] = e
    BY <1>0, <1>6
  <2>. HIDE DEF r
  <2>2. e.running = r.running /\ e.icount = i /\ e.localtime = r.localtime
    BY <2>1 DEF DeviceRecord
  <2>. HIDE DEF e
  <2>3. r.localtime + (granted + Extra) * CycleTime[executing] <= target + Overshoot
    BY <1>6 DEF Ranging, r
  <2>. QED  BY <1>1, <1>6, <2>1, <2>2, <2>3 DEF Ranging, Done, r
<1>7. executing # None => /\ dev[executing].running \in Nat /\ dev[executing].icount \in Int
                          /\ dev[executing].running - dev[executing].icount + owed <= granted + Extra
                          /\ dev[executing].icount > 0 => dev[executing].running <= granted
  BY <1>0 DEF Ranging, Done, DeviceRecord
<1>8. ASSUME NEW cycles \in Instructions, NEW early \in BOOLEAN, BeginInstruction(cycles, early)
      PROVE  Ranging'
  <2> DEFINE r == dev[executing].running  i == dev[executing].icount
  <2>1. /\ executing # None /\ i > 0 /\ UNCHANGED <<executing, granted, target>>
        /\ owed' = IF early THEN 0 ELSE cycles
        /\ dev' = IF early THEN [dev EXCEPT ![executing].icount = i - cycles] ELSE dev
    BY <1>0, <1>8 DEF BeginInstruction
  <2>2. r \in Nat /\ i \in Int /\ r <= granted
    BY <1>7, <2>1
  <2>3. cycles \in Nat /\ cycles <= LongestInstruction
    BY <1>1, SchedulerAssumption
  <2>. HIDE DEF r, i
  <2>4. CASE early
    <3>1. r - (i - cycles) + 0 <= granted + Extra /\ i - cycles \in Int
      BY <1>0, <1>1, <2>1, <2>2, <2>3
    <3>. QED  BY <1>6, <2>1, <2>2, <2>4, <3>1 DEF r
  <2>5. CASE ~early
    <3>1. r - i + cycles <= granted + Extra
      BY <1>0, <1>1, <2>1, <2>2, <2>3
    <3>2. dev' = dev /\ owed' = cycles
      BY <2>1, <2>5
    <3>. QED  BY <1>1, <2>1, <2>2, <3>1, <3>2 DEF Ranging, Done, r, i
  <2>. QED  BY <2>4, <2>5
<1>9. CASE EndInstruction
  <2> DEFINE r == dev[executing].running  i == dev[executing].icount
  <2>1. /\ executing # None /\ UNCHANGED <<executing, granted, target>> /\ owed' = 0
        /\ dev' = [dev EXCEPT ![executing].icount = i - owed]
    BY <1>0, <1>9 DEF EndInstruction
  <2>2. r \in Nat /\ i \in Int /\ r - i + owed <= granted + Extra /\ (i > 0 => r <= granted)
    BY <1>7, <2>1
  <2>. HIDE DEF r, i
  <2>3. i - owed \in Int /\ r - (i - owed) + 0 <= granted + Extra /\ (i - owed > 0 => r <= granted)
    BY <1>0, <1>1, <2>2
  <2>. QED  BY <1>6, <2>1, <2>3 DEF r
<1>10. CASE \E d \in Devices : SkipTurn(d) \/ SpinTurn(d)
  <2>1. executing' = None
    BY <1>0, <1>10 DEF SkipTurn, SpinTurn, Turn
  <2>. QED  BY <1>2, <2>1
<1>11. CASE BeginSlice \/ LeaveDevice \/ EndSlice \/ SaveState \/ LoadState \/ ReattachDone
  <2>1. executing' = None
    BY <1>0, <1>11 DEF BeginSlice, LeaveDevice, EndSlice, SaveState, LoadState, ReattachDone, sliceVars
  <2>. QED  BY <1>2, <2>1
<1>. QED  BY <1>2, <1>3, <1>4, <1>5, <1>8, <1>9, <1>10, <1>11, StillOrMoves DEF Moves

LEMMA NearStep ==
  ASSUME IInv, Aims, Steady, Stepping, Owing, Reaching, [Next]_vars
  PROVE  (Near(basetime, dev) /\ (saved # None => Near(saved.basetime, saved.dev)))'
<1>0. /\ Near(basetime, dev) /\ (saved # None => Near(saved.basetime, saved.dev))
      /\ Overshoot \in Nat /\ Longest \in Nat /\ Overshoot' = Overshoot /\ Longest' = Longest
      /\ basetime \in Nat /\ target \in Nat
      /\ (phase \in {"run", "instruction"} <=> executing # None)
  BY Extremes, LongestType, NeverAssumption
  DEF Reaching, Overshoot, Longest, Least, IInv, TypeOK, Steady, Control
<1>1. ASSUME UNCHANGED <<basetime, saved>>,
             \A d \in Devices : dev'[d].localtime = dev[d].localtime
      PROVE  (Near(basetime, dev) /\ (saved # None => Near(saved.basetime, saved.dev)))'
  BY <1>0, <1>1 DEF Near
<1>2. ASSUME NEW d \in Devices, UNCHANGED <<basetime, saved>>, Turning,
             \A x \in Devices \ {d} : dev'[x] = dev[x],
             dev'[d].localtime \in Int, dev'[d].localtime <= target + Overshoot
      PROVE  (Near(basetime, dev) /\ (saved # None => Near(saved.basetime, saved.dev)))'
  <2>1. target <= basetime + Longest
    BY <1>2 DEF Stepping, Reached
  <2>2. dev'[d].localtime <= basetime + Longest + Overshoot
    BY <1>0, <1>2, <2>1
  <2>. QED  BY <1>0, <1>2, <2>2 DEF Near
<1>3. CASE Still
  BY <1>1, <1>3 DEF Still, devVars
<1>4. CASE EmulatedCall
  BY <1>1, <1>4, CallFacts DEF Calls, Touched
<1>5. CASE BeginSlice
  BY <1>1, <1>5, ApplyFacts
<1>6. ASSUME NEW d \in Devices, SkipTurn(d) PROVE UNCHANGED <<dev, basetime, saved>>
  BY <1>6 DEF SkipTurn, devVars, saveVars
<1>7. ASSUME NEW d \in Devices, SpinTurn(d)
      PROVE  (Near(basetime, dev) /\ (saved # None => Near(saved.basetime, saved.dev)))'
  <2> DEFINE g == Grant(d)  c == CycleTime[d]  l == dev[d].localtime  x == g * c
  <2>1. /\ Turning /\ MayRun(d) /\ Account(d, g) /\ UNCHANGED <<basetime, saved>>
    BY <1>7 DEF SpinTurn, Turn, Turning, saveVars
  <2>2. g \in Nat /\ l + x < target + c
    BY <2>1, GrantReaches DEF Steady
  <2>3. c \in Nat \ {0} /\ l \in Nat /\ Never \in Nat /\ c <= Overshoot
    BY TurnNumbers, Extremes DEF Steady
  <2>4. dev'[d].localtime = Plus(l, x) /\ dev'[d].localtime \in Nat
        /\ \A y \in Devices \ {d} : dev'[y] = dev[y]
    BY <2>1, <2>2, AccountFacts
  <2>. HIDE DEF g, c, l
  <2>5. x \in Nat
    BY <2>2, <2>3
  <2>. HIDE DEF x
  <2>6. Plus(l, x) <= l + x
    BY <2>3, <2>5 DEF Plus
  <2>7. dev'[d].localtime <= target + Overshoot
    BY <1>0, <2>2, <2>3, <2>4, <2>5, <2>6
  <2>. QED  BY <1>2, <2>1, <2>4, <2>7
<1>8. CASE \/ \E d \in Devices : EnterDevice(d)
           \/ \E cycles \in Instructions, early \in BOOLEAN : BeginInstruction(cycles, early)
           \/ EndInstruction
  BY <1>1, <1>8, CountFacts
<1>9. CASE LeaveDevice
  <2> DEFINE ran == dev[executing].running - dev[executing].icount
             d == executing
  <2>1. /\ d \in Devices /\ phase = "run" /\ ran \in Nat /\ Account(d, ran)
        /\ UNCHANGED <<basetime, saved>>
    BY <1>9, LeaveFacts
  <2>2. dev'[d].localtime <= target + Overshoot
    BY <1>9, RanReaches DEF Steady, Reaching
  <2>. HIDE DEF ran, d
  <2>3. dev'[d].localtime \in Nat /\ \A x \in Devices \ {d} : dev'[x] = dev[x]
    BY <2>1, AccountFacts
  <2>. QED  BY <1>2, <2>1, <2>2, <2>3 DEF Turning
<1>10. CASE EndSlice
  <2>1. Turning /\ basetime' = target /\ UNCHANGED <<dev, saved>>
    BY <1>10 DEF EndSlice, Turning, devVars, saveVars
  <2>2. basetime <= target
    BY <2>1 DEF Aims
  <2>3. \A d \in Devices : dev[d].localtime <= target + Longest + Overshoot
    <3>1. SUFFICES ASSUME NEW d \in Devices PROVE dev[d].localtime <= target + Longest + Overshoot
      OBVIOUS
    <3>2. dev[d].localtime <= basetime + Longest + Overshoot /\ dev[d].localtime \in Nat
      BY <1>0, TurnNumbers DEF Near
    <3>. QED  BY <1>0, <2>2, <3>2
  <2>. QED  BY <1>0, <2>1, <2>3 DEF Near
<1>11. CASE SaveState
  <2>1. saved'.dev = dev /\ saved'.basetime = basetime /\ UNCHANGED <<dev, basetime>>
    BY <1>11 DEF SaveState, devVars
  <2>. QED  BY <1>0, <2>1 DEF Near
<1>12. CASE LoadState
  <2>1. dev' = saved.dev /\ basetime' = saved.basetime /\ saved # None /\ saved' = saved
    BY <1>12 DEF LoadState
  <2>. QED  BY <1>0, <2>1 DEF Near
<1>13. CASE ReattachDone
  BY <1>1, <1>13 DEF ReattachDone, saveVars
<1>14. CASE \E d \in Devices : SkipTurn(d)
  BY <1>1, <1>6, <1>14
<1>. QED  BY <1>3, <1>4, <1>5, <1>7, <1>8, <1>9, <1>10, <1>11, <1>12, <1>13, <1>14, StillOrMoves
          DEF Moves

LEMMA ReachingInit == Bounded /\ Init => Owing /\ Reaching
<1> SUFFICES ASSUME Bounded, Init PROVE Owing /\ Reaching
  OBVIOUS
<1>1. LongestInstruction \in Nat /\ Overshoot \in Nat /\ Longest \in Nat
  BY Extremes, LongestType
<1>2. \A d \in Devices : dev[d].localtime = 0
  BY DEF Init, StartedDevice
<1>3. owed = 0 /\ executing = None /\ saved = None /\ basetime = 0
  BY DEF Init
<1>. QED  BY <1>1, <1>2, <1>3 DEF Owing, Reaching, Ranging, Near

\* Between slices no device is a whole cycle behind the base time, and none is further
\* ahead than the longest slice and one instruction.
THEOREM AlwaysInStep == ASSUME Steady PROVE Spec => []InStep
<1>1. IInv /\ Aims /\ [Next]_vars => Aims'
  BY AimsStep
<1>2. IInv /\ Aims /\ Stepping /\ [Next]_vars => Stepping'
  BY SteppingStep DEF Steady
<1>3. IInv /\ Owing /\ [Next]_vars => Owing'
  BY OwingStep DEF Steady
<1>4. IInv /\ Aims /\ Stepping /\ Owing /\ Reaching /\ [Next]_vars => Reaching'
  BY RangingStep, NearStep DEF Reaching
<1>5. IInv /\ Stepping /\ Reaching => InStep
  <2>1. SUFFICES ASSUME IInv, Stepping, Reaching, NEW d \in Devices
                 PROVE  /\ basetime < dev[d].localtime + CycleTime[d]
                        /\ dev[d].localtime <=
                             basetime + Max({MinimumQuantum, minimum}) + Overshoot
    BY DEF InStep
  <2>2. Max({MinimumQuantum, minimum}) = Longest
    <3> DEFINE S == {MinimumQuantum, Least}
    <3>1. S \subseteq Nat /\ \E m \in S : \A i \in S : i <= m
      BY LongestType
    <3>2. Max(S) \in S /\ \A i \in S : i <= Max(S)
      <4>. HIDE DEF S
      <4>. QED  BY <3>1, MaxFacts
    <3>3. Max(S) = Longest
      BY <3>2, LongestType DEF Longest
    <3>4. minimum = Least
      BY <2>1 DEF Stepping, Slotted
    <3>. QED  BY <3>3, <3>4
  <2>. QED  BY <2>1, <2>2 DEF Stepping, Keeping, Reaching, Near
<1>6. Init => Aims /\ Stepping /\ Owing /\ Reaching
  BY AimsInit, SteppingInit, ReachingInit DEF Steady
<1>. QED  BY <1>1, <1>2, <1>3, <1>4, <1>5, <1>6, Invariance, PTL DEF Spec
================================================================================
