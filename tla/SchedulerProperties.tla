-------------------------- MODULE SchedulerProperties --------------------------
(***************************************************************************)
(* What device_scheduler promises, over the states of module Scheduler.    *)
(***************************************************************************)
EXTENDS Scheduler

\* No timer is in the list twice, and the list is ordered well enough for its
\* head to be the next timer (timer_list_insert), except while postload()
\* takes apart a list whose timers have just been overwritten.
TimersOrdered == Distinct(tm) /\ (phase # "detach" => Ordered(tm))

\* Callbacks come in the order of their expiry: when execute_timers() calls
\* one, no enabled timer expires before it.
EarliestFirst ==
  [][phase # "callback" /\ phase' = "callback" =>
       \A t \in Queued(tm) : tm.enabled[t] => callback'.expire <= tm.expire[t]]_vars

\* No timer is lost: every permanent timer, and the sentinel timeslice()
\* relies on, is in the list or in postload()'s private list.
NoTimerLost ==
  phase # "start" => (Timers \ Anonymous) \cup {Sentinel} \subseteq
                       Queued(tm) \cup {private[i] : i \in 1..Len(private)}

\* The cycles abort_timeslice() takes back are accounted for: what is left of
\* a turn and what was stolen from it add up to what was granted.
CyclesConserved ==
  executing # None => dev[executing].running + dev[executing].stolen = granted

\* A device is charged for the cycles time() has counted in its turn, none lost
\* and none twice over any number of aborts: its local time differs from what
\* time() last answered by just what the core's conversions make of those cycles
\* (nothing, unless execute_clocks_to_cycles rounds).
ChargedTime ==
  [][executing # None /\ executing' = None =>
       LET d   == dev[executing]
           ran == d.running - d.icount
       IN  Now < Never /\ dev'[executing].localtime < Never =>
             dev'[executing].localtime - Now =
               ran * (CycleTime[executing] - ClockedTime[executing])]_vars

\* Only loading a state moves the base time or a device's time backwards.
TimeForward ==
  [][phase' # "detach" => /\ basetime' >= basetime
                          /\ \A d \in Devices : dev'[d].localtime >= dev[d].localtime]_vars

\* A suspension or resumption asked for before a slice is in force in it.
SuspendTakesEffect ==
  [][phase = "slice" /\ phase' = "turn" =>
       \A d \in Devices : dev'[d].suspend = dev[d].nextsuspend]_vars

\* A device that yields waits for the next timeslice and no longer
\* (SUSPEND_REASON_TIMESLICE, diexec.h): unless it was made to yield again, it
\* is not held back from a second one.
YieldEnds ==
  [][phase = "slice" /\ phase' = "turn" =>
       \A d \in Devices : "timeslice" \in dev[d].suspend \ dev[d].nextsuspend =>
                            "timeslice" \notin dev'[d].suspend]_vars

\* While a device executes, the time it answers does not run backwards
\* (eat_cycles "safely eats cycles").
TurnForward ==
  [][executing # None /\ executing' = executing => Now' >= Now]_vars

\* The cycles a device may run past the end of its turn: its last instruction.
Overshoot == Max(Instructions) * Max({CycleTime[d] : d \in Devices})

\* A timer fires at most one instruction late (adjust() aborts the slice of
\* the executing device when a timer becomes the next one), if no device is
\* charged more for a cycle than it answers for it.
Punctual == callback.timer # None => basetime <= callback.expire + Overshoot

\* Between slices no device is a whole cycle behind the base time, and none is
\* further ahead than the longest slice and one instruction.
InStep ==
  phase \in {"slice", "timers", "callback", "idle"} =>
    \A d \in Devices :
      /\ basetime < dev[d].localtime + CycleTime[d]
      /\ dev[d].localtime <= basetime + Max({MinimumQuantum, minimum}) + Overshoot

\* The difference timeslice() computes from the attosecond parts is the time
\* to the target (the assertion at schedule.cpp:453).
DeltaExact ==
  \A d \in Devices : Turn(d) /\ Eligible(d) => Delta(d) = target - dev[d].localtime

\* The machine's own quantum is never lost, so that there is always a slot at
\* the head, and no two slots have the same length.
QuantaSound ==
  /\ \E q \in quanta : q.expire = Never /\ q.requested = MinimumQuantum
  /\ \A q, r \in quanta : q.requested = r.requested => q = r

\* The machine never stops: emulated time reaches every bound.
TimeAdvances == <>(basetime >= Horizon)

\* A timer that is armed is fired, disabled or set again.
TimerAnswered ==
  \A t \in Timers \ {Sentinel}, e \in 0..Horizon :
    (t \in Queued(tm) /\ tm.enabled[t] /\ tm.expire[t] = e) ~>
      ~(t \in Queued(tm) /\ tm.enabled[t] /\ tm.expire[t] = e)

-----------------------------------------------------------------------------
(* The timers are an alarm clock.                                          *)

\* the timers in the order of the list, also while postload() rebuilds it
Line == IF phase = "detach" THEN private \o tm.list ELSE tm.list \o private

Deadline == [t \in Timers |-> IF Contains(Line, t) /\ tm.enabled[t] THEN tm.expire[t] ELSE Never]

Ahead == {<<Line[p[1]], Line[p[2]]>> : p \in
            {p \in (1..Len(Line)) \X (1..Len(Line)) :
               /\ p[1] < p[2] /\ Deadline[Line[p[1]]] = Deadline[Line[p[2]]]
               /\ Deadline[Line[p[1]]] # Never}}

\* what a state file says of the timers: no anonymous one is live in it
Filed == IF saved = None THEN None ELSE
  [now |-> saved.basetime,
   deadline |-> [t \in Timers |-> IF t \notin Anonymous /\ saved.enabled[t] THEN saved.expire[t]
                                                                          ELSE Never]]

Clock == INSTANCE AlarmClock WITH Alarms <- Timers, Slack <- Overshoot, now <- basetime,
                                  deadline <- Deadline, ahead <- Ahead,
                                  ringing <- callback.timer, file <- Filed

\* Timers fire in the order of their deadlines, those with the same deadline
\* in the order in which they were set, and the clock waits for them.
IsAlarmClock == Clock!Spec

=============================================================================
