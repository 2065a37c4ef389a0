------------------------------ MODULE AlarmClock ------------------------------
(***************************************************************************)
(* What the device scheduler's timers promise the rest of the emulator:    *)
(* every alarm has at most one deadline; alarms ring one at a time, the    *)
(* earliest deadline first, and those with the same deadline in the order  *)
(* in which they were set; the clock never runs more than Slack past a     *)
(* deadline that has not rung; and a state that is loaded brings back the  *)
(* time and the deadlines of the state that was saved.                     *)
(***************************************************************************)
EXTENDS Integers

CONSTANTS Alarms, Never, Slack, None

VARIABLES now,       \* the global time
          deadline,  \* alarm -> its deadline, Never if it has none
          ahead,     \* <<a, b>>: a and b share a deadline and a rings first
          ringing,   \* the alarm whose callback runs, or None
          file       \* the time and the deadlines that were last saved, or None

vars == <<now, deadline, ahead, ringing, file>>

Init == /\ now = 0 /\ ringing = None /\ file = None
        /\ deadline = [a \in Alarms |-> Never] /\ ahead = {}

Others(a) == {p \in ahead : a # p[1] /\ a # p[2]}

\* alarm a gets a deadline, or none, and goes behind those that share it
Arm(a, at) ==
  /\ deadline' = [deadline EXCEPT ![a] = at]
  /\ ahead' = Others(a) \cup
              {<<b, a>> : b \in {b \in Alarms \ {a} : at # Never /\ deadline[b] = at}}

Set(a, at) == Arm(a, at) /\ UNCHANGED <<now, ringing, file>>

Due(a) == /\ deadline[a] <= now
          /\ \A b \in Alarms : deadline[a] <= deadline[b] /\ <<b, a>> \notin ahead

\* the next alarm rings; a periodic one keeps its deadline while it does
Ring(a) ==
  /\ ringing = None /\ Due(a)
  /\ ringing' = a
  /\ Arm(a, Never) \/ UNCHANGED <<deadline, ahead>>
  /\ UNCHANGED <<now, file>>

\* its callback returns; a periodic one gets its next deadline
Silence(at) ==
  /\ ringing # None /\ ringing' = None
  /\ Arm(ringing, at) \/ UNCHANGED <<deadline, ahead>>
  /\ UNCHANGED <<now, file>>

Advance(to) ==
  /\ ringing = None
  /\ to >= now /\ \A a \in Alarms : to <= deadline[a] + Slack
  /\ now' = to
  /\ UNCHANGED <<deadline, ahead, ringing, file>>

Save ==
  /\ ringing = None
  /\ file' = [now |-> now, deadline |-> deadline]
  /\ UNCHANGED <<now, deadline, ahead, ringing>>

\* a and b are distinct alarms with the same deadline
Tie(a, b) == a # b /\ deadline[a] = deadline[b] /\ deadline[a] # Never

\* what was saved replaces the clock and the deadlines; alarms that share one
\* may be in any order
Load ==
  /\ ringing = None /\ file # None
  /\ now' = file.now /\ deadline' = file.deadline
  /\ \A p \in ahead' : Tie(p[1], p[2])'
  /\ \A a, b \in Alarms : Tie(a, b)' => (<<a, b>> \in ahead' <=> <<b, a>> \notin ahead')
  /\ UNCHANGED <<ringing, file>>

Next == \/ \E a \in Alarms : Ring(a) \/ \E at \in 0..Never : Set(a, at)
        \/ \E at \in 0..Never : Silence(at) \/ Advance(at)
        \/ Save \/ Load

Spec == Init /\ [][Next]_vars

=============================================================================
