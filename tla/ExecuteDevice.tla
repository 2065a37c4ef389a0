---------------------------- MODULE ExecuteDevice ----------------------------
(***************************************************************************)
(* device_execute_interface (src/emu/diexec.cpp): the scheduling state of  *)
(* one CPU-like device and what suspend, resume, triggers and the cycle    *)
(* calls do to it.  A device is a record:                                  *)
(*                                                                         *)
(*   localtime            m_localtime: how far it has run                  *)
(*   running, stolen      m_cycles_running, m_cycles_stolen of this turn   *)
(*   icount               *m_icountptr: cycles left in this turn           *)
(*   suspend, nextsuspend sets of SUSPEND_REASONs, in force and requested  *)
(*   eat, nexteat         m_eatcycles, m_nexteatcycles                     *)
(*   trigger              m_trigger: what it waits for, 0 for nothing      *)
(*                                                                         *)
(* "active" is executing(): the device is the one the scheduler is in.     *)
(***************************************************************************)
EXTENDS Attotime

CONSTANT DivisorLimit   \* divisors are kept below this (2^31 in the code)

ASSUME DivisorAssumption == DivisorLimit \in Nat \ {0, 1}

Reasons == {"halt", "reset", "spin", "trigger", "timeslice", "disable", "clock"}

StartedDevice == [localtime |-> 0, running |-> 0, stolen |-> 0, icount |-> 0,
                  suspend |-> {"reset"}, nextsuspend |-> {},
                  eat |-> FALSE, nexteat |-> FALSE, trigger |-> 0]

\* local_time(); clocked is what cycles_to_attotime makes of one cycle, which is
\* not always what timeslice() charges for it
LocalTime(d, active, clocked) ==
  IF active THEN Plus(d.localtime, (d.running - d.icount) * clocked) ELSE d.localtime

\* notify_clock_changed: the low bits (m_divshift of them) that are dropped
\* from the cycle time so that the divisor m_divisor fits
DivShift(cycle) == CHOOSE s \in 0..cycle :
  /\ cycle \div 2^s < DivisorLimit
  /\ \A r \in 0..(s-1) : cycle \div 2^r >= DivisorLimit

\* timeslice's fixed-point division; scale is 2^m_divshift
CyclesIn(delta, cycle, scale) == (delta \div scale) \div (cycle \div scale)

\* mutant: a second abort in a turn forgets what the first one took back
AbortForgetting(d, active) ==
  IF active THEN [d EXCEPT !.stolen = d.icount, !.running = @ - d.icount, !.icount = 0] ELSE d

\* mutant: the cycles that were taken back still count as running
AbortStillRunning(d, active) ==
  IF active THEN [d EXCEPT !.stolen = @ + d.icount, !.icount = 0] ELSE d

AbortTimeslice(d, active) ==
  IF active THEN [d EXCEPT !.stolen = @ + d.icount, !.running = @ - d.icount, !.icount = 0]
            ELSE d

\* cycles > icount is clamped even when icount is already negative
EatCycles(d, active, cycles) ==
  IF active THEN [d EXCEPT !.icount = IF cycles > @ THEN 0 ELSE @ - cycles] ELSE d

Suspend(d, active, reason, eatcycles) ==
  AbortTimeslice([d EXCEPT !.nextsuspend = @ \cup {reason}, !.nexteat = eatcycles], active)

\* the eat-cycles flag stays as the last suspend left it
Resume(d, active, reasons) ==
  AbortTimeslice([d EXCEPT !.nextsuspend = @ \ reasons], active)

SuspendUntilTrigger(d, active, trigid, eatcycles) ==
  [Suspend(d, active, "trigger", eatcycles) EXCEPT !.trigger = trigid]

Awaits(d, trigid) == "trigger" \in d.nextsuspend /\ d.trigger = trigid

Trigger(d, active, trigid) ==
  IF Awaits(d, trigid)
  THEN [Resume(AbortTimeslice(d, active), active, {"trigger"}) EXCEPT !.trigger = 0]
  ELSE AbortTimeslice(d, active)

\* apply_suspend_changes, for one device
ApplySuspend(d) ==
  [d EXCEPT !.suspend = d.nextsuspend, !.nextsuspend = @ \ {"timeslice"},
            !.eat = d.nexteat]

=============================================================================
