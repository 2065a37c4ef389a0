-------------------------- MODULE MCSchedulerLiveness --------------------------
(* Progress: two devices, one of which halts, waits for a trigger, eats its   *)
(* cycles or yields; a periodic and a one-shot timer.                         *)
EXTENDS SchedulerProperties

CONSTANTS d1, d2, p1, a1, sentinel

MCTimers == {p1, a1, sentinel}
MCAnonymous == {a1, sentinel}
MCOrder == <<d1, d2>>
MCCycle == (d1 :> 1) @@ (d2 :> 2)
MCClocked == (d1 :> 2) @@ (d2 :> 1)
MCScale == [d \in DOMAIN MCCycle |-> 2^DivShift(MCCycle[d])]
MCPeriods == {2, Never}
MCEnable == BOOLEAN
MCSuspend == {<<"timeslice", FALSE>>, <<"trigger", FALSE>>}

=============================================================================
