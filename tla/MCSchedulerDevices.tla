-------------------------- MODULE MCSchedulerDevices --------------------------
(* Two devices of different speed that suspend each other, wait for triggers *)
(* and boost the interleave, and a timer for each kind.                      *)
EXTENDS SchedulerProperties

CONSTANTS d1, d2, p1, a1, sentinel

MCTimers == {p1, sentinel}
MCAnonymous == {sentinel}
MCOrder == <<d1, d2>>
MCCycle == (d1 :> 1) @@ (d2 :> 2)
MCClocked == (d1 :> 1) @@ (d2 :> 3)
MCScale == [d \in DOMAIN MCCycle |-> 2^DivShift(MCCycle[d])]
MCSuspend == {<<"halt", TRUE>>, <<"trigger", TRUE>>, <<"timeslice", TRUE>>}
MCYield == {<<"timeslice", FALSE>>}
MCHaltYield == MCYield \cup {<<"halt", TRUE>>}
MCBoosts == {<<1, 2>>, <<6, 4>>}

=============================================================================
