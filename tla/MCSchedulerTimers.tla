--------------------------- MODULE MCSchedulerTimers ---------------------------
(* One device whose instructions have two lengths, two permanent timers and *)
(* an anonymous one, one-shot and periodic, that share deadlines: the timer *)
(* list under every sequence of calls, saves and loads.                     *)
EXTENDS SchedulerProperties

CONSTANTS d1, p1, p2, a1, sentinel

MCTimers == {p1, p2, a1, sentinel}
MCAnonymous == {a1, sentinel}
MCOrder == <<d1>>
MCCycle == [d \in {d1} |-> 1]
MCClocked == MCCycle
MCScale == [d \in DOMAIN MCCycle |-> 2^DivShift(MCCycle[d])]
MCDelays == {-1, 1, Never}
MCPeriods == {0, 2}

=============================================================================
