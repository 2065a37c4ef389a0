------------------------------- MODULE Attotime -------------------------------
(***************************************************************************)
(* attotime (src/emu/attotime.h) as the scheduler uses it: a number of     *)
(* ticks, with Never for attotime::never.  Addition saturates at Never, as *)
(* operator+ does when either argument or the sum reaches the maximum.     *)
(***************************************************************************)
EXTENDS Integers

CONSTANT Never

ASSUME NeverAssumption == Never \in Nat \ {0}

Time == 0..Never

Plus(a, b) == IF a + b >= Never THEN Never ELSE a + b

=============================================================================
