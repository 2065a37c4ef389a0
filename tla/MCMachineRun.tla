----------------------------- MODULE MCMachineRun -----------------------------
(* A machine that is in one of two ways, and after it another. *)
EXTENDS MachineRun

CONSTANTS auto, slot, g0, g1

================================================================================
