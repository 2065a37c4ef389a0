----------------------------- MODULE MCInputLines -----------------------------
(* A device with an interrupt line, and queues of two events. *)
EXTENDS InputLines

CONSTANTS irq, reset, halt, v0, v1

\* the callback of the interrupt line may write the halt line
MCChain(l) == IF l = irq THEN {halt} ELSE {}

================================================================================
