------------------------------- MODULE ByteChannel -------------------------------
(***************************************************************************)
(* What a serial line is to the two ends that use it: bytes arrive as they *)
(* were sent, each once and in their order, at most Depth behind.          *)
(***************************************************************************)
EXTENDS Naturals, Sequences

CONSTANTS Bytes, Depth

VARIABLES wire,   \* bytes sent and not received
          got     \* the bytes received

Init == wire = <<>> /\ got = <<>>

Send(b) == Len(wire) < Depth /\ wire' = Append(wire, b) /\ UNCHANGED got

Receive == wire # <<>> /\ got' = Append(got, Head(wire)) /\ wire' = Tail(wire)

\* one byte is received while the next is handed to the sender
Both(b) == wire # <<>> /\ got' = Append(got, Head(wire)) /\ wire' = Append(Tail(wire), b)

Next == Receive \/ \E b \in Bytes : Send(b) \/ Both(b)

Spec == Init /\ [][Next]_<<wire, got>>

================================================================================
