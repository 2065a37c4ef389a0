----------------------------- MODULE QuantumList -----------------------------
(***************************************************************************)
(* The scheduling quanta of device_scheduler (src/emu/schedule.cpp): how   *)
(* far all devices may run before they synchronize.                        *)
(*                                                                         *)
(* m_quantum_list is kept sorted by m_requested, with one slot for a       *)
(* length: here it is the set of its slots, and the order of the list is   *)
(* the order of their lengths.  The first slot rules.                      *)
(***************************************************************************)
EXTENDS Attotime

LOCAL Longer(a, b) == IF a >= b THEN a ELSE b

Expired(slot, now) == now >= slot.expire

First(quanta) == CHOOSE q \in quanta : \A r \in quanta : q.requested <= r.requested

\* timeslice: drop slots off the head until one that has not expired
DropExpired(quanta, now) ==
  {q \in quanta : \E r \in quanta : r.requested <= q.requested /\ ~Expired(r, now)}

\* mutant: the new expiry replaces the slot's even when it is earlier
AddQuantumReplacing(quanta, now, requested, expire, minimum) ==
  {q \in quanta : ~Expired(q, now) /\ q.requested # requested} \cup
  {[requested |-> requested, actual |-> Longer(requested, minimum), expire |-> expire]}

\* add_scheduling_quantum: drop every expired slot, then extend the slot of
\* the same length or add a new one
AddQuantum(quanta, now, requested, expire, minimum) ==
  LET live == {q \in quanta : ~Expired(q, now)}
      same == {q \in live : q.requested = requested}
  IN  IF same # {}
      THEN (live \ same) \cup {[q EXCEPT !.expire = Longer(@, expire)] : q \in same}
      ELSE live \cup {[requested |-> requested, actual |-> Longer(requested, minimum),
                       expire |-> expire]}

\* compute_perfect_interleave: the second smallest of the devices' minimum
\* quanta, at most a second less a tick
PerfectInterleave(shortest, second) ==
  LET first  == CHOOSE d \in DOMAIN shortest :
                  \A e \in DOMAIN shortest : shortest[d] <= shortest[e]
      others == {shortest[e] : e \in DOMAIN shortest \ {first}} \cup {second - 1}
  IN  CHOOSE q \in others : \A r \in others : q <= r

=============================================================================
