------------------------------ MODULE LineEvents ------------------------------
(***************************************************************************)
(* What input lines promise to those who write them: the states written to *)
(* a line reach the device in the order in which they were written, each   *)
(* of them once, and only a reset of the device withdraws any.             *)
(***************************************************************************)
EXTENDS Integers, Sequences

CONSTANTS Lines, Reset,   \* all lines, and the one that resets the device
          Events, Default

VARIABLES owed,      \* of each line: events written that have not reached the device
          seen,      \* of each line: the event that reached it last
          applied,   \* how many events have reached the device, modulo 2
          resets     \* how often the device was reset, modulo 2

vars == <<owed, seen, applied, resets>>

Init == /\ owed = [l \in Lines |-> <<>>]
        /\ seen = [l \in Lines |-> Default]
        /\ applied = 0 /\ resets = 0

Write(l) == \E e \in Events :
  owed' = [owed EXCEPT ![l] = Append(@, e)] /\ UNCHANGED <<seen, applied, resets>>

\* each event reaches the device once, and no event does unseen
Deliver(l) ==
  /\ owed[l] # <<>> /\ seen' = [seen EXCEPT ![l] = Head(owed[l])]
  /\ owed' = [owed EXCEPT ![l] = Tail(@)]
  /\ applied' = 1 - applied /\ UNCHANGED resets

\* a device that takes an interrupt clears a line that is held until then
Acknowledge(l) ==
  /\ seen[l].state = "hold" /\ seen' = [seen EXCEPT ![l].state = "clear"]
  /\ UNCHANGED <<owed, applied, resets>>

\* a reset withdraws what is owed and resets the vectors; a state that is just being
\* written comes after it, its vector the one that was written or the default
Withdrawn(l, rest) ==
  \/ owed'[l] = <<>>
  \/ /\ rest # <<>> /\ Len(owed'[l]) = 1
     /\ LET last == rest[Len(rest)] IN
        owed'[l][1] \in {last, [last EXCEPT !.vector = Default.vector]}

Withdraw(states, rest) ==
  /\ seen' = [l \in Lines |-> [state |-> states[l], vector |-> Default.vector]]
  /\ DOMAIN owed' = Lines /\ \A l \in Lines : Withdrawn(l, rest[l])
  /\ resets' = 1 - resets

ResetAll ==
  /\ Withdraw([l \in Lines |-> seen[l].state], owed) /\ UNCHANGED applied

\* the reset of a device whose line RESET is cleared delivers the event that clears it
ResetByLine ==
  /\ owed[Reset] # <<>> /\ Head(owed[Reset]).state # "assert"
  /\ Withdraw([l \in Lines |-> IF l = Reset THEN Head(owed[l]).state ELSE seen[l].state],
              [owed EXCEPT ![Reset] = Tail(@)])
  /\ applied' = 1 - applied

Next ==
  ResetAll \/ ResetByLine \/ \E l \in Lines : Write(l) \/ Deliver(l) \/ Acknowledge(l)

Spec == Init /\ [][Next]_vars

================================================================================
