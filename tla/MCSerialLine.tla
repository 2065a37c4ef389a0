------------------------------ MODULE MCSerialLine ------------------------------
(* Small instances of SerialLine. *)
EXTENDS SerialLine

MCFormat(w, p, s, outside) ==
  [word |-> w, parity |-> p, stop |-> s, external |-> outside, hack |-> outside]

\* a short frame between two timers, a longer one under an outside clock
MCFormats  == {MCFormat(2, "none", 1, FALSE), MCFormat(3, "even", 2, TRUE)}
Rates16    == {16}
AroundRate == {15, 19}   \* the slowest and the fastest that three bits allow

================================================================================
