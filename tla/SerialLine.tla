------------------------------- MODULE SerialLine -------------------------------
(***************************************************************************)
(* Two serial devices (src/emu/diserial.cpp), one sending to the other:    *)
(* the transmit and receive shift registers, and the clocks that move      *)
(* them, which are timers of the two devices or a clock outside both.      *)
(*                                                                         *)
(* Time passes in ticks; a timer is the number of ticks until it expires.  *)
(* The devices are used as serial chips use the interface: tra_callback    *)
(* puts the transmitter's bit on the line, rcv_complete extracts the byte, *)
(* a byte is loaded when the transmitter is empty, at once in tra_complete *)
(* or later.  Frames have a start bit; synchronous frames have none and    *)
(* are left out.                                                           *)
(***************************************************************************)
EXTENDS Integers, SequencesExt

CONSTANTS Formats,      \* the frames and clocks the devices may be set to: see format
          Never,        \* attotime::never
          Bad,          \* what is received when there is a framing error
          SendRates, ReceiveRates,  \* half bits, in ticks: m_tra_rate and m_rcv_rate
          MaxBytes      \* bound: bytes sent in a behaviour

ASSUME SerialAssumption ==
  /\ Formats \subseteq [word : 1..8, parity : {"none", "odd", "even", "mark", "space"},
                        stop : 0..2, external : BOOLEAN, hack : BOOLEAN]
  /\ SendRates \subseteq Nat \ {0} /\ ReceiveRates \subseteq Nat \ {0}
  /\ Never \notin Nat /\ Bad \notin Nat /\ MaxBytes \in Nat

\* set_data_frame of both devices, and who clocks them.  Nothing changes it.
VARIABLE format

WordLength   == format.word      \* m_df_word_length
Parity       == format.parity    \* m_df_parity
StopBits     == format.stop      \* m_df_stop_bit_count
External     == format.external  \* are both registers clocked from outside?
StartBitHack == format.hack      \* m_start_bit_hack_for_external_clocks

Bytes == 0..2^WordLength - 1

VARIABLES tra,   \* the sender: its register, clock and timer
          rcv,   \* the receiver: its register, clock, timer and line
          rates, \* m_tra_rate and m_rcv_rate
          wire, got,  \* bytes sent and not received; bytes received
          budget \* what is left of the bound MaxBytes

vars == <<format, tra, rcv, rates, wire, got, budget>>

\* m_rcv_bit_count
BitCount == WordLength + StopBits + IF Parity = "none" THEN 0 ELSE 1

\* after a reset, which puts the line to 1
Init ==
  /\ format \in Formats
  /\ tra = [empty |-> TRUE, frame |-> <<>>, sent |-> 0, clock |-> FALSE, left |-> Never]
  /\ rcv = [synced |-> FALSE, full |-> FALSE, count |-> 0, framing |-> FALSE, line |-> 1,
            bits |-> [k \in 1..BitCount |-> IF k = BitCount THEN 1 ELSE 0],
            clock |-> FALSE, left |-> Never]
  /\ IF External THEN rates = [send |-> Never, receive |-> Never]
     ELSE rates \in [send : SendRates, receive : ReceiveRates]
  /\ wire = <<>> /\ got = <<>> /\ budget = MaxBytes

-----------------------------------------------------------------------------
(* The transmit register. *)

Bit(b, k) == (b \div 2^k) % 2
Ones(b)   == FoldFunctionOnSet(+, 0, [k \in 0..7 |-> Bit(b, k)], 0..7)

\* odd and even parity are treated alike
ParityBits(b) == CASE Parity = "none" -> <<>>
                   [] Parity = "mark" -> <<1>>
                   [] Parity = "space" -> <<0>>
                   [] OTHER -> <<Ones(b) % 2>>

\* mutant: the data bits from the highest to the lowest
FrameReversed(b) == <<0>> \o [k \in 1..WordLength |-> Bit(b, WordLength - k)] \o ParityBits(b)
                    \o [k \in 1..StopBits |-> 1]

Frame(b) == <<0>> \o [k \in 1..WordLength |-> Bit(b, k - 1)] \o ParityBits(b)
            \o [k \in 1..StopBits |-> 1]

Setup(t, b) == [t EXCEPT !.left = rates.send, !.sent = 0, !.empty = FALSE, !.frame = Frame(b)]

GetDataBit(t) == [t EXCEPT !.sent = @ + 1, !.empty = (t.sent + 1 = Len(t.frame))]

-----------------------------------------------------------------------------
(* The receive register. *)

\* a change to 0 is a start bit; after it BitCount bits are counted, modulo 2^8
UpdateBit(r, bit) ==
  LET n == (r.count + 1) % 256
      s == [r EXCEPT !.bits = Append(Tail(@), bit)]
  IN IF ~r.synced
     THEN IF Last(r.bits) = 1 /\ bit = 0
          THEN [s EXCEPT !.synced = TRUE, !.count = 0, !.framing = FALSE] ELSE s
     ELSE [s EXCEPT !.count = IF n = BitCount THEN 0 ELSE n,
                    !.framing = @ \/ (bit = 0 /\ n > BitCount - StopBits),
                    !.synced = (n # BitCount), !.full = (n = BitCount)]

\* until the first edge of the receiver's clock, which takes no bit
StartDelay == (rates.receive * 3) \div 2

\* the line changes, or is put to what it is
RxW(r, bit) ==
  LET l == [r EXCEPT !.line = bit]
      u == UpdateBit(l, bit)
  IN IF r.synced THEN l
     ELSE IF ~u.synced THEN u
     ELSE IF rates.receive # Never THEN [u EXCEPT !.left = StartDelay]
     ELSE IF StartBitHack THEN [u EXCEPT !.count = (@ - 1) % 256]
     ELSE u

ReceiveReset(r) == [r EXCEPT !.synced = FALSE, !.full = FALSE, !.count = 0]

\* receive_register_extract: the byte among the bits received
Extracted(r) == FoldFunctionOnSet(+, 0, [k \in 1..WordLength |-> r.bits[k] * 2^(k - 1)],
                                  1..WordLength)

\* a bit is taken from the line; when it was the last, the byte is extracted
RcvEdge(r, w) ==
  LET u == UpdateBit(r, r.line) IN
  IF ~u.full THEN rcv' = u /\ wire' = w /\ UNCHANGED got
  ELSE /\ rcv' = [ReceiveReset(u) EXCEPT !.left = Never]
       /\ got' = Append(got, IF u.framing THEN Bad ELSE Extracted(u)) /\ wire' = IF w = <<>> THEN w ELSE Tail(w)

-----------------------------------------------------------------------------
(* The clocks. *)

Timers == {t \in {tra.left, rcv.left} : t # Never}

Tick ==
  /\ Timers # {} /\ 0 \notin Timers
  /\ tra' = [tra EXCEPT !.left = IF @ = Never THEN Never ELSE @ - 1]
  /\ rcv' = [rcv EXCEPT !.left = IF @ = Never THEN Never ELSE @ - 1]
  /\ UNCHANGED <<format, rates, wire, got, budget>>

\* tra_complete may load another byte
Reload(t) ==
  \/ tra' = [t EXCEPT !.left = Never] /\ UNCHANGED <<wire, budget>>
  \/ /\ budget > 0 /\ budget' = budget - 1
     /\ \E b \in Bytes : tra' = Setup(t, b) /\ wire' = Append(wire, b)

\* the rising edge: put a bit on the line, unless there is none
TraEdge(t) ==
  IF t.empty
  THEN tra' = [t EXCEPT !.left = Never] /\ UNCHANGED <<rcv, wire, budget>>
  ELSE LET u == GetDataBit(t)  bit == t.frame[t.sent + 1]  r == RxW(rcv, bit) IN
       /\ rcv' = r
       /\ IF u.empty THEN Reload(u) ELSE tra' = u /\ UNCHANGED <<wire, budget>>

\* mutant: the state of the clock is not kept
SendTimerStuck ==
  /\ tra.left = 0
  /\ LET t == [tra EXCEPT !.left = rates.send] IN
     IF t.clock THEN TraEdge(t) ELSE tra' = t /\ UNCHANGED <<rcv, wire, budget>>
  /\ UNCHANGED <<format, rates, got>>

SendTimer ==
  /\ tra.left = 0
  /\ LET t == [tra EXCEPT !.clock = ~@, !.left = rates.send] IN
     IF t.clock THEN TraEdge(t) ELSE tra' = t /\ UNCHANGED <<rcv, wire, budget>>
  /\ UNCHANGED <<format, rates, got>>

ReceiveTimer ==
  /\ rcv.left = 0
  /\ LET r == [rcv EXCEPT !.clock = ~@, !.left = rates.receive] IN
     IF ~r.clock THEN RcvEdge(r, wire) ELSE rcv' = r /\ UNCHANGED <<wire, got>>
  /\ UNCHANGED <<format, tra, rates, budget>>

\* an outside clock, for both: the sender on its rising edge, the receiver on the other
OutsideClock ==
  /\ External
  /\ IF ~tra.clock
     THEN LET t == [tra EXCEPT !.clock = TRUE] IN
          IF t.empty
          THEN /\ tra' = t /\ rcv' = [rcv EXCEPT !.clock = TRUE]
               /\ UNCHANGED <<wire, got, budget>>
          ELSE LET u == GetDataBit(t)  bit == t.frame[t.sent + 1] IN
               /\ rcv' = [RxW(rcv, bit) EXCEPT !.clock = TRUE] /\ UNCHANGED got
               /\ IF u.empty THEN Reload(u) ELSE tra' = u /\ UNCHANGED <<wire, budget>>
     ELSE /\ tra' = [tra EXCEPT !.clock = FALSE]
          /\ RcvEdge([rcv EXCEPT !.clock = FALSE], wire)
          /\ UNCHANGED budget
  /\ UNCHANGED <<format, rates>>

-----------------------------------------------------------------------------
(* What the chips and their machine do. *)

Send(b) ==
  /\ tra.empty /\ budget > 0 /\ budget' = budget - 1
  /\ tra' = Setup(tra, b) /\ wire' = Append(wire, b)
  /\ UNCHANGED <<format, rcv, rates, got>>

\* set_tra_rate and set_rcv_rate, when nothing is under way
SetRates ==
  /\ ~External /\ tra.empty /\ wire = <<>>
  /\ rates' \in [send : SendRates, receive : ReceiveRates]
  /\ tra' = [tra EXCEPT !.left = Never]
  /\ rcv' = [ReceiveReset(rcv) EXCEPT !.left = Never]
  /\ UNCHANGED <<format, wire, got, budget>>

Clock == Tick \/ SendTimer \/ ReceiveTimer \/ OutsideClock

Next == Clock \/ (\E b \in Bytes : Send(b)) \/ SetRates

Spec == Init /\ [][Next]_vars

\* time passes and the timers' callbacks are called
FairSpec == Spec /\ WF_vars(Clock)

-----------------------------------------------------------------------------

\* The type of the state: the fields of diserial.h, UINT8 counters included.
TypeOK ==
  /\ format \in Formats
  /\ tra \in [empty : BOOLEAN, frame : Seq({0, 1}), sent : 0..BitCount + 1, clock : BOOLEAN,
              left : Nat \cup {Never}]
  /\ rcv \in [synced : BOOLEAN, full : BOOLEAN, count : 0..255, framing : BOOLEAN, line : {0, 1},
              bits : Seq({0, 1}), clock : BOOLEAN, left : Nat \cup {Never}]
  /\ tra.empty \/ tra.sent < Len(tra.frame)
  /\ Len(rcv.bits) = BitCount /\ ~rcv.full
  /\ rates.send \in SendRates \cup {Never} /\ rates.receive \in ReceiveRates \cup {Never}
  /\ wire \in Seq(Bytes) /\ got \in Seq(Bytes \cup {Bad}) /\ budget \in 0..MaxBytes

Channel == INSTANCE ByteChannel WITH Bytes <- 0..255, Depth <- 2

\* The line is a channel: bytes arrive as sent, once and in order, although the
\* transmitter calls itself empty while its stop bit is still to be sampled.
IsChannel == Channel!Spec

\* Every byte sent arrives.
AllArrive == (wire # <<>>) ~> (wire = <<>>)

================================================================================
