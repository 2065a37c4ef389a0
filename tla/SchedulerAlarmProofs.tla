------------------------- MODULE SchedulerAlarmProofs -------------------------
(***************************************************************************)
(* device_scheduler's timers, while no state is loaded: they are punctual, *)
(* and they are the alarm clock of AlarmClock.                             *)
(***************************************************************************)
EXTENDS SchedulerTimeProofs

-----------------------------------------------------------------------------
(* The order of the list.                                                  *)

\* Timer x is in front of timer y.
Before(ts, x, y) == \E i, j \in 1..Len(ts.list) : i < j /\ ts.list[i] = x /\ ts.list[j] = y

LEMMA BeforeFacts ==
  ASSUME NEW ts \in TimerState, Distinct(ts)
  PROVE  /\ \A x, y : Before(ts, x, y) => x \in Queued(ts) /\ y \in Queued(ts) /\ ~Before(ts, y, x)
         /\ \A x, y \in Queued(ts) : x # y => Before(ts, x, y) \/ Before(ts, y, x)
         /\ \A x : ~Before(ts, x, x)
<1> DEFINE l == ts.list
<1>1. l \in Seq(Timers) /\ Len(l) \in Nat
  BY DEF TimerState
<1>2. \A i, j \in 1..Len(l) : l[i] = l[j] => i = j
  BY DEF Distinct
<1>3. \A x : x \in Queued(ts) <=> \E i \in 1..Len(l) : l[i] = x
  BY DEF Queued
<1>4. \A x, y : Before(ts, x, y) <=> \E i, j \in 1..Len(l) : i < j /\ l[i] = x /\ l[j] = y
  BY DEF Before
<1>. HIDE DEF l
<1>5. \A x, y : Before(ts, x, y) => x \in Queued(ts) /\ y \in Queued(ts) /\ ~Before(ts, y, x)
  BY <1>1, <1>2, <1>3, <1>4
<1>6. \A x, y \in Queued(ts) : x # y => Before(ts, x, y) \/ Before(ts, y, x)
  <2>1. SUFFICES ASSUME NEW x \in Queued(ts), NEW y \in Queued(ts), x # y
                 PROVE  Before(ts, x, y) \/ Before(ts, y, x)
    OBVIOUS
  <2>2. PICK i \in 1..Len(l) : l[i] = x
    BY <1>3
  <2>3. PICK j \in 1..Len(l) : l[j] = y
    BY <1>3
  <2>4. i < j \/ j < i
    BY <1>1, <2>1, <2>2, <2>3
  <2>. QED  BY <1>4, <2>2, <2>3, <2>4
<1>7. \A x : ~Before(ts, x, x)
  BY <1>5
<1>. QED  BY <1>5, <1>6, <1>7

\* The head is in front of every other timer.
LEMMA HeadFirst ==
  ASSUME NEW ts \in TimerState, Distinct(ts), ts.list # <<>>
  PROVE  /\ Head(ts.list) \in Queued(ts)
         /\ \A x : ~Before(ts, x, Head(ts.list))
<1> DEFINE l == ts.list
<1>1. l \in Seq(Timers) /\ Len(l) \in Nat /\ l # <<>> /\ (\A i, j \in 1..Len(l) : l[i] = l[j] => i = j)
  BY DEF TimerState, Distinct
<1>2. Queued(ts) = {l[i] : i \in 1..Len(l)}
  BY DEF Queued
<1>3. \A x, y : Before(ts, x, y) <=> \E i, j \in 1..Len(l) : i < j /\ l[i] = x /\ l[j] = y
  BY DEF Before
<1>. HIDE DEF l
<1>4. Head(l) = l[1] /\ 1 \in 1..Len(l)
  BY <1>1
<1>5. ASSUME NEW x, Before(ts, x, Head(l)) PROVE FALSE
  <2>1. PICK i, j \in 1..Len(l) : i < j /\ l[j] = Head(l)
    BY <1>3, <1>5
  <2>2. j = 1
    BY <1>1, <1>4, <2>1
  <2>. QED  BY <1>1, <2>1, <2>2
<1>. QED  BY <1>2, <1>4, <1>5 DEF l

\* Unlinking a timer keeps the order of the others.
LEMMA UnlinkOrder ==
  ASSUME NEW ts \in TimerState, NEW t \in Timers, Distinct(ts), t \in Queued(ts)
  PROVE  \A x, y : x # t /\ y # t => (Before(Unlink(ts, t), x, y) <=> Before(ts, x, y))
<1> DEFINE p == Position(ts, t)
           r == Unlink(ts, t)
           l == ts.list
           m == r.list
           n == Len(ts.list)
<1>1. l \in Seq(Timers) /\ n \in Nat
  BY DEF TimerState
<1>2. p \in 1..n /\ l[p] = t
  BY DEF Position, Queued
<1>3. m = RemoveAt(l, p)
  BY DEF Unlink, TimerState
<1>4. /\ Len(m) = n - 1
      /\ \A i \in 1..(n - 1) : m[i] = IF i < p THEN l[i] ELSE l[i + 1]
  <2> HIDE DEF p, m, l
  <2>1. p \in 1..Len(l)
    BY <1>2 DEF l
  <2>2. Len(m) = Len(l) - 1 /\ \A i \in 1..(Len(l) - 1) : m[i] = IF i < p THEN l[i] ELSE l[i + 1]
    BY <1>1, <1>3, <2>1, RemoveAtFacts
  <2>. QED  BY <2>2 DEF l
<1>5. \A x, y : Before(ts, x, y) <=> \E i, j \in 1..n : i < j /\ l[i] = x /\ l[j] = y
  BY DEF Before
<1>6. \A x, y : Before(r, x, y) <=> \E i, j \in 1..(n - 1) : i < j /\ m[i] = x /\ m[j] = y
  BY <1>4 DEF Before
<1>. HIDE DEF p, r, l, m, n
<1>7. ASSUME NEW x, NEW y, x # t, y # t, Before(r, x, y) PROVE Before(ts, x, y)
  <2>1. PICK i, j \in 1..(n - 1) : i < j /\ m[i] = x /\ m[j] = y
    BY <1>6, <1>7
  <2> DEFINE a == IF i < p THEN i ELSE i + 1
             b == IF j < p THEN j ELSE j + 1
  <2>2. a \in 1..n /\ b \in 1..n /\ a < b /\ l[a] = x /\ l[b] = y
    BY <1>1, <1>2, <1>4, <2>1, SMTT(30)
  <2>. QED  BY <1>5, <2>2
<1>8. ASSUME NEW x, NEW y, x # t, y # t, Before(ts, x, y) PROVE Before(r, x, y)
  <2>1. PICK i, j \in 1..n : i < j /\ l[i] = x /\ l[j] = y
    BY <1>5, <1>8
  <2>2. i # p /\ j # p
    BY <1>2, <1>8, <2>1
  <2> DEFINE a == IF i < p THEN i ELSE i - 1
             b == IF j < p THEN j ELSE j - 1
  <2>3. a \in 1..(n - 1) /\ b \in 1..(n - 1) /\ a < b
    BY <1>1, <1>2, <2>1, <2>2
  <2>4. m[a] = x
    BY <1>1, <1>2, <1>4, <2>1, <2>2, <2>3
  <2>5. m[b] = y
    <3>1. CASE j < p
      BY <1>1, <1>2, <1>4, <2>1, <2>3, <3>1
    <3>2. CASE j > p
      <4>1. b = j - 1 /\ j - 1 \in 1..(n - 1) /\ ~(j - 1 < p) /\ (j - 1) + 1 = j
        BY <1>1, <1>2, <2>1, <3>2
      <4>2. m[j - 1] = l[(j - 1) + 1]
        BY <1>4, <4>1
      <4>. QED  BY <2>1, <4>1, <4>2
    <3>. QED  BY <1>1, <1>2, <2>1, <2>2, <3>1, <3>2
  <2>. QED  BY <1>6, <2>3, <2>4, <2>5
<1>. QED  BY <1>7, <1>8 DEF r

\* Timer t of us is where timer_list_insert puts it, and the others are as in ts.
Placed(ts, us, t) ==
  /\ \A x, y : x # t /\ y # t => (Before(us, x, y) <=> Before(ts, x, y))
  /\ \A x : Before(us, x, t) => us.expire[x] <= SortKey(us, t)
  /\ \A x : Before(us, t, x) => SortKey(us, x) > SortKey(us, t)

\* Inserting a timer puts it behind those that expire no later than its key.
LEMMA InsertPlaces ==
  ASSUME NEW ts, WellFormed(ts), NEW t \in Timers, t \notin Queued(ts)
  PROVE  Placed(ts, Insert(ts, t), t)
<1> DEFINE k == SortKey(ts, t)
           p == InsertPos(ts, k)
           r == Insert(ts, t)
           l == ts.list
           m == r.list
           n == Len(ts.list)
<1>0. ts \in TimerState /\ l \in Seq(Timers) /\ n \in Nat /\ \A i \in 1..n : l[i] \in Timers
  <2>1. ts \in TimerState /\ l \in Seq(Timers)
    BY DEF WellFormed, TimerState
  <2>. QED  BY <2>1, LenProperties, ElementOfSeq
<1>1. k \in Time /\ \A x \in Timers : SortKey(ts, x) \in Time /\ ts.expire[x] \in Time
                                      /\ ts.expire[x] <= SortKey(ts, x)
  BY <1>0, SortKeyFacts
<1>2. /\ p \in 1..(n + 1)
      /\ \A i \in 1..n : i < p => ts.expire[l[i]] <= k
      /\ p <= n => ts.expire[l[p]] > k
  BY <1>0, <1>1, InsertPosFacts
<1>3. r = [ts EXCEPT !.list = InsertAt(l, p, t)]
  BY DEF Insert
<1>4. r.enabled = ts.enabled /\ r.expire = ts.expire /\ m = InsertAt(l, p, t)
  BY <1>0, <1>3 DEF TimerState
<1>5. /\ Len(m) = n + 1
      /\ \A i \in 1..(n + 1) : m[i] = IF i < p THEN l[i] ELSE IF i = p THEN t ELSE l[i - 1]
  <2>1. p \in 1..(Len(l) + 1)
    BY <1>2
  <2> HIDE DEF p, m, l
  <2>3. l \in Seq(Timers) /\ m = InsertAt(l, p, t)
    BY <1>0, <1>4
  <2>4. /\ Len(InsertAt(l, p, t)) = Len(l) + 1
        /\ \A i \in 1..(Len(l) + 1) :
             InsertAt(l, p, t)[i] = IF i < p THEN l[i] ELSE IF i = p THEN t ELSE l[i - 1]
    BY ONLY <2>1, <2>3, t \in Timers, InsertAtFacts
  <2>2. /\ Len(m) = Len(l) + 1
        /\ \A i \in 1..(Len(l) + 1) : m[i] = IF i < p THEN l[i] ELSE IF i = p THEN t ELSE l[i - 1]
    BY <2>3, <2>4
  <2>. QED  BY <2>2 DEF l
<1>6. \A x, y : Before(ts, x, y) <=> \E i, j \in 1..n : i < j /\ l[i] = x /\ l[j] = y
  BY DEF Before
<1>7. \A x, y : Before(r, x, y) <=> \E i, j \in 1..(n + 1) : i < j /\ m[i] = x /\ m[j] = y
  BY <1>5 DEF Before
<1>8. \A i \in 1..n : l[i] # t
  BY DEF Queued
<1>9. \A x : SortKey(r, x) = SortKey(ts, x)
  BY <1>4 DEF SortKey
<1>10. \A i, j \in 1..n : i < j => ts.expire[l[i]] <= SortKey(ts, l[j])
  BY DEF WellFormed, Ordered
<1>. HIDE DEF p, r, l, m, n
<1>11. ASSUME NEW x, NEW y, x # t, y # t, Before(r, x, y) PROVE Before(ts, x, y)
  <2>1. PICK i, j \in 1..(n + 1) : i < j /\ m[i] = x /\ m[j] = y
    BY <1>7, <1>11
  <2>2. i # p /\ j # p
    BY <1>2, <1>5, <1>11, <2>1
  <2> DEFINE a == IF i < p THEN i ELSE i - 1
             b == IF j < p THEN j ELSE j - 1
  <2>3. a \in 1..n /\ b \in 1..n /\ a < b
    BY <1>0, <1>2, <2>1, <2>2
  <2>4. l[a] = x /\ l[b] = y
    BY <1>0, <1>2, <1>5, <2>1, <2>2
  <2>. QED  BY <1>6, <2>3, <2>4
<1>12. ASSUME NEW x, NEW y, Before(ts, x, y) PROVE Before(r, x, y)
  <2>1. PICK i, j \in 1..n : i < j /\ l[i] = x /\ l[j] = y
    BY <1>6, <1>12
  <2> DEFINE a == IF i < p THEN i ELSE i + 1
             b == IF j < p THEN j ELSE j + 1
  <2>2. a \in 1..(n + 1) /\ b \in 1..(n + 1) /\ a < b
    BY <1>0, <1>2, <2>1
  <2>3. \A h \in 1..n : m[IF h < p THEN h ELSE h + 1] = l[h]
    <3>1. SUFFICES ASSUME NEW h \in 1..n PROVE m[IF h < p THEN h ELSE h + 1] = l[h]
      OBVIOUS
    <3>2. CASE h < p
      BY <1>0, <1>2, <1>5, <3>2
    <3>3. CASE ~(h < p)
      <4>1. h + 1 \in 1..(n + 1) /\ ~(h + 1 < p) /\ h + 1 # p /\ (h + 1) - 1 = h
        BY <1>0, <1>2, <3>3
      <4>2. m[h + 1] = l[(h + 1) - 1]
        BY <1>5, <4>1
      <4>. QED  BY <3>3, <4>1, <4>2
    <3>. QED  BY <3>2, <3>3
  <2>4. m[a] = x /\ m[b] = y
    BY <2>1, <2>3
  <2>. HIDE DEF a, b
  <2>. QED  BY <1>7, <2>2, <2>4
<1>13. \A i \in 1..(n + 1) : m[i] = t <=> i = p
  <2>0. m[p] = t /\ p \in 1..(n + 1)
    BY <1>2, <1>5
  <2>1. SUFFICES ASSUME NEW i \in 1..(n + 1), i # p PROVE m[i] # t
    BY <2>0
  <2>2. CASE i < p
    BY <1>0, <1>2, <1>5, <1>8, <2>2
  <2>3. CASE i > p
    <3>1. i - 1 \in 1..n /\ m[i] = l[i - 1]
      BY <1>0, <1>2, <1>5, <2>3
    <3>. QED  BY <1>8, <3>1
  <2>. QED  BY <1>2, <2>1, <2>2, <2>3
<1>14. ASSUME NEW x, Before(r, x, t) PROVE ts.expire[x] <= k
  <2>1. PICK i, j \in 1..(n + 1) : i < j /\ m[i] = x /\ m[j] = t
    BY <1>7, <1>14
  <2>2. j = p
    BY <1>13, <2>1
  <2>3. i \in 1..n /\ i < p /\ m[i] = l[i]
    BY <1>0, <1>2, <1>5, <2>1, <2>2
  <2>. QED  BY <1>2, <2>1, <2>3
<1>15. ASSUME NEW x, Before(r, t, x) PROVE SortKey(ts, x) > k
  <2>1. PICK i, j \in 1..(n + 1) : i < j /\ m[i] = t /\ m[j] = x
    BY <1>7, <1>15
  <2>2. i = p
    BY <1>13, <2>1
  <2> DEFINE b == j - 1
  <2>3. b \in 1..n /\ p \in 1..n /\ p <= b /\ x = l[b]
    BY <1>0, <1>2, <1>5, <2>1, <2>2
  <2>. HIDE DEF b
  <2>4. ts.expire[l[p]] > k /\ x \in Timers /\ l[p] \in Timers
    BY <1>0, <1>2, <2>3
  <2>5. ts.expire[l[p]] <= SortKey(ts, x)
    <3>1. CASE p = b
      BY <1>1, <2>3, <2>4, <3>1
    <3>2. CASE p < b
      BY <1>10, <2>3, <3>2
    <3>. QED  BY <2>3, <3>1, <3>2
  <2>6. ts.expire[l[p]] \in Int /\ SortKey(ts, x) \in Int /\ k \in Int
    BY <1>1, <2>4, NeverAssumption DEF Time
  <2>. HIDE DEF k
  <2>. QED  BY <2>4, <2>5, <2>6
<1>16. SortKey(r, t) = k
  BY <1>9
<1>. HIDE DEF k
<1>. QED  BY <1>4, <1>9, <1>11, <1>12, <1>14, <1>15, <1>16 DEF Placed, r

-----------------------------------------------------------------------------
(* What an operation on one timer does.                                    *)

\* From ts to us timer t is set, or leaves the list; the others stay as they are.
Moved(ts, us, t) ==
  /\ WellFormed(us) /\ Queued(us) \ {t} = Queued(ts) \ {t}
  /\ \A x \in Timers \ {t} : us.enabled[x] = ts.enabled[x] /\ us.expire[x] = ts.expire[x]
  /\ Placed(ts, us, t)

LEMMA ReinsertMoves ==
  ASSUME NEW ts, WellFormed(ts), NEW us \in TimerState, NEW t \in Queued(ts), t \in Timers,
         SameBut(ts, us, t)
  PROVE  Moved(ts, Reinsert(us, t), t)
<1> DEFINE vs == Unlink(us, t)
<1>1. Distinct(us) /\ OrderedBut(us, t) /\ Queued(us) = Queued(ts)
  BY FieldsOf
<1>2. /\ WellFormed(vs) /\ Queued(vs) = Queued(us) \ {t}
      /\ vs.enabled = us.enabled /\ vs.expire = us.expire
  BY <1>1, UnlinkKeeps
<1>3. t \notin Queued(vs)
  BY <1>2
<1>4. Reinsert(us, t) = Insert(vs, t)
  BY DEF Reinsert
<1>5. \A x, y : x # t /\ y # t => (Before(vs, x, y) <=> Before(us, x, y))
  BY <1>1, UnlinkOrder
<1>6. \A x, y : Before(us, x, y) <=> Before(ts, x, y)
  BY DEF SameBut, Before
<1>. HIDE DEF vs
<1> DEFINE ws == Insert(vs, t)
<1>7. /\ WellFormed(ws) /\ Queued(ws) = Queued(vs) \cup {t}
      /\ ws.enabled = vs.enabled /\ ws.expire = vs.expire
  BY <1>2, <1>3, InsertKeeps
<1>8. Placed(vs, ws, t)
  BY <1>2, <1>3, InsertPlaces
<1>. HIDE DEF ws
<1>9. Placed(ts, ws, t)
  BY <1>5, <1>6, <1>8 DEF Placed
<1>10. \A x \in Timers \ {t} : ws.enabled[x] = ts.enabled[x] /\ ws.expire[x] = ts.expire[x]
  BY <1>2, <1>7 DEF SameBut
<1>11. Moved(ts, ws, t)
  BY <1>1, <1>2, <1>7, <1>9, <1>10 DEF Moved
<1>. QED  BY <1>4, <1>11 DEF ws

LEMMA InsertMoves ==
  ASSUME NEW ts, WellFormed(ts), NEW us \in TimerState, NEW t \in Timers, t \notin Queued(ts),
         SameBut(ts, us, t)
  PROVE  Moved(ts, Insert(us, t), t)
<1> DEFINE ws == Insert(us, t)
<1>1. WellFormed(us) /\ Queued(us) = Queued(ts)
  BY FieldsOf
<1>2. /\ WellFormed(ws) /\ Queued(ws) = Queued(us) \cup {t}
      /\ ws.enabled = us.enabled /\ ws.expire = us.expire
  BY <1>1, InsertKeeps
<1>3. Placed(us, ws, t)
  BY <1>1, InsertPlaces
<1>4. \A x, y : Before(us, x, y) <=> Before(ts, x, y)
  BY DEF SameBut, Before
<1>. HIDE DEF ws
<1>5. Placed(ts, ws, t)
  BY <1>3, <1>4 DEF Placed
<1>6. \A x \in Timers \ {t} : ws.enabled[x] = ts.enabled[x] /\ ws.expire[x] = ts.expire[x]
  BY <1>2 DEF SameBut
<1>7. Moved(ts, ws, t)
  BY <1>1, <1>2, <1>5, <1>6 DEF Moved
<1>. QED  BY <1>7 DEF ws

LEMMA UnlinkMoves ==
  ASSUME NEW ts, WellFormed(ts), NEW t \in Queued(ts), t \in Timers
  PROVE  Moved(ts, Unlink(ts, t), t) /\ t \notin Queued(Unlink(ts, t))
<1> DEFINE us == Unlink(ts, t)
<1>0. ts \in TimerState /\ Distinct(ts) /\ OrderedBut(ts, t)
  BY DEF WellFormed, Ordered, OrderedBut
<1>1. /\ WellFormed(us) /\ Queued(us) = Queued(ts) \ {t}
      /\ us.enabled = ts.enabled /\ us.expire = ts.expire
  BY <1>0, UnlinkKeeps
<1>2. \A x, y : x # t /\ y # t => (Before(us, x, y) <=> Before(ts, x, y))
  BY <1>0, UnlinkOrder
<1>. HIDE DEF us
<1>3. \A x, y : Before(us, x, y) => x \in Queued(us) /\ y \in Queued(us)
  BY <1>1, BeforeFacts DEF WellFormed
<1>4. Placed(ts, us, t)
  BY <1>1, <1>2, <1>3 DEF Placed
<1>. QED  BY <1>1, <1>4 DEF Moved, us

\* emu_timer::init.
LEMMA InitTimerMoves ==
  ASSUME NEW ts, WellFormed(ts), NEW t \in Timers, t \notin Queued(ts)
  PROVE  Moved(ts, InitTimer(ts, t), t)
<1> DEFINE us == [ts EXCEPT !.enabled[t] = FALSE, !.period[t] = Never, !.expire[t] = Never]
<1>0. Never \in Time /\ ts \in TimerState
  BY NeverAssumption DEF WellFormed, Time
<1>1. us \in TimerState /\ SameBut(ts, us, t)
  BY <1>0 DEF TimerState, SameBut
<1>2. InitTimer(ts, t) = Insert(us, t)
  BY DEF InitTimer
<1>. HIDE DEF us
<1>. QED  BY <1>1, <1>2, InsertMoves

\* emu_timer::enable, when it changes something.
LEMMA EnableMoves ==
  ASSUME NEW ts, WellFormed(ts), NEW t \in Queued(ts), t \in Timers, NEW on \in BOOLEAN,
         ts.enabled[t] # on
  PROVE  Moved(ts, Enable(ts, t, on), t) /\ Enable(ts, t, on).enabled[t] = on
<1> DEFINE us == [ts EXCEPT !.enabled[t] = on]
<1>1. us \in TimerState /\ SameBut(ts, us, t) /\ us.enabled[t] = on
  BY DEF WellFormed, TimerState, SameBut
<1>2. Enable(ts, t, on) = Reinsert(us, t)
  BY DEF Enable
<1>. HIDE DEF us
<1>3. Moved(ts, Reinsert(us, t), t)
  BY <1>1, ReinsertMoves
<1>4. Reinsert(us, t).enabled = us.enabled
  BY <1>1, FieldsOf, ReinsertKeeps
<1>. QED  BY <1>1, <1>2, <1>3, <1>4

\* emu_timer::adjust.
LEMMA AdjustMoves ==
  ASSUME NEW ts, WellFormed(ts), NEW t \in Queued(ts), t \in Timers, NEW now \in Time,
         NEW delay \in Int, NEW period \in Time
  PROVE  LET us == Adjust(ts, t, now, delay, period) IN
         /\ Moved(ts, us, t) /\ Queued(us) = Queued(ts)
         /\ us.enabled[t] /\ us.expire[t] = Plus(now, ClampDelay(delay))
<1> DEFINE e == Plus(now, ClampDelay(delay))
           us == [ts EXCEPT !.enabled[t] = TRUE, !.expire[t] = e, !.period[t] = period]
           ws == Adjust(ts, t, now, delay, period)
<1>1. e \in Time
  <2>1. now \in Nat /\ ClampDelay(delay) \in Nat
    BY NeverAssumption DEF Time, ClampDelay
  <2>. QED  BY <2>1, PlusType
<1>2. us \in TimerState /\ SameBut(ts, us, t) /\ us.enabled[t] /\ us.expire[t] = e
  <2>. HIDE DEF e
  <2>. QED  BY <1>1 DEF WellFormed, TimerState, SameBut
<1>3. ws = Reinsert(us, t)
  BY DEF Adjust
<1>. HIDE DEF us, e
<1>4. Moved(ts, Reinsert(us, t), t)
  BY <1>2, ReinsertMoves
<1>5. /\ Queued(Reinsert(us, t)) = Queued(ts)
      /\ Reinsert(us, t).enabled = us.enabled /\ Reinsert(us, t).expire = us.expire
  BY <1>2, FieldsOf, ReinsertKeeps
<1>. QED  BY <1>2, <1>3, <1>4, <1>5 DEF e

\* device_scheduler::timer_set.
LEMMA SetTimerMoves ==
  ASSUME NEW ts, WellFormed(ts), NEW t \in Timers, t \notin Queued(ts), NEW now \in Time,
         NEW delay \in Int
  PROVE  LET us == SetTimer(ts, t, now, delay) IN
         /\ Moved(ts, us, t) /\ Queued(us) = Queued(ts) \cup {t}
         /\ us.enabled[t] /\ us.expire[t] = Plus(now, ClampDelay(delay))
<1> DEFINE vs == InitTimer(ts, t)
           us == Adjust(vs, t, now, delay, Never)
<1>1. WellFormed(vs) /\ Queued(vs) = Queued(ts) \cup {t} /\ Moved(ts, vs, t)
  BY InitTimerKeeps, InitTimerMoves
<1>2. Never \in Time
  BY NeverAssumption DEF Time
<1>3. SetTimer(ts, t, now, delay) = us
  BY DEF SetTimer
<1>. HIDE DEF vs
<1>4. /\ Moved(vs, us, t) /\ Queued(us) = Queued(vs)
      /\ us.enabled[t] /\ us.expire[t] = Plus(now, ClampDelay(delay))
  BY <1>1, <1>2, AdjustMoves
<1>. HIDE DEF us
<1>5. Moved(ts, us, t)
  BY <1>1, <1>4 DEF Moved, Placed
<1>. QED  BY <1>1, <1>3, <1>4, <1>5

\* emu_timer::schedule_next_period.
LEMMA NextPeriodMoves ==
  ASSUME NEW ts, WellFormed(ts), NEW t \in Queued(ts), t \in Timers
  PROVE  LET us == ScheduleNextPeriod(ts, t) IN
         /\ Moved(ts, us, t) /\ Queued(us) = Queued(ts) /\ us.enabled = ts.enabled
         /\ us.expire[t] = Plus(ts.expire[t], ts.period[t])
<1> DEFINE e == Plus(ts.expire[t], ts.period[t])
           us == [ts EXCEPT !.expire[t] = e]
           ws == ScheduleNextPeriod(ts, t)
<1>1. e \in Time
  <2>1. ts.expire[t] \in Nat /\ ts.period[t] \in Nat
    BY NeverAssumption DEF Time, WellFormed, TimerState
  <2>. QED  BY <2>1, PlusType
<1>2. us \in TimerState /\ SameBut(ts, us, t)
  <2>. HIDE DEF e
  <2>. QED  BY <1>1 DEF WellFormed, TimerState, SameBut
<1>3. ws = Reinsert(us, t)
  BY DEF ScheduleNextPeriod
<1>. HIDE DEF us
<1>4. Moved(ts, ws, t)
  BY <1>2, <1>3, ReinsertMoves
<1>5. /\ Queued(ws) = Queued(ts) /\ ws.enabled = ts.enabled
      /\ ws.expire = [ts.expire EXCEPT ![t] = e]
  BY NextPeriodKeeps
<1>6. ws.expire[t] = e
  <2>1. DOMAIN ts.expire = Timers
    BY DEF WellFormed, TimerState
  <2>. QED  BY <1>5, <2>1
<1>. QED  BY <1>4, <1>5, <1>6

-----------------------------------------------------------------------------
(* The timers of the list are on time.                                     *)

\* In these behaviours no state is loaded.
NothingLoaded == [][phase' # "detach"]_vars

\* No timer is enabled again: a timer that becomes the next one that way does
\* not cut the slice of the executing device.
NoReenabling == TRUE \notin EnableArgs

\* No device is charged more for a cycle than it answers for it: the cores that do
\* not convert clocks to cycles are charged what they answer.
Answered == \A d \in Devices : CycleTime[d] <= ClockedTime[d]

\* The timers that are disabled are behind the sentinel, but for a one-shot
\* timer while its callback runs.
DisabledLast ==
  /\ tm.enabled[Sentinel]
  /\ \A x \in Queued(tm) : \/ tm.enabled[x] \/ Before(tm, Sentinel, x)
                           \/ x = callback.timer /\ ~callback.modified

\* The executing device stops, with the instruction it is in, before a timer that
\* expires at e is an instruction late.
Cut(e) ==
  /\ executing # None /\ dev[executing].icount <= 0
  /\ dev[executing].localtime + Done * CycleTime[executing] <= e + Overshoot

\* A timer that expires at e is not late, and will not be when the slice ends.
InTime(e) ==
  /\ basetime <= e + Overshoot
  /\ Turning => target <= e + Overshoot \/ Cut(e)

Waiting == \A x \in Queued(tm) : tm.enabled[x] => InTime(tm.expire[x])

\* The timer whose callback runs was not late.
Rung ==
  callback.timer # None =>
    /\ basetime <= callback.expire + Overshoot
    /\ ~callback.modified => tm.expire[callback.timer] = callback.expire

Awaited == ~Loading /\ DisabledLast /\ Waiting /\ Rung

\* The head of the list is enabled, between the callbacks.
LEMMA HeadEnabled ==
  ASSUME IInv, ~Loading, DisabledLast, callback.timer = None \/ callback.modified
  PROVE  tm.enabled[Head(tm.list)]
<1>1. WellFormed(tm) /\ tm.list # <<>> /\ None \notin Timers /\ Head(tm.list) \in Queued(tm)
      /\ Queued(tm) \subseteq Timers
  BY ListFacts, SchedulerAssumption DEF Loading
<1>2. ~Before(tm, Sentinel, Head(tm.list))
  BY <1>1, HeadFirst DEF WellFormed
<1>. QED  BY <1>1, <1>2 DEF DisabledLast

\* Setting a timer leaves the disabled ones behind the sentinel.
LEMMA FrontMoves ==
  ASSUME IInv, ~Loading, DisabledLast, NEW t \in Timers \ {Sentinel}, Moved(tm, tm', t),
         \A x \in Timers \ {t} : x = callback.timer /\ ~callback.modified
                                   => x = callback'.timer /\ ~callback'.modified
  PROVE  DisabledLast'
<1> DEFINE us == tm'
<1>1. WellFormed(tm) /\ Queued(tm) \subseteq Timers /\ Sentinel \in Queued(tm) /\ Sentinel \in Timers
      /\ tm.expire[Sentinel] = Never
  BY ListFacts, TimerAssumption DEF Loading
<1>2. /\ WellFormed(us) /\ Queued(us) \ {t} = Queued(tm) \ {t} /\ Placed(tm, us, t)
      /\ \A x \in Timers \ {t} : us.enabled[x] = tm.enabled[x] /\ us.expire[x] = tm.expire[x]
  BY DEF Moved
<1>3. us \in TimerState /\ Distinct(us)
  BY <1>2 DEF WellFormed
<1>4. us.enabled[Sentinel] /\ Sentinel \in Queued(us)
  BY <1>1, <1>2 DEF DisabledLast
<1>5. ASSUME NEW x \in Queued(us), x # t
      PROVE  us.enabled[x] \/ Before(us, Sentinel, x) \/ (x = callback'.timer /\ ~callback'.modified)
  <2>1. x \in Queued(tm) /\ x \in Timers
    BY <1>1, <1>2, <1>5
  <2>2. Before(us, Sentinel, x) <=> Before(tm, Sentinel, x)
    BY <1>2, <1>5 DEF Placed
  <2>. QED  BY <1>2, <1>5, <2>1, <2>2 DEF DisabledLast
<1>6. ASSUME t \in Queued(us), ~us.enabled[t] PROVE Before(us, Sentinel, t)
  <2>1. Before(us, Sentinel, t) \/ Before(us, t, Sentinel)
    BY <1>3, <1>4, <1>6, BeforeFacts
  <2>2. SortKey(us, t) = Never /\ SortKey(us, Sentinel) \in Time
    BY <1>1, <1>3, <1>6, SortKeyFacts DEF SortKey
  <2>3. Before(us, t, Sentinel) => SortKey(us, Sentinel) > Never
    BY <1>2, <2>2 DEF Placed
  <2>. QED  BY <2>1, <2>2, <2>3, NeverAssumption DEF Time
<1>. HIDE DEF us
<1>7. \A x \in Queued(us) : us.enabled[x] \/ Before(us, Sentinel, x)
                              \/ (x = callback'.timer /\ ~callback'.modified)
  BY <1>5, <1>6
<1>. QED  BY <1>4, <1>7 DEF DisabledLast, us

\* Who asks for the time is at most an instruction behind the base time.
LEMMA NowFacts ==
  ASSUME IInv, Bounded, Answered, Stepping, Rung, Now < Never
  PROVE  /\ Now \in Nat /\ basetime <= Now + Overshoot
         /\ executing # None =>
              dev[executing].localtime +
                (dev[executing].running - dev[executing].icount) * CycleTime[executing] <= Now
<1>0. basetime \in Nat /\ Overshoot \in Nat /\ Now \in Nat
  BY NowType, NeverAssumption, Extremes DEF IInv, TypeOK, Time
<1>1. CASE callback.timer # None
  <2>1. executing = None /\ Now = callback.expire
    BY <1>1 DEF IInv, Control, Now
  <2>. QED  BY <1>0, <1>1, <2>1 DEF Rung
<1>2. CASE callback.timer = None /\ executing = None
  BY <1>0, <1>2 DEF Now
<1>3. CASE callback.timer = None /\ executing # None
  <2> DEFINE l == dev[executing].localtime  r == dev[executing].running  i == dev[executing].icount
             c == CycleTime[executing]  k == ClockedTime[executing]
             n == r - i  x == n * k  y == n * c
  <2>1. executing \in Devices
    BY <1>3 DEF IInv, TypeOK
  <2>2. /\ l \in Nat /\ c \in Nat \ {0} /\ basetime < l + c /\ c <= Overshoot
        /\ n \in Nat /\ Never \in Nat
    <3>1. /\ l \in Nat /\ c \in Nat \ {0} /\ basetime < l + c /\ c <= Overshoot
          /\ r \in Nat /\ i \in Int /\ i <= r /\ Never \in Nat
      BY <1>3, <2>1, TurnNumbers, DeviceFacts, Extremes DEF Stepping, Keeping, DeviceRecord
    <3>. HIDE DEF l, r, i, c
    <3>. QED  BY <3>1
  <2>3. Now = Plus(l, x)
    BY <1>3 DEF Now, LocalTime
  <2>4. k \in Nat /\ c <= k
    BY <2>1, SchedulerAssumption DEF Answered
  <2>. HIDE DEF l, n, c, k
  <2>5. x \in Nat /\ y \in Nat /\ y <= x
    <3>1. k - c \in Nat /\ c \in Nat
      BY <2>2, <2>4
    <3>2. n * (k - c) \in Nat /\ n * (k - c) = n * k - n * c /\ n * k \in Nat /\ n * c \in Nat
      BY <2>2, <2>4, <3>1
    <3>. QED  BY <3>2
  <2>. HIDE DEF x, y
  <2>6. Now = l + x
    BY <2>2, <2>3, <2>5 DEF Plus
  <2>7. basetime <= Now + Overshoot /\ l + y <= Now
    BY <1>0, <2>2, <2>5, <2>6
  <2>. QED  BY <1>0, <2>7 DEF l, n, r, i, c, y
<1>. QED  BY <1>1, <1>2, <1>3

\* The time a timer is set for is not before now.
LEMMA SetLater ==
  ASSUME NEW now \in Nat, now < Never, NEW delay \in Int
  PROVE  now <= Plus(now, ClampDelay(delay)) /\ Plus(now, ClampDelay(delay)) \in Nat
BY NeverAssumption DEF Plus, ClampDelay

\* What a call takes from the executing device does not make it go on.
LEMMA SpentCuts ==
  ASSUME NEW d \in DeviceRecord, NEW e \in DeviceRecord, Spent(d, e), d.icount <= 0
  PROVE  e.icount <= 0 /\ e.running - e.icount <= d.running - d.icount
<1>1. d.running \in Nat /\ d.icount \in Int /\ e.running \in Nat /\ e.icount \in Int
  BY DEF DeviceRecord
<1>2. CASE e.running - e.icount = d.running - d.icount
           /\ (e.icount = 0 \/ (e.icount = d.icount /\ e.running = d.running))
  BY <1>1, <1>2
<1>3. CASE \E cycles \in EatArgs :
             e.running = d.running /\ e.icount = IF cycles > d.icount THEN 0 ELSE d.icount - cycles
  <2>1. PICK cycles \in EatArgs :
             e.running = d.running /\ e.icount = IF cycles > d.icount THEN 0 ELSE d.icount - cycles
    BY <1>3
  <2>2. cycles \in Nat
    BY SchedulerAssumption
  <2> DEFINE i == d.icount  r == d.running  j == e.icount
  <2>3. /\ i \in Int /\ r \in Nat /\ j = IF cycles > i THEN 0 ELSE i - cycles
        /\ i <= 0
    BY <1>1, <2>1
  <2>. HIDE DEF i, r, j
  <2>4. j <= 0 /\ r - j <= r - i
    BY <2>2, <2>3
  <2>. QED  BY <2>1, <2>4 DEF i, r, j
<1>. QED  BY <1>2, <1>3 DEF Spent

\* A device that stops in time still does after a call.
LEMMA CutCall ==
  ASSUME IInv, Bounded, Calls, NEW e \in Nat, Cut(e)
  PROVE  Cut(e)'
<1> DEFINE d == dev[executing]  f == dev'[executing]  c == CycleTime[executing]
           x == d.running - d.icount + owed  y == f.running - f.icount + owed
<1>1. /\ executing \in Devices /\ executing' = executing /\ owed' = owed /\ executing # None
      /\ d \in DeviceRecord /\ f \in DeviceRecord /\ Spent(d, f) /\ f.localtime = d.localtime
      /\ owed \in Nat
  BY DEF Cut, Calls, Touched, IInv, TypeOK
<1>2. d.icount <= 0 /\ d.localtime + x * c <= e + Overshoot
  BY DEF Cut, Done
<1>3. f.icount <= 0 /\ f.running - f.icount <= d.running - d.icount
  <2>. HIDE DEF d, f
  <2>. QED  BY <1>1, <1>2, SpentCuts
<1>4. c \in Nat \ {0} /\ Overshoot \in Nat /\ Overshoot' = Overshoot
  BY <1>1, TurnNumbers, Extremes DEF Overshoot
<1>5. x \in Int /\ y \in Int /\ y <= x /\ d.localtime \in Nat
  <2>1. /\ d.running \in Nat /\ d.icount \in Int /\ f.running \in Nat /\ f.icount \in Int
        /\ d.localtime \in Nat
    BY <1>1, NeverAssumption DEF DeviceRecord, Time
  <2>. QED  BY <1>1, <1>3, <2>1
<1>6. f.localtime + y * c <= e + Overshoot
  <2>1. y * c <= x * c /\ y * c \in Int /\ x * c \in Int
    <3>. HIDE DEF x, y, c
    <3>1. (x - y) * c \in Nat /\ (x - y) * c = x * c - y * c /\ x * c \in Int /\ y * c \in Int
      <4>1. x - y \in Nat
        BY <1>5
      <4>. QED  BY <1>4, <1>5, <4>1
    <3>. QED  BY <3>1
  <2> DEFINE p == x * c  q == y * c
  <2>2. p \in Int /\ q \in Int /\ q <= p /\ d.localtime + p <= e + Overshoot
    BY <1>2, <2>1
  <2>. HIDE DEF p, q
  <2>3. d.localtime + q <= e + Overshoot
    BY <1>4, <1>5, <2>2
  <2>. QED  BY <1>1, <2>3 DEF q
<1>. QED  BY <1>1, <1>3, <1>4, <1>6 DEF Cut, Done

\* A later timer is in time if an earlier one is.
LEMMA LaterInTime ==
  ASSUME IInv, Bounded, NEW e \in Nat, NEW f \in Nat, e <= f, InTime(e)
  PROVE  InTime(f)
<1>1. Overshoot \in Nat /\ basetime \in Nat /\ target \in Nat
  BY Extremes, NeverAssumption DEF IInv, TypeOK
<1>2. basetime <= f + Overshoot
  BY <1>1 DEF InTime
<1>3. target <= e + Overshoot => target <= f + Overshoot
  BY <1>1
<1>4. Cut(e) => Cut(f)
  <2> DEFINE z == dev[executing].localtime + Done * CycleTime[executing]
  <2>1. ASSUME executing # None PROVE z \in Int
    <3>1. executing \in Devices /\ dev[executing] \in DeviceRecord /\ owed \in Nat
      BY <2>1 DEF IInv, TypeOK
    <3>2. Done \in Int
      BY <3>1 DEF Done, DeviceRecord
    <3>3. CycleTime[executing] \in Nat /\ dev[executing].localtime \in Nat
      BY <3>1, TurnNumbers
    <3>. QED  BY <3>2, <3>3
  <2>2. executing # None /\ z <= e + Overshoot => z <= f + Overshoot
    <3>. HIDE DEF z
    <3>. QED  BY <1>1, <2>1
  <2>. QED  BY <2>2 DEF Cut
<1>. QED  BY <1>2, <1>3, <1>4 DEF InTime

-----------------------------------------------------------------------------
(* The calls of emulated code.                                             *)

\* A call does not make a timer late that is in time.
LEMMA OldInTime ==
  ASSUME IInv, Bounded, Calls, NEW e \in Nat, InTime(e)
  PROVE  InTime(e)'
<1>1. UNCHANGED <<phase, basetime, target>> /\ Overshoot' = Overshoot
  BY DEF Calls, Overshoot
<1>2. Cut(e) => Cut(e)'
  BY CutCall
<1>. QED  BY <1>1, <1>2 DEF InTime, Turning

\* The expiry of a timer is a number.
LEMMA ExpiryType ==
  ASSUME NEW ts, WellFormed(ts)
  PROVE  \A x \in Timers : ts.expire[x] \in Nat
BY NeverAssumption DEF WellFormed, TimerState, Time

\* A timer that is set is in time: the executing device is stopped if it is the next
\* one, and else has a target that is in time for the next one.
LEMMA SetInTime ==
  ASSUME IInv, Bounded, Answered, Stepping, Owing, Awaited, Calls, Now < Never,
         NEW t \in Timers \ {Sentinel}, t \in Queued(tm'), tm'.enabled[t], Moved(tm, tm', t),
         DisabledLast', callback'.timer = callback.timer, dev' = ResyncOn(tm', t),
         NEW e \in Nat, e = tm'.expire[t], Now <= e
  PROVE  InTime(e)'
<1> DEFINE us == tm'  h == Head(us.list)
<1>1. /\ WellFormed(us) /\ us \in TimerState /\ Distinct(us)
      /\ us.list # <<>>
  <2>1. WellFormed(us)
    BY DEF Moved
  <2>2. us.list # <<>>
    BY DEF Queued
  <2>. QED  BY <2>1, <2>2, ExpiryType DEF WellFormed
<1>2. /\ Now \in Nat /\ basetime <= Now + Overshoot /\ Overshoot \in Nat /\ basetime \in Nat
      /\ UNCHANGED <<phase, basetime, target, executing, owed>> /\ Overshoot' = Overshoot
  BY NowFacts, Extremes, NeverAssumption DEF Calls, Overshoot, IInv, TypeOK, Awaited
<1>3. basetime <= e + Overshoot
  BY <1>1, <1>2
<1>4. CASE ~Turning
  BY <1>2, <1>3, <1>4 DEF InTime, Turning
<1>5. ASSUME Turning PROVE phase = "instruction" /\ executing # None /\ callback.timer = None
  BY <1>5 DEF Turning, Calls, IInv, Control
<1>6. CASE Turning /\ h = t
  <2> DEFINE d == dev[executing]  f == dev'[executing]  c == CycleTime[executing]
             r == d.running - d.icount  l == d.localtime
  <2>1. executing \in Devices /\ d \in DeviceRecord /\ dev \in [Devices -> DeviceRecord]
    BY <1>5, <1>6 DEF IInv, TypeOK
  <2>2. f = AbortTimeslice(d, TRUE)
    BY <1>5, <1>6, <2>1 DEF ResyncOn
  <2>3. f.icount = 0 /\ f.running = r /\ f.localtime = l
    <3>. HIDE DEF d, f
    <3>. QED  BY <2>1, <2>2 DEF AbortTimeslice, DeviceRecord
  <2>4. l + r * c <= Now
    BY <1>5, <1>6, NowFacts DEF Awaited
  <2>5. owed \in Nat /\ owed <= LongestInstruction /\ LongestInstruction \in Nat
    BY Extremes DEF Owing, IInv, TypeOK
  <2>6. /\ c \in Nat \ {0} /\ LongestInstruction * c <= Overshoot /\ l \in Nat /\ r \in Int
    BY <2>1, TurnNumbers, Extremes DEF DeviceRecord
  <2>7. l + (r - 0 + owed) * c <= e + Overshoot
    <3>1. owed * c <= Overshoot /\ owed * c \in Nat
      <4> DEFINE m == LongestInstruction
      <4>1. owed \in Nat /\ m \in Nat /\ owed <= m /\ m * c <= Overshoot
        BY <2>5, <2>6
      <4>. HIDE DEF m, c
      <4>2. (m - owed) * c \in Nat /\ (m - owed) * c = m * c - owed * c /\ m * c \in Nat /\ owed * c \in Nat
        <5>1. m - owed \in Nat
          BY <4>1
        <5>. QED  BY <2>6, <4>1, <5>1
      <4> DEFINE p == m * c  q == owed * c
      <4>3. p - q \in Nat /\ p \in Nat /\ q \in Nat /\ p <= Overshoot
        BY <4>1, <4>2
      <4>. HIDE DEF p, q
      <4>4. q <= Overshoot
        BY <1>2, <4>3
      <4>. QED  BY <4>3, <4>4 DEF q
    <3>2. (r - 0 + owed) * c = r * c + owed * c /\ r * c \in Int
      <4>. HIDE DEF r, c
      <4>. QED  BY <2>5, <2>6
    <3> DEFINE p == r * c  q == owed * c  z == (r - 0 + owed) * c
    <3>3. z = p + q /\ p \in Int /\ q \in Nat /\ q <= Overshoot /\ l + p <= Now /\ Now <= e
      BY <2>4, <3>1, <3>2
    <3>. HIDE DEF p, q, z, l
    <3>4. l + z <= e + Overshoot
      BY <1>1, <1>2, <2>6, <3>3, SMTT(30)
    <3>. QED  BY <3>4 DEF z
  <2>8. Cut(e)'
    <3>. HIDE DEF r
    <3>. QED  BY <1>2, <1>5, <1>6, <2>3, <2>7 DEF Cut, Done
  <2>. QED  BY <1>2, <1>3, <2>8 DEF InTime
<1>7. CASE Turning /\ h # t
  <2>1. WellFormed(tm) /\ Queued(tm) \subseteq Timers /\ None \notin Timers
    BY ListFacts, SchedulerAssumption DEF Loading, Awaited
  <2>2. h \in Queued(us) /\ ~Before(us, Sentinel, h)
    BY <1>1, HeadFirst
  <2>3. h \in Queued(tm) /\ h \in Timers \ {t}
    BY <1>7, <2>1, <2>2 DEF Moved
  <2>4. us.enabled[h]
    BY <1>5, <1>7, <2>1, <2>2, <2>3 DEF DisabledLast
  <2>5. us.expire[h] <= e
    BY <1>1, HeadIsNext
  <2>6. tm.enabled[h] /\ us.expire[h] = tm.expire[h]
    BY <2>3, <2>4 DEF Moved
  <2>7. InTime(tm.expire[h])
    BY <2>3, <2>6 DEF Waiting, Awaited
  <2>8. tm.expire[h] \in Nat
    BY <2>1, <2>3, ExpiryType
  <2>9. InTime(e)
    <3>. HIDE DEF us, h
    <3>. QED  BY <1>1, <2>5, <2>6, <2>7, <2>8, LaterInTime
  <2>10. \A n \in Nat : InTime(n) => InTime(n)'
    BY OldInTime
  <2>. QED  BY <1>1, <2>9, <2>10
<1>. QED  BY <1>4, <1>6, <1>7

\* The timers that are not set stay in time, so all are if the one that is set is.
LEMMA WaitingMoves ==
  ASSUME IInv, Awaited, NEW t \in Timers, Moved(tm, tm', t),
         \A e \in Nat : InTime(e) => InTime(e)',
         \A e \in Nat : t \in Queued(tm') /\ tm'.enabled[t] /\ e = tm'.expire[t] => InTime(e)'
  PROVE  Waiting'
<1>1. SUFFICES ASSUME NEW x \in Queued(tm'), tm'.enabled[x] PROVE InTime(tm.expire[x])'
  BY DEF Waiting
<1>2. WellFormed(tm) /\ Queued(tm) \subseteq Timers /\ WellFormed(tm')
  BY ListFacts DEF Moved, Awaited, Loading
<1>3. x \in Timers
  BY <1>1, <1>2 DEF Moved
<1> DEFINE f == tm'.expire[x]
<1>4. f \in Nat
  BY <1>2, <1>3, ExpiryType
<1>5. CASE x = t
  <2>1. \A e \in Nat : e = f => InTime(e)'
    BY <1>1, <1>5
  <2>. QED  BY <1>4, <2>1 DEF InTime, Cut, Done, Turning
<1>6. CASE x # t
  <2>1. x \in Queued(tm) /\ tm.enabled[x] /\ f = tm.expire[x]
    BY <1>1, <1>3, <1>6 DEF Moved
  <2>2. InTime(tm.expire[x])
    BY <2>1 DEF Waiting, Awaited
  <2>3. \A e \in Nat : e = f => InTime(e)'
    BY <2>1, <2>2
  <2>. QED  BY <1>4, <2>3 DEF InTime, Cut, Done, Turning
<1>. QED  BY <1>5, <1>6

\* A step that leaves the timers alone keeps those in time that wait.
LEMMA WaitingStays ==
  ASSUME IInv, Awaited, tm' = tm, \A e \in Nat : InTime(e) => InTime(e)'
  PROVE  Waiting'
<1>1. SUFFICES ASSUME NEW x \in Queued(tm), tm.enabled[x] PROVE InTime(tm.expire[x])'
  BY DEF Waiting
<1>2. tm.expire[x] \in Nat
  BY ListFacts, ExpiryType DEF Awaited, Loading
<1>3. InTime(tm.expire[x])
  BY <1>1 DEF Waiting, Awaited
<1> DEFINE f == tm.expire[x]
<1>4. \A e \in Nat : e = f => InTime(e)'
  BY <1>2, <1>3
<1>. QED  BY <1>2, <1>4 DEF InTime, Cut, Done, Turning

LEMMA CallAwaits ==
  ASSUME IInv, Bounded, Answered, Stepping, Owing, NoReenabling, Awaited, EmulatedCall
  PROVE  Awaited'
<1>1. Calls /\ ~Loading' /\ UNCHANGED <<phase, basetime>> /\ Overshoot' = Overshoot
  BY CallFacts DEF Calls, Loading, Awaited, Overshoot
<1>2. \A e \in Nat : InTime(e) => InTime(e)'
  BY <1>1, OldInTime
<1>3. /\ WellFormed(tm) /\ Queued(tm) \subseteq Timers /\ Sentinel \in Queued(tm)
      /\ Sentinel \in Anonymous /\ Anonymous \subseteq Timers
      /\ (callback.timer # None => callback.timer \in Queued(tm) \ {Sentinel})
      /\ callback \in [timer : Timers \cup {None}, modified : BOOLEAN, expire : Time]
  BY ListFacts, TimerAssumption DEF Awaited, Loading, IInv, TimersInv, TypeOK
<1>4. MayCall => Now \in Nat /\ Now < Never /\ Now \in Time
  BY NowType, NeverAssumption DEF MayCall, Time
<1>5. ASSUME NEW t \in Timers, NEW delay \in Delays, TimerSet(t, delay) PROVE Awaited'
  <2>1. /\ MayCall /\ t \in Anonymous \ Queued(tm) /\ tm' = SetTimer(tm, t, Now, delay)
        /\ dev' = ResyncOn(tm', t) /\ callback' = callback
    BY <1>5 DEF TimerSet, Call
  <2>2. delay \in Int /\ t \in Timers \ {Sentinel}
    BY <1>3, <2>1, SchedulerAssumption
  <2> DEFINE f == Plus(Now, ClampDelay(delay))
  <2>3. /\ Moved(tm, tm', t) /\ t \in Queued(tm')
        /\ tm'.enabled[t] /\ tm'.expire[t] = f
    <3> DEFINE us == SetTimer(tm, t, Now, delay)
    <3>1. t \in Timers /\ t \notin Queued(tm) /\ WellFormed(tm) /\ Now \in Time /\ delay \in Int
      BY <1>3, <1>4, <2>1, <2>2
    <3>2. \A n \in Time, w \in Int :
            LET rs == SetTimer(tm, t, n, w) IN
            /\ Moved(tm, rs, t) /\ Queued(rs) = Queued(tm) \cup {t}
            /\ rs.enabled[t] /\ rs.expire[t] = Plus(n, ClampDelay(w))
      BY <3>1, SetTimerMoves
    <3>. QED  BY <2>1, <3>1, <3>2
  <2>4. f \in Nat /\ Now <= f
    BY <1>4, <2>1, <2>2, SetLater
  <2>. HIDE DEF f
  <2>5. DisabledLast'
    BY <1>3, <2>1, <2>2, <2>3, FrontMoves DEF Awaited
  <2>6. \A e \in Nat : e = tm'.expire[t] => InTime(e)'
    BY <1>1, <1>4, <2>1, <2>2, <2>3, <2>4, <2>5, SetInTime
  <2>7. Waiting'
    BY <1>2, <2>2, <2>3, <2>6, WaitingMoves
  <2>8. Rung'
    <3>1. callback.timer # None => tm'.expire[callback.timer] = tm.expire[callback.timer]
      BY <1>3, <2>1, <2>3 DEF Moved
    <3>. QED  BY <1>1, <2>1, <3>1 DEF Rung, Awaited
  <2>. QED  BY <1>1, <2>5, <2>7, <2>8 DEF Awaited
<1>6. ASSUME NEW t \in Timers, NEW delay \in Delays, NEW period \in Periods,
             TimerAdjust(t, delay, period)
      PROVE  Awaited'
  <2>1. /\ MayCall /\ t \in Queued(tm) /\ (t \notin Anonymous \/ t = callback.timer)
        /\ tm' = Adjust(tm, t, Now, delay, period) /\ dev' = ResyncOn(tm', t)
        /\ callback' = [callback EXCEPT !.modified = @ \/ callback.timer = t]
    BY <1>6 DEF TimerAdjust, Call, Known
  <2>2. delay \in Int /\ period \in Time /\ t \in Timers \ {Sentinel}
    BY <1>3, <2>1, SchedulerAssumption
  <2>3. /\ callback'.timer = callback.timer /\ callback'.expire = callback.expire
        /\ callback'.modified = (callback.modified \/ callback.timer = t)
    BY <1>3, <2>1
  <2> DEFINE f == Plus(Now, ClampDelay(delay))
  <2>4. /\ Moved(tm, tm', t) /\ t \in Queued(tm')
        /\ tm'.enabled[t] /\ tm'.expire[t] = f
    <3>1. WellFormed(tm) /\ Now \in Time /\ t \in Queued(tm)
      BY <1>3, <1>4, <2>1
    <3>2. \A n \in Time, w \in Int, p \in Time :
            LET rs == Adjust(tm, t, n, w, p) IN
            /\ Moved(tm, rs, t) /\ Queued(rs) = Queued(tm)
            /\ rs.enabled[t] /\ rs.expire[t] = Plus(n, ClampDelay(w))
      BY <3>1, AdjustMoves
    <3>. QED  BY <2>1, <2>2, <3>1, <3>2
  <2>5. f \in Nat /\ Now <= f
    BY <1>4, <2>1, <2>2, SetLater
  <2>. HIDE DEF f
  <2>6. DisabledLast'
    <3>1. \A x \in Timers \ {t} : x = callback.timer /\ ~callback.modified
                                    => x = callback'.timer /\ ~callback'.modified
      BY <2>3
    <3>. QED  BY <2>2, <2>4, <3>1, FrontMoves DEF Awaited
  <2>7. \A e \in Nat : e = tm'.expire[t] => InTime(e)'
    BY <1>1, <1>4, <2>1, <2>2, <2>3, <2>4, <2>5, <2>6, SetInTime
  <2>8. Waiting'
    BY <1>2, <2>2, <2>4, <2>7, WaitingMoves
  <2>9. Rung'
    <3>1. callback.timer # None /\ callback.timer # t
            => tm'.expire[callback.timer] = tm.expire[callback.timer]
      BY <1>3, <2>4 DEF Moved
    <3>. QED  BY <1>1, <2>3, <3>1 DEF Rung, Awaited
  <2>. QED  BY <1>1, <2>6, <2>8, <2>9 DEF Awaited
<1>7. ASSUME NEW t \in Timers, NEW on \in EnableArgs, TimerEnable(t, on) PROVE Awaited'
  <2>1. /\ t \in Queued(tm) /\ (t \notin Anonymous \/ t = callback.timer)
        /\ tm' = Enable(tm, t, FALSE) /\ callback' = callback
    BY <1>7, SchedulerAssumption DEF TimerEnable, Known, NoReenabling
  <2>2. CASE tm.enabled[t] = FALSE
    <3>1. tm' = tm
      BY <2>1, <2>2 DEF Enable
    <3>2. Waiting'
      BY <1>2, <3>1, WaitingStays
    <3>. QED  BY <1>1, <2>1, <3>1, <3>2 DEF Awaited, DisabledLast, Rung
  <2>3. CASE tm.enabled[t] # FALSE
    <3>1. t \in Timers \ {Sentinel}
      BY <1>3, <2>1, SchedulerAssumption
    <3>2. Moved(tm, tm', t) /\ tm'.enabled[t] = FALSE
      BY <1>3, <2>1, <2>3, EnableMoves
    <3>3. tm'.expire = tm.expire
      BY <1>3, <2>1, EnableKeeps
    <3>4. DisabledLast'
      BY <2>1, <3>1, <3>2, FrontMoves DEF Awaited
    <3>5. Waiting'
      BY <1>2, <3>1, <3>2, WaitingMoves
    <3>6. Rung'
      BY <1>1, <2>1, <3>3 DEF Rung, Awaited
    <3>. QED  BY <1>1, <3>4, <3>5, <3>6 DEF Awaited
  <2>4. tm.enabled[t] \in BOOLEAN
    BY <1>3 DEF WellFormed, TimerState
  <2>. QED  BY <2>2, <2>3
<1>8. CASE UNCHANGED <<tm, callback>>
  <2>1. Waiting'
    BY <1>2, <1>8, WaitingStays
  <2>. QED  BY <1>1, <1>8, <2>1 DEF Awaited, DisabledLast, Rung
<1>9. \/ UNCHANGED <<tm, callback>>
      \/ \E t \in Timers, delay \in Delays :
           \/ TimerSet(t, delay)
           \/ \E period \in Periods : TimerAdjust(t, delay, period)
      \/ \E t \in Timers, on \in EnableArgs : TimerEnable(t, on)
  BY DEF EmulatedCall, SuspendDevice, ResumeDevice, AwaitTrigger, FireTrigger, Eat, BoostInterleave
<1>. QED  BY <1>5, <1>6, <1>7, <1>8, <1>9

-----------------------------------------------------------------------------
(* The steps of the slice and of the callbacks.                            *)

\* A step of a slice, which leaves the timers alone, keeps those in time that wait.
LEMMA SliceAwaits ==
  ASSUME IInv, Bounded, Aims, Owing, Awaited, [Next]_vars, ~EmulatedCall, ~Still, phase' # "detach"
  PROVE  UNCHANGED <<tm, callback>> /\ Awaited'
<1>0. /\ Overshoot \in Nat /\ Overshoot' = Overshoot
      /\ basetime \in Nat /\ target \in Nat
      /\ (phase \in {"run", "instruction"} <=> executing # None)
      /\ phase \notin {"detach", "reattach"}
      /\ WellFormed(tm) /\ Queued(tm) \subseteq Timers /\ None \notin Timers
      /\ callback.timer # None => phase = "callback"
  BY Extremes, ListFacts, SchedulerAssumption, NeverAssumption
  DEF Overshoot, IInv, TypeOK, Control, Awaited, Loading
<1>1. ASSUME UNCHANGED <<tm, callback, basetime>>, phase' \notin {"detach", "reattach"},
             \A e \in Nat : InTime(e) => InTime(e)'
      PROVE  UNCHANGED <<tm, callback>> /\ Awaited'
  <2>1. Waiting'
    BY <1>1, WaitingStays
  <2>. QED  BY <1>0, <1>1, <2>1 DEF Awaited, DisabledLast, Rung, Loading
<1>2. CASE BeginSlice
  <2>1. /\ UNCHANGED <<tm, callback, basetime>> /\ phase' = "turn" /\ executing = None
        /\ callback.timer = None
    BY <1>0, <1>2 DEF BeginSlice, IInv, Control
  <2>2. target' <= HeadExpire(tm) /\ target' \in Nat
    BY <1>2, TargetFacts, TargetType
  <2>3. \A x \in Queued(tm) : tm.enabled[x] => HeadExpire(tm) <= tm.expire[x] /\ tm.expire[x] \in Nat
    BY <1>0, HeadIsNext, ExpiryType DEF HeadExpire
  <2>4. HeadExpire(tm) \in Nat
    BY TargetFacts, <1>2, NeverAssumption DEF Time
  <2>5. \A x \in Queued(tm) : tm.enabled[x] =>
          basetime <= tm.expire[x] + Overshoot /\ target' <= tm.expire[x] + Overshoot
    BY <1>0, <2>2, <2>3, <2>4 DEF Awaited, Waiting, InTime
  <2>6. Waiting'
    BY <1>0, <2>1, <2>5 DEF Waiting, InTime
  <2>. QED  BY <1>0, <2>1, <2>6 DEF Awaited, DisabledLast, Rung, Loading
<1>3. CASE EndInstruction
  <2>1. /\ UNCHANGED <<tm, callback, basetime, target, executing>> /\ phase = "instruction"
        /\ phase' = "run" /\ owed' = 0 /\ dev' = [dev EXCEPT ![executing].icount = @ - owed]
    BY <1>3 DEF EndInstruction
  <2>2. executing \in Devices /\ executing # None /\ dev \in [Devices -> DeviceRecord] /\ owed \in Nat
    BY <1>0, <2>1 DEF IInv, TypeOK
  <2> DEFINE d == dev[executing]  f == dev'[executing]
  <2>3. d \in DeviceRecord /\ f = [d EXCEPT !.icount = d.icount - owed]
    BY <2>1, <2>2
  <2>. HIDE DEF d, f
  <2>4. /\ f.localtime = d.localtime /\ f.running = d.running /\ f.icount = d.icount - owed
        /\ d.running \in Nat /\ d.icount \in Int
    BY <2>3 DEF DeviceRecord
  <2>5. /\ d.icount <= 0 => f.icount <= 0
        /\ f.running - f.icount + 0 = d.running - d.icount + owed
    BY <2>2, <2>4
  <2>6. \A e \in Nat : Cut(e) => Cut(e)'
    BY <1>0, <2>1, <2>2, <2>4, <2>5 DEF Cut, Done, d, f
  <2>7. \A e \in Nat : InTime(e) => InTime(e)'
    BY <1>0, <2>1, <2>6 DEF InTime, Turning
  <2>. QED  BY <1>1, <2>1, <2>7
<1>4. CASE LeaveDevice
  <2> DEFINE r == dev[executing].running - dev[executing].icount  c == CycleTime[executing]
             l == dev[executing].localtime  m == dev'[executing].localtime  t == target  b == basetime
  <2>1. /\ executing \in Devices /\ phase = "run" /\ phase' = "turn" /\ executing' = None
        /\ r \in Nat /\ Account(executing, r) /\ UNCHANGED <<basetime, tm, callback>>
    BY <1>4, LeaveFacts DEF LeaveDevice
  <2>2. m = Plus(l, r * c) /\ target' = (IF m < t THEN (IF m > b THEN m ELSE b) ELSE t) /\ m \in Nat
    BY <2>1, AccountFacts
  <2>3. owed = 0
    BY <2>1 DEF Owing
  <2>4. c \in Nat \ {0} /\ l \in Nat /\ t \in Nat /\ b \in Nat /\ Never \in Nat
    BY <2>1, TurnNumbers
  <2>5. \A e \in Nat : Cut(e) => l + (r + 0) * c <= e + Overshoot
    BY <2>3 DEF Cut, Done
  <2>6. target' \in Nat /\ target' <= t
    BY <2>2, <2>4, <2>1 DEF Aims, Turning
  <2>7. ASSUME NEW e \in Nat, b <= e + Overshoot, l + (r + 0) * c <= e + Overshoot
        PROVE  target' <= e + Overshoot
    <3> DEFINE x == r * c
    <3>1. (r + 0) * c = x /\ x \in Nat
      <4>. HIDE DEF r, c
      <4>. QED  BY <2>1, <2>4
    <3>. HIDE DEF r, c, m
    <3>2. l + x <= e + Overshoot
      BY <2>7, <3>1
    <3>. HIDE DEF x
    <3>3. m <= l + x
      BY <2>2, <2>4, <3>1 DEF Plus, x
    <3>. HIDE DEF l, t, b
    <3>4. target' <= e + Overshoot
      BY <1>0, <2>2, <2>4, <2>7, <3>1, <3>2, <3>3
    <3>. QED  BY <3>4
  <2>8. ASSUME NEW e \in Nat, InTime(e) PROVE InTime(e)'
    <3>1. b <= e + Overshoot /\ (t <= e + Overshoot \/ Cut(e))
      BY <2>1, <2>8 DEF InTime, Turning
    <3>2. t <= e + Overshoot => target' <= e + Overshoot
      <4>. HIDE DEF t
      <4>. QED  BY <1>0, <2>4, <2>6
    <3>3. target' <= e + Overshoot
      BY <2>5, <2>7, <3>1, <3>2
    <3>. QED  BY <1>0, <2>1, <3>1, <3>3 DEF InTime
  <2>. QED  BY <1>1, <2>1, <2>8
<1>5. CASE EndSlice
  <2>1. /\ UNCHANGED <<tm, callback>> /\ phase = "turn" /\ phase' = "slice" /\ basetime' = target
        /\ executing = None
    BY <1>0, <1>5 DEF EndSlice
  <2>2. \A x \in Queued(tm) : tm.enabled[x] => target <= tm.expire[x] + Overshoot
    BY <2>1 DEF Awaited, Waiting, InTime, Turning, Cut
  <2>3. Waiting'
    BY <1>0, <2>1, <2>2 DEF Waiting, InTime, Turning
  <2>. QED  BY <1>0, <2>1, <2>3 DEF Awaited, DisabledLast, Rung, Loading
<1>6. ASSUME NEW d \in Devices, SkipTurn(d) PROVE UNCHANGED <<tm, callback>> /\ Awaited'
  <2>1. UNCHANGED <<tm, callback, basetime, target, phase, dev, owed, executing>> 
    BY <1>6 DEF SkipTurn, devVars
  <2>2. \A e \in Nat : InTime(e) => InTime(e)'
    BY <1>0, <2>1 DEF InTime, Turning, Cut, Done
  <2>. QED  BY <1>0, <1>1, <2>1, <2>2
<1>7. ASSUME NEW d \in Devices, SpinTurn(d) PROVE UNCHANGED <<tm, callback>> /\ Awaited'
  <2>1. /\ UNCHANGED <<tm, callback, basetime, phase, executing>> /\ phase = "turn"
        /\ Account(d, Grant(d)) /\ MayRun(d) /\ executing = None
    BY <1>0, <1>7 DEF SpinTurn, Turn
  <2>2. target' <= target /\ target' \in Nat
    BY <1>0, <2>1, GrantType, AccountFacts, AccountType DEF Aims, Turning
  <2>3. \A e \in Nat : InTime(e) => InTime(e)'
    BY <1>0, <2>1, <2>2 DEF InTime, Turning, Cut
  <2>. QED  BY <1>0, <1>1, <2>1, <2>3
<1>8. CASE \/ \E d \in Devices : EnterDevice(d)
           \/ \E cycles \in Instructions, early \in BOOLEAN : BeginInstruction(cycles, early)
  <2>1. UNCHANGED <<tm, callback, basetime, target>> /\ phase' \in {"run", "instruction"}
        /\ phase \in {"turn", "run"}
    BY <1>8 DEF EnterDevice, Turn, BeginInstruction
  <2>2. executing = None \/ dev[executing].icount > 0
    BY <1>0, <1>8 DEF EnterDevice, Turn, BeginInstruction
  <2>3. executing # None => dev[executing].icount \in Int
    BY DEF IInv, TypeOK, DeviceRecord
  <2>4. \A e \in Nat : InTime(e) => InTime(e)'
    BY <1>0, <2>1, <2>2, <2>3 DEF InTime, Turning, Cut
  <2>. QED  BY <1>1, <2>1, <2>4
<1>9. CASE SaveState
  <2>1. UNCHANGED <<tm, callback, basetime, target, phase, dev, owed, executing>>
    BY <1>9 DEF SaveState, devVars, sliceVars
  <2>2. \A e \in Nat : InTime(e) => InTime(e)'
    BY <1>0, <2>1 DEF InTime, Turning, Cut, Done
  <2>. QED  BY <1>0, <1>1, <2>1, <2>2
<1>10. ~LoadState /\ ~ReattachDone
  BY <1>0 DEF LoadState, ReattachDone
<1>. QED  BY <1>2, <1>3, <1>4, <1>5, <1>6, <1>7, <1>8, <1>9, <1>10, StillOrMoves DEF Moves

\* The steps that change the timers and are not calls.
LEMMA TimerSteps ==
  ASSUME IInv, [Next]_vars, ~Loading, ~EmulatedCall, phase' # "detach"
  PROVE  \/ UNCHANGED <<tm, callback>>
         \/ \E t \in Timers : TimerAlloc(t)
         \/ StartCallback \/ SkipDisabled \/ EndCallback
BY DEF Next, Step, vars, Stop, TimerAlloc, StartDone, Timeslice, BeginSlice, SkipTurn, SpinTurn, EnterDevice, Turn,
       BeginInstruction, EndInstruction, LeaveDevice, EndSlice, SlicesDone, TimersDone, SaveState, LoadState,
       DetachTimer, DetachDone, ReattachTimer, ReattachDone, Loading

\* The timer that is due is enabled.
LEMMA NeverSkips == ASSUME IInv, Awaited PROVE ~SkipDisabled
<1>1. SUFFICES ASSUME SkipDisabled PROVE FALSE
  OBVIOUS
<1>2. callback.timer = None
  BY <1>1 DEF SkipDisabled, HeadDue, IInv, Control
<1>3. tm.enabled[Head(tm.list)]
  BY <1>2, HeadEnabled DEF Awaited
<1>. QED  BY <1>1, <1>3 DEF SkipDisabled

\* The timer that is due is not the sentinel, and its deadline is a number.
LEMMA DueFacts ==
  ASSUME IInv, ~Loading, HeadDue
  PROVE  /\ WellFormed(tm) /\ tm.list # <<>> /\ Head(tm.list) \in Queued(tm) \ {Sentinel}
         /\ Head(tm.list) \in Timers /\ HeadExpire(tm) \in Nat /\ HeadExpire(tm) < Never
<1>1. /\ WellFormed(tm) /\ tm.list # <<>> /\ Head(tm.list) \in Queued(tm) /\ Queued(tm) \subseteq Timers
      /\ tm.expire[Sentinel] = Never
  BY ListFacts DEF Loading
<1>2. HeadExpire(tm) \in Nat /\ basetime \in 0..(Never - 1) /\ HeadExpire(tm) <= basetime
  BY <1>1, ExpiryType DEF HeadDue, HeadExpire, IInv, TypeOK
<1>3. HeadExpire(tm) < Never
  BY <1>2, NeverAssumption
<1>. QED  BY <1>1, <1>2, <1>3 DEF HeadExpire

\* What happens to a timer whose callback returns, and has not set it again.
LEMMA RetireMoves ==
  ASSUME NEW ts, WellFormed(ts), NEW t \in Queued(ts), t \in Timers
  PROVE  /\ Moved(ts, Retire(ts, t), t) /\ Retire(ts, t).enabled = ts.enabled
         /\ t \in Queued(Retire(ts, t)) =>
              t \notin Anonymous /\ Retire(ts, t).expire[t] = Plus(ts.expire[t], ts.period[t])
<1>1. CASE t \in Anonymous
  <2>1. Retire(ts, t) = Unlink(ts, t)
    BY <1>1 DEF Retire
  <2>2. Moved(ts, Unlink(ts, t), t) /\ t \notin Queued(Unlink(ts, t))
    BY UnlinkMoves
  <2>3. Unlink(ts, t).enabled = ts.enabled
    BY UnlinkKeeps DEF WellFormed
  <2>. QED  BY <2>1, <2>2, <2>3
<1>2. CASE t \notin Anonymous
  BY <1>2, NextPeriodMoves DEF Retire
<1>. QED  BY <1>1, <1>2

LEMMA TimerAwaits ==
  ASSUME IInv, Bounded, Awaited, [Next]_vars, ~EmulatedCall, Still, phase' # "detach"
  PROVE  Awaited'
<1>0. /\ Overshoot \in Nat /\ Overshoot' = Overshoot /\ basetime \in Nat
      /\ WellFormed(tm) /\ Queued(tm) \subseteq Timers /\ Sentinel \in Queued(tm)
      /\ Sentinel \in Anonymous /\ None \notin Timers /\ Sentinel \in Timers
      /\ ~Loading' /\ Turning' = Turning /\ UNCHANGED <<dev, basetime, target, owed, executing>>
      /\ (callback.timer # None => callback.timer \in Queued(tm) \ {Sentinel} /\ callback.timer \in Timers)
  BY Extremes, ListFacts, TimerAssumption, SchedulerAssumption, NeverAssumption, SMTT(30)
  DEF Overshoot, IInv, TypeOK, TimersInv, Awaited, Loading, Still, devVars
<1>1. \A e \in Nat : InTime(e) => InTime(e)'
  BY <1>0 DEF InTime, Turning, Cut, Done
<1>2. CASE UNCHANGED <<tm, callback>>
  <2>1. Waiting'
    BY <1>1, <1>2, WaitingStays
  <2>. QED  BY <1>0, <1>2, <2>1 DEF Awaited, DisabledLast, Rung
<1>3. ASSUME NEW t \in Timers, TimerAlloc(t) PROVE Awaited'
  <2>1. /\ t \notin Anonymous /\ t \notin Queued(tm) /\ tm' = InitTimer(tm, t) /\ callback' = callback
    BY <1>3 DEF TimerAlloc
  <2>2. Moved(tm, tm', t) /\ ~tm'.enabled[t]
    <3>1. Moved(tm, tm', t)
      BY <1>0, <2>1, InitTimerMoves
    <3>2. InitTimer(tm, t).enabled = [tm.enabled EXCEPT ![t] = FALSE] /\ DOMAIN tm.enabled = Timers
      BY <1>0, <2>1, InitTimerKeeps DEF WellFormed, TimerState
    <3>. QED  BY <2>1, <3>1, <3>2
  <2>3. DisabledLast'
    BY <1>0, <2>1, <2>2, FrontMoves DEF Awaited
  <2>4. Waiting'
    BY <1>1, <2>2, WaitingMoves
  <2>5. Rung'
    <3>1. callback.timer # None => tm'.expire[callback.timer] = tm.expire[callback.timer]
      BY <1>0, <2>1, <2>2 DEF Moved
    <3>. QED  BY <1>0, <2>1, <3>1 DEF Rung, Awaited
  <2>. QED  BY <1>0, <2>3, <2>4, <2>5 DEF Awaited
<1>4. CASE StartCallback
  <2> DEFINE h == Head(tm.list)
  <2>1. /\ tm.enabled[h] /\ tm' = DisarmHead(tm) /\ HeadDue
        /\ callback'.timer = h /\ callback'.modified = FALSE /\ callback'.expire = HeadExpire(tm)
    BY <1>4 DEF StartCallback
  <2>2. tm.list # <<>> /\ h \in Queued(tm) \ {Sentinel} /\ h \in Timers
        /\ callback.timer = None /\ HeadExpire(tm) = tm.expire[h]
    BY <2>1, DueFacts DEF HeadDue, HeadExpire, IInv, Control, Awaited
  <2>3. /\ Queued(tm') = Queued(tm) /\ tm'.list = tm.list /\ tm'.expire = tm.expire
        /\ \A x \in Timers \ {h} : tm'.enabled[x] = tm.enabled[x]
    BY <1>0, <2>1, <2>2, DisarmHeadKeeps
  <2>. HIDE DEF h
  <2>4. \A x, y : Before(tm', x, y) <=> Before(tm, x, y)
    BY <2>3 DEF Before
  <2>5. DisabledLast'
    <3>1. tm'.enabled[Sentinel]
      BY <1>0, <2>2, <2>3 DEF DisabledLast, Awaited
    <3>2. \A x \in Queued(tm) : tm'.enabled[x] \/ Before(tm, Sentinel, x) \/ x = h
      BY <1>0, <2>2, <2>3 DEF DisabledLast, Awaited
    <3>. QED  BY <2>1, <2>3, <2>4, <3>1, <3>2 DEF DisabledLast
  <2>6. \A x \in Queued(tm) : tm'.enabled[x] => tm.enabled[x]
    BY <1>0, <2>1, <2>3
  <2>7. Waiting'
    <3>1. SUFFICES ASSUME NEW x \in Queued(tm), tm'.enabled[x] PROVE InTime(tm.expire[x])'
      BY <2>3 DEF Waiting
    <3>2. InTime(tm.expire[x]) /\ tm.expire[x] \in Nat
      BY <1>0, <2>6, <3>1, ExpiryType DEF Waiting, Awaited
    <3> DEFINE f == tm.expire[x]
    <3>3. \A e \in Nat : e = f => InTime(e)'
      BY <1>1, <3>2
    <3>. QED  BY <2>3, <3>2, <3>3 DEF InTime, Cut, Done, Turning
  <2>8. Rung'
    <3>1. basetime <= tm.expire[h] + Overshoot
      BY <2>1, <2>2 DEF Waiting, Awaited, InTime
    <3>. QED  BY <1>0, <2>1, <2>2, <2>3, <3>1 DEF Rung
  <2>. QED  BY <1>0, <2>5, <2>7, <2>8 DEF Awaited
<1>5. CASE EndCallback
  <2> DEFINE t == callback.timer
  <2>1. /\ callback'.timer = None /\ phase = "callback" /\ phase' = "timers"
        /\ tm' = IF callback.modified THEN tm ELSE Retire(tm, t)
        /\ t # None
    BY <1>5 DEF EndCallback, NoCallback, IInv, Control
  <2>2. Rung'
    BY <2>1 DEF Rung
  <2>3. CASE callback.modified
    <3>1. tm' = tm
      BY <2>1, <2>3
    <3>2. Waiting'
      BY <1>1, <3>1, WaitingStays
    <3>3. DisabledLast'
      BY <2>3, <3>1 DEF DisabledLast, Awaited
    <3>. QED  BY <1>0, <2>2, <3>2, <3>3 DEF Awaited
  <2>4. CASE ~callback.modified
    <3>1. /\ tm' = Retire(tm, t) /\ t \in Queued(tm) \ {Sentinel} /\ t \in Timers
      BY <1>0, <2>1, <2>4
    <3>. HIDE DEF t
    <3>2. /\ Moved(tm, tm', t)
          /\ t \in Queued(tm') => tm'.expire[t] = Plus(tm.expire[t], tm.period[t])
      BY <1>0, <3>1, RetireMoves
    <3>3. DisabledLast'
      BY <1>0, <3>1, <3>2, FrontMoves DEF Awaited, t
    <3>4. ASSUME NEW e \in Nat, t \in Queued(tm'), e = tm'.expire[t] PROVE InTime(e)'
      <4>1. tm.expire[t] = callback.expire /\ basetime <= callback.expire + Overshoot
        BY <2>1, <2>4 DEF Rung, Awaited, t
      <4>2. tm.expire[t] \in Nat /\ tm.period[t] \in Nat /\ basetime < Never
        BY <1>0, <3>1, ExpiryType, NeverAssumption DEF WellFormed, TimerState, Time, IInv, TypeOK
      <4> DEFINE f == tm.expire[t]  p == tm.period[t]
      <4>3. f \in Nat /\ p \in Nat /\ e = Plus(f, p) /\ basetime <= f + Overshoot
        BY <3>2, <3>4, <4>1, <4>2
      <4>. HIDE DEF f, p
      <4>4. basetime <= e + Overshoot
        BY <1>0, <4>2, <4>3, NeverAssumption DEF Plus
      <4>5. ~Turning'
        BY <2>1 DEF Turning
      <4>. QED  BY <1>0, <4>4, <4>5 DEF InTime
    <3>5. Waiting'
      BY <1>1, <3>1, <3>2, <3>4, WaitingMoves
    <3>. QED  BY <1>0, <2>2, <3>3, <3>5 DEF Awaited
  <2>5. callback.modified \in BOOLEAN
    BY DEF IInv, TypeOK
  <2>. QED  BY <2>3, <2>4, <2>5
<1>. QED  BY <1>2, <1>3, <1>4, <1>5, NeverSkips, TimerSteps DEF Awaited

LEMMA AwaitedStep ==
  ASSUME IInv, Bounded, Answered, Aims, Stepping, Owing, NoReenabling, Awaited, [Next]_vars,
         phase' # "detach"
  PROVE  Awaited'
BY CallAwaits, SliceAwaits, TimerAwaits

LEMMA AwaitedInit == Bounded /\ Init => Awaited
<1> SUFFICES ASSUME Bounded, Init PROVE Awaited
  OBVIOUS
<1>1. /\ tm.list = <<Sentinel>> /\ phase = "start" /\ callback.timer = None /\ basetime = 0
      /\ tm.enabled = [t \in Timers |-> t = Sentinel] /\ tm.expire = [t \in Timers |-> Never]
  BY DEF Init, NoCallback
<1>2. Queued(tm) = {Sentinel}
  BY <1>1 DEF Queued
<1>3. Sentinel \in Timers
  BY TimerAssumption
<1>4. Overshoot \in Nat
  BY Extremes
<1>5. ~Loading /\ DisabledLast /\ Rung
  BY <1>1, <1>2, <1>3 DEF Loading, DisabledLast, Rung
<1>6. Waiting
  <2>1. tm.expire[Sentinel] = Never /\ 0 <= Never + Overshoot
    BY <1>1, <1>3, <1>4, NeverAssumption
  <2>. QED  BY <1>1, <1>2, <2>1 DEF Waiting, InTime, Turning
<1>. QED  BY <1>5, <1>6 DEF Awaited

\* A timer fires at most one instruction late, while no state is loaded and no timer is
\* enabled again, if every suspension eats its cycles (adjust() and timer_set() abort
\* the slice of the executing device, schedule.cpp:201-203) and no device is charged more
\* for a cycle than time() has answered for it.
THEOREM AlwaysPunctual ==
  ASSUME Paced, Bounded, NoReenabling, Answered PROVE Spec /\ NothingLoaded => []Punctual
<1>1. IInv /\ Aims /\ [Next]_vars => Aims'
  BY AimsStep
<1>2. IInv /\ Aims /\ Stepping /\ [Next]_vars => Stepping'
  BY SteppingStep
<1>3. IInv /\ Owing /\ [Next]_vars => Owing'
  BY OwingStep
<1>4. IInv /\ Aims /\ Stepping /\ Owing /\ Awaited /\ [Next]_vars /\ [phase' # "detach"]_vars
        => Awaited'
  <2>1. Awaited /\ UNCHANGED vars => Awaited'
    BY DEF vars, quantaVars, devVars, sliceVars, saveVars, Awaited, Loading, DisabledLast, Waiting, Rung, InTime,
           Turning, Cut, Done, Before, Queued
  <2>. QED  BY <2>1, AwaitedStep
<1>5. Awaited => Punctual
  BY DEF Awaited, Rung, Punctual
<1>6. Init => Aims /\ Stepping /\ Owing /\ Awaited
  BY AimsInit, SteppingInit, ReachingInit, AwaitedInit
<1>. QED  BY <1>1, <1>2, <1>3, <1>4, <1>5, <1>6, Invariance, PTL DEF Spec, NothingLoaded

-----------------------------------------------------------------------------
(* The timers are an alarm clock.                                          *)

\* The deadlines of the timers of a list, and which of those that share one are first.
DeadlineOf(ts) == [t \in Timers |-> IF t \in Queued(ts) /\ ts.enabled[t] THEN ts.expire[t] ELSE Never]

AheadOf(ts) ==
  {q \in Timers \X Timers : /\ Before(ts, q[1], q[2])
                            /\ DeadlineOf(ts)[q[1]] = DeadlineOf(ts)[q[2]]
                            /\ DeadlineOf(ts)[q[1]] # Never}

LEMMA DeadlineType ==
  ASSUME NEW ts, WellFormed(ts)
  PROVE  \A t \in Timers : /\ DeadlineOf(ts)[t] \in 0..Never
                           /\ DeadlineOf(ts)[t] # Never =>
                                /\ t \in Queued(ts) /\ ts.enabled[t]
                                /\ DeadlineOf(ts)[t] = ts.expire[t] /\ SortKey(ts, t) = ts.expire[t]
<1>1. \A t \in Timers : ts.expire[t] \in 0..Never /\ Never \in 0..Never
  BY NeverAssumption DEF WellFormed, TimerState, Time
<1>. QED  BY <1>1 DEF DeadlineOf, SortKey

\* The pairs that the positions in the list give are those that the order gives.
LEMMA PairsFacts ==
  ASSUME NEW ts, WellFormed(ts), NEW D, D = DeadlineOf(ts)
  PROVE  {<<ts.list[p[1]], ts.list[p[2]]>> : p \in
            {p \in (1..Len(ts.list)) \X (1..Len(ts.list)) :
               /\ p[1] < p[2] /\ D[ts.list[p[1]]] = D[ts.list[p[2]]]
               /\ D[ts.list[p[1]]] # Never}} = AheadOf(ts)
<1> DEFINE l == ts.list
           P == {p \in (1..Len(l)) \X (1..Len(l)) :
                   p[1] < p[2] /\ D[l[p[1]]] = D[l[p[2]]] /\ D[l[p[1]]] # Never}
           S == {<<l[p[1]], l[p[2]]>> : p \in P}
           A == AheadOf(ts)
<1>1. l \in Seq(Timers) /\ \A i \in 1..Len(l) : l[i] \in Timers
  <2>1. l \in Seq(Timers)
    BY DEF WellFormed, TimerState
  <2>. QED  BY <2>1, ElementOfSeq
<1>2. \A x, y : Before(ts, x, y) <=> \E i, j \in 1..Len(l) : i < j /\ l[i] = x /\ l[j] = y
  BY DEF Before
<1>3. A = {q \in Timers \X Timers : Before(ts, q[1], q[2]) /\ D[q[1]] = D[q[2]] /\ D[q[1]] # Never}
  BY DEF AheadOf
<1>. HIDE DEF l, A
<1>4. ASSUME NEW q \in S PROVE q \in A
  <2>1. PICK p \in P : q = <<l[p[1]], l[p[2]]>>
    BY <1>4
  <2>2. /\ p[1] \in 1..Len(l) /\ p[2] \in 1..Len(l) /\ p[1] < p[2]
        /\ D[l[p[1]]] = D[l[p[2]]] /\ D[l[p[1]]] # Never
    BY <2>1
  <2>3. q \in Timers \X Timers /\ q[1] = l[p[1]] /\ q[2] = l[p[2]]
    BY <1>1, <2>1, <2>2
  <2>4. Before(ts, q[1], q[2])
    BY <1>2, <2>2, <2>3
  <2>. QED  BY <1>3, <2>2, <2>3, <2>4
<1>5. ASSUME NEW q \in A PROVE q \in S
  <2>1. q \in Timers \X Timers /\ Before(ts, q[1], q[2]) /\ D[q[1]] = D[q[2]] /\ D[q[1]] # Never
    BY <1>3, <1>5
  <2>2. PICK i, j \in 1..Len(l) : i < j /\ l[i] = q[1] /\ l[j] = q[2]
    BY <1>2, <2>1
  <2> DEFINE p == <<i, j>>
  <2>3. p \in (1..Len(l)) \X (1..Len(l)) /\ p[1] = i /\ p[2] = j
    OBVIOUS
  <2>. HIDE DEF p
  <2>4. p \in P
    BY <2>1, <2>2, <2>3
  <2>5. q = <<l[p[1]], l[p[2]]>>
    BY <2>1, <2>2, <2>3
  <2>. QED  BY <2>4, <2>5
<1>6. S = A
  BY <1>4, <1>5
<1>. QED  BY <1>6 DEF l, A

\* While nothing is loaded, the alarm clock's deadlines are those of the list.
LEMMA MappedTimers ==
  ASSUME IInv, ~Loading, IInv', ~Loading'
  PROVE  /\ Deadline = DeadlineOf(tm) /\ Ahead = AheadOf(tm)
         /\ Deadline' = DeadlineOf(tm') /\ Ahead' = AheadOf(tm')
<1>1. /\ phase # "detach" /\ private = <<>> /\ phase' # "detach" /\ private' = <<>>
      /\ tm \in TimerState /\ tm' \in TimerState
      /\ WellFormed(tm) /\ WellFormed(tm')
  BY DEF Loading, IInv, Control, TypeOK, TimersInv, TimersOrdered, WellFormed
<1>2. \A ts \in TimerState : /\ ts.list \o <<>> = ts.list
                             /\ \A t : Contains(ts.list, t) <=> t \in Queued(ts)
  BY DEF TimerState, Contains, Queued
<1>3. Line = tm.list /\ Line' = tm'.list
  BY <1>1, <1>2 DEF Line
<1>4. Deadline = DeadlineOf(tm) /\ Deadline' = DeadlineOf(tm')
  BY <1>1, <1>2, <1>3 DEF Deadline, DeadlineOf
<1>5. Ahead = AheadOf(tm)
  <2>1. {<<tm.list[p[1]], tm.list[p[2]]>> : p \in
            {p \in (1..Len(tm.list)) \X (1..Len(tm.list)) :
               /\ p[1] < p[2] /\ Deadline[tm.list[p[1]]] = Deadline[tm.list[p[2]]]
               /\ Deadline[tm.list[p[1]]] # Never}} = AheadOf(tm)
    BY <1>1, <1>4, PairsFacts
  <2>. QED  BY <1>3, <2>1 DEF Ahead
<1>6. Ahead' = AheadOf(tm')
  <2>1. {<<tm'.list[p[1]], tm'.list[p[2]]>> : p \in
            {p \in (1..Len(tm'.list)) \X (1..Len(tm'.list)) :
               /\ p[1] < p[2] /\ (Deadline')[tm'.list[p[1]]] = (Deadline')[tm'.list[p[2]]]
               /\ (Deadline')[tm'.list[p[1]]] # Never}} = AheadOf(tm')
    BY <1>1, <1>4, PairsFacts
  <2>. QED  BY <1>3, <2>1 DEF Ahead
<1>. QED  BY <1>4, <1>5, <1>6

\* Setting a timer, or taking it off the list, is setting its alarm.
LEMMA MovedArms ==
  ASSUME NEW ts, WellFormed(ts), NEW us, NEW t \in Timers, Moved(ts, us, t),
         NEW at, at = DeadlineOf(us)[t]
  PROVE  /\ at \in 0..Never
         /\ DeadlineOf(us) = [DeadlineOf(ts) EXCEPT ![t] = at]
         /\ AheadOf(us) = {p \in AheadOf(ts) : t # p[1] /\ t # p[2]} \cup
              {<<b, t>> : b \in {b \in Timers \ {t} : at # Never /\ DeadlineOf(ts)[b] = at}}
<1> DEFINE D == DeadlineOf(ts)  E == DeadlineOf(us)  A == AheadOf(ts)  B == AheadOf(us)
           O == {p \in A : t # p[1] /\ t # p[2]}
           N == {<<b, t>> : b \in {b \in Timers \ {t} : at # Never /\ D[b] = at}}
<1>1. /\ WellFormed(us) /\ us \in TimerState /\ Distinct(us) /\ Placed(ts, us, t)
      /\ at \in 0..Never
  BY DeadlineType DEF Moved, WellFormed
<1>2. /\ D \in [Timers -> 0..Never] /\ E \in [Timers -> 0..Never]
      /\ \A x \in Timers \ {t} : E[x] = D[x]
  <2>1. DOMAIN D = Timers /\ DOMAIN E = Timers /\ D = [x \in Timers |-> D[x]]
        /\ E = [x \in Timers |-> E[x]]
    BY DEF DeadlineOf
  <2>2. \A x \in Timers \ {t} : E[x] = D[x]
    BY DEF DeadlineOf, Moved
  <2>3. \A x \in Timers : D[x] \in 0..Never /\ E[x] \in 0..Never
    BY <1>1, DeadlineType
  <2>. HIDE DEF D, E
  <2>. QED  BY <2>1, <2>2, <2>3
<1>3. E = [D EXCEPT ![t] = at]
  <2>. HIDE DEF D
  <2>1. E[t] = at
    OBVIOUS
  <2>. HIDE DEF E
  <2>. QED  BY <1>2, <2>1
<1>4. A = {q \in Timers \X Timers : Before(ts, q[1], q[2]) /\ D[q[1]] = D[q[2]] /\ D[q[1]] # Never}
  BY DEF AheadOf
<1>5. B = {q \in Timers \X Timers : Before(us, q[1], q[2]) /\ E[q[1]] = E[q[2]] /\ E[q[1]] # Never}
  BY DEF AheadOf
<1>6. \A x, y : Before(us, x, y) => x \in Queued(us) /\ y \in Queued(us) /\ x # y
  BY <1>1, BeforeFacts
<1>7. ASSUME NEW b \in Timers \ {t}, E[b] = E[t], E[t] # Never PROVE Before(us, b, t) /\ ~Before(us, t, b)
  <2>1. /\ b \in Queued(us) /\ t \in Queued(us)
        /\ SortKey(us, b) = E[b] /\ SortKey(us, t) = E[t] /\ E[t] \in Int
    BY <1>1, <1>2, <1>7, DeadlineType, NeverAssumption
  <2>2. Before(us, b, t) \/ Before(us, t, b)
    BY <1>1, <1>7, <2>1, BeforeFacts
  <2>3. Before(us, t, b) => SortKey(us, b) > SortKey(us, t)
    BY <1>1 DEF Placed
  <2>. HIDE DEF E
  <2>. QED  BY <1>7, <2>1, <2>2, <2>3
<1>8. \A x, y : x # t /\ y # t => (Before(us, x, y) <=> Before(ts, x, y))
  BY <1>1 DEF Placed
<1>9. E[t] = at
  OBVIOUS
<1>. HIDE DEF A, B, D, E
<1>10. ASSUME NEW q \in B PROVE q \in O \cup N
  <2>1. q \in Timers \X Timers /\ Before(us, q[1], q[2]) /\ E[q[1]] = E[q[2]] /\ E[q[1]] # Never
    BY <1>5, <1>10
  <2>2. q[1] # q[2]
    BY <1>6, <2>1
  <2>3. CASE t # q[1] /\ t # q[2]
    <3>1. q \in A
      BY <1>2, <1>4, <1>8, <2>1, <2>3
    <3>. QED  BY <2>3, <3>1
  <2>4. CASE t = q[1]
    <3>1. q[2] \in Timers \ {t} /\ E[q[2]] = E[t] /\ E[t] # Never
      BY <2>1, <2>2, <2>4
    <3>. QED  BY <1>7, <2>1, <2>4, <3>1
  <2>5. CASE t = q[2]
    <3>1. q[1] \in Timers \ {t} /\ q = <<q[1], t>> /\ D[q[1]] = at /\ at # Never
      BY <1>2, <1>9, <2>1, <2>2, <2>5
    <3>. QED  BY <3>1
  <2>. QED  BY <2>3, <2>4, <2>5
<1>11. ASSUME NEW q \in O PROVE q \in B
  <2>1. q \in Timers \X Timers /\ Before(ts, q[1], q[2]) /\ D[q[1]] = D[q[2]] /\ D[q[1]] # Never
        /\ t # q[1] /\ t # q[2]
    BY <1>4, <1>11
  <2>. QED  BY <1>2, <1>5, <1>8, <2>1
<1>12. ASSUME NEW q \in N PROVE q \in B
  <2>1. PICK b \in Timers \ {t} : at # Never /\ D[b] = at /\ q = <<b, t>>
    BY <1>12
  <2>2. E[b] = E[t] /\ E[t] # Never
    BY <1>2, <1>9, <2>1
  <2>3. Before(us, b, t)
    BY <1>7, <2>2
  <2>. QED  BY <1>5, <2>1, <2>2, <2>3
<1>13. B = O \cup N
  BY <1>10, <1>11, <1>12
<1>. QED  BY <1>1, <1>3, <1>13 DEF A, B, D, E

\* A timer that is set is an alarm that is set.
LEMMA SetsAlarm ==
  ASSUME IInv, ~Loading, IInv', ~Loading', NEW t \in Timers, Moved(tm, tm', t)
  PROVE  \E at \in 0..Never : Clock!Arm(t, at)
<1> DEFINE at == DeadlineOf(tm')[t]
<1>1. WellFormed(tm)
  BY ListFacts DEF Loading
<1>2. /\ Deadline = DeadlineOf(tm) /\ Ahead = AheadOf(tm)
      /\ Deadline' = DeadlineOf(tm') /\ Ahead' = AheadOf(tm')
  BY MappedTimers
<1>3. /\ at \in 0..Never
      /\ DeadlineOf(tm') = [DeadlineOf(tm) EXCEPT ![t] = at]
      /\ AheadOf(tm') = {p \in AheadOf(tm) : t # p[1] /\ t # p[2]} \cup
           {<<b, t>> : b \in {b \in Timers \ {t} : at # Never /\ DeadlineOf(tm)[b] = at}}
  BY <1>1, MovedArms
<1>. HIDE DEF at
<1>4. Clock!Arm(t, at)
  BY <1>2, <1>3 DEF Clock!Arm, Clock!Others
<1>. QED  BY <1>3, <1>4

\* A step that leaves the timers, the base time and the file alone leaves the clock alone.
LEMMA SameClock ==
  ASSUME IInv, ~Loading, IInv', ~Loading', tm' = tm, UNCHANGED <<basetime, saved>>,
         callback'.timer = callback.timer
  PROVE  UNCHANGED Clock!vars
<1>1. Deadline' = Deadline /\ Ahead' = Ahead
  BY MappedTimers
<1>2. Filed' = Filed
  BY DEF Filed
<1>. QED  BY <1>1, <1>2 DEF Clock!vars

\* A step that sets a timer, and leaves the base time and the file alone, sets an alarm.
LEMMA SetsClock ==
  ASSUME IInv, ~Loading, IInv', ~Loading', NEW t \in Timers, Moved(tm, tm', t),
         UNCHANGED <<basetime, saved>>, callback'.timer = callback.timer
  PROVE  Clock!Next
<1>1. PICK at \in 0..Never : Clock!Arm(t, at)
  BY SetsAlarm
<1>2. Filed' = Filed
  BY DEF Filed
<1>3. Clock!Set(t, at)
  BY <1>1, <1>2 DEF Clock!Set
<1>. QED  BY <1>3 DEF Clock!Next

LEMMA CallRefines ==
  ASSUME IInv, Awaited, IInv', Awaited', NoReenabling, EmulatedCall
  PROVE  [Clock!Next]_Clock!vars
<1>1. UNCHANGED <<basetime, saved>> /\ ~Loading /\ ~Loading'
  BY CallFacts DEF Calls, Awaited
<1>2. /\ WellFormed(tm) /\ Queued(tm) \subseteq Timers
      /\ callback \in [timer : Timers \cup {None}, modified : BOOLEAN, expire : Time]
  BY ListFacts DEF Awaited, Loading, IInv, TypeOK
<1>3. MayCall => Now \in Time
  BY NowType
<1>4. ASSUME NEW t \in Timers, NEW delay \in Delays, TimerSet(t, delay) PROVE Clock!Next
  <2>1. /\ MayCall /\ t \in Anonymous \ Queued(tm) /\ tm' = SetTimer(tm, t, Now, delay)
        /\ callback' = callback
    BY <1>4 DEF TimerSet, Call
  <2>2. Moved(tm, tm', t)
    <3>1. t \notin Queued(tm) /\ WellFormed(tm) /\ Now \in Time /\ delay \in Int
      BY <1>2, <1>3, <2>1, SchedulerAssumption
    <3>2. \A n \in Time, w \in Int : Moved(tm, SetTimer(tm, t, n, w), t)
      BY <3>1, SetTimerMoves
    <3>. QED  BY <2>1, <3>1, <3>2
  <2>. QED  BY <1>1, <2>1, <2>2, SetsClock
<1>5. ASSUME NEW t \in Timers, NEW delay \in Delays, NEW period \in Periods,
             TimerAdjust(t, delay, period)
      PROVE  Clock!Next
  <2>1. /\ MayCall /\ t \in Queued(tm) /\ tm' = Adjust(tm, t, Now, delay, period)
        /\ callback' = [callback EXCEPT !.modified = @ \/ callback.timer = t]
    BY <1>5 DEF TimerAdjust, Call, Known
  <2>2. callback'.timer = callback.timer
    BY <1>2, <2>1
  <2>3. Moved(tm, tm', t)
    <3>1. WellFormed(tm) /\ Now \in Time /\ delay \in Int /\ period \in Time
      BY <1>2, <1>3, <2>1, SchedulerAssumption
    <3>2. \A n \in Time, w \in Int, p \in Time : Moved(tm, Adjust(tm, t, n, w, p), t)
      BY <2>1, <3>1, AdjustMoves
    <3>. QED  BY <2>1, <3>1, <3>2
  <2>. QED  BY <1>1, <2>2, <2>3, SetsClock
<1>6. ASSUME NEW t \in Timers, NEW on \in EnableArgs, TimerEnable(t, on)
      PROVE  [Clock!Next]_Clock!vars
  <2>1. t \in Queued(tm) /\ tm' = Enable(tm, t, FALSE) /\ callback' = callback
    BY <1>6, SchedulerAssumption DEF TimerEnable, Known, NoReenabling
  <2>2. CASE tm.enabled[t] = FALSE
    <3>1. tm' = tm
      BY <2>1, <2>2 DEF Enable
    <3>. QED  BY <1>1, <2>1, <3>1, SameClock
  <2>3. CASE tm.enabled[t] # FALSE
    <3>1. Moved(tm, tm', t)
      BY <1>2, <2>1, <2>3, EnableMoves
    <3>. QED  BY <1>1, <2>1, <3>1, SetsClock
  <2>. QED  BY <2>2, <2>3
<1>7. CASE UNCHANGED <<tm, callback>>
  BY <1>1, <1>7, SameClock
<1>8. \/ UNCHANGED <<tm, callback>>
      \/ \E t \in Timers, delay \in Delays :
           \/ TimerSet(t, delay)
           \/ \E period \in Periods : TimerAdjust(t, delay, period)
      \/ \E t \in Timers, on \in EnableArgs : TimerEnable(t, on)
  BY DEF EmulatedCall, SuspendDevice, ResumeDevice, AwaitTrigger, FireTrigger, Eat, BoostInterleave
<1>. QED  BY <1>4, <1>5, <1>6, <1>7, <1>8

\* A callback starts: its alarm is due, and no other is before it.
LEMMA StartRings ==
  ASSUME IInv, Awaited, IInv', Awaited', StartCallback
  PROVE  Clock!Next
<1> DEFINE h == Head(tm.list)
<1>1. /\ HeadDue /\ tm.enabled[h] /\ tm' = DisarmHead(tm) /\ callback'.timer = h
      /\ UNCHANGED <<basetime, saved>>
  BY DEF StartCallback, saveVars
<1>2. /\ WellFormed(tm) /\ tm.list # <<>> /\ h \in Queued(tm) /\ h \in Timers
      /\ HeadExpire(tm) \in Nat /\ HeadExpire(tm) < Never /\ HeadExpire(tm) = tm.expire[h]
      /\ callback.timer = None /\ HeadExpire(tm) <= basetime
  BY <1>1, DueFacts DEF Awaited, HeadDue, HeadExpire, IInv, Control
<1>3. /\ Deadline = DeadlineOf(tm) /\ Ahead = AheadOf(tm)
      /\ Deadline' = DeadlineOf(tm') /\ Ahead' = AheadOf(tm') /\ Filed' = Filed
  BY <1>1, MappedTimers DEF Awaited, Filed
<1>4. Deadline[h] = HeadExpire(tm)
  BY <1>1, <1>2, <1>3 DEF DeadlineOf
<1>5. \A x : ~Before(tm, x, h)
  BY <1>2, HeadFirst DEF WellFormed
<1>6. \A b \in Timers : Deadline[h] <= Deadline[b]
  <2>1. SUFFICES ASSUME NEW b \in Timers PROVE Deadline[h] <= Deadline[b]
    OBVIOUS
  <2>2. CASE b \in Queued(tm) /\ tm.enabled[b]
    BY <1>2, <1>3, <1>4, <2>2, HeadIsNext DEF DeadlineOf
  <2>3. CASE ~(b \in Queued(tm) /\ tm.enabled[b])
    <3>1. Deadline[b] = Never
      BY <1>3, <2>3 DEF DeadlineOf
    <3>. QED  BY <1>2, <1>4, <3>1, NeverAssumption
  <2>. QED  BY <2>2, <2>3
<1>7. \A b \in Timers : <<b, h>> \notin Ahead
  BY <1>3, <1>5 DEF AheadOf
<1>8. Clock!Due(h)
  BY <1>2, <1>4, <1>6, <1>7 DEF Clock!Due
<1>9. /\ WellFormed(tm') /\ Queued(tm') = Queued(tm) /\ tm'.list = tm.list /\ tm'.expire = tm.expire
      /\ \A x \in Timers \ {h} : tm'.enabled[x] = tm.enabled[x]
  BY <1>1, <1>2, DisarmHeadKeeps
<1>10. CASE tm'.enabled[h]
  <2>. HIDE DEF h
  <2>0. tm.enabled \in [Timers -> BOOLEAN] /\ tm'.enabled \in [Timers -> BOOLEAN]
    BY <1>2, <1>9 DEF WellFormed, TimerState
  <2>1. \A x \in Timers : tm'.enabled[x] = tm.enabled[x]
    BY <1>1, <1>2, <1>9, <1>10, <2>0
  <2>2. DeadlineOf(tm') = DeadlineOf(tm)
    BY <1>9, <2>1 DEF DeadlineOf
  <2>3. AheadOf(tm') = AheadOf(tm)
    BY <1>9, <2>2 DEF AheadOf, Before
  <2>4. Clock!Ring(h)
    BY <1>1, <1>2, <1>3, <1>8, <2>2, <2>3 DEF Clock!Ring
  <2>. QED  BY <1>2, <2>4 DEF Clock!Next
<1>11. CASE ~tm'.enabled[h]
  <2>. HIDE DEF h
  <2>1. DeadlineOf(tm') = [DeadlineOf(tm) EXCEPT ![h] = Never]
    <3>1. \A x \in Timers : DeadlineOf(tm')[x] = IF x = h THEN Never ELSE DeadlineOf(tm)[x]
      BY <1>9, <1>11 DEF DeadlineOf
    <3>2. DeadlineOf(tm') = [x \in Timers |-> DeadlineOf(tm')[x]]
          /\ DeadlineOf(tm) = [x \in Timers |-> DeadlineOf(tm)[x]]
      BY DEF DeadlineOf
    <3> DEFINE D == DeadlineOf(tm)  E == DeadlineOf(tm')
    <3>3. E = [x \in Timers |-> E[x]] /\ D = [x \in Timers |-> D[x]]
          /\ \A x \in Timers : E[x] = IF x = h THEN Never ELSE D[x]
      BY <3>1, <3>2
    <3>. HIDE DEF D, E
    <3>4. E = [D EXCEPT ![h] = Never]
      BY <3>3
    <3>. QED  BY <3>4 DEF D, E
  <2>2. AheadOf(tm') = {p \in AheadOf(tm) : h # p[1] /\ h # p[2]}
    <3>1. \A x, y : Before(tm', x, y) <=> Before(tm, x, y)
      BY <1>9 DEF Before
    <3> DEFINE D == DeadlineOf(tm)  E == DeadlineOf(tm')
    <3>2. E[h] = Never /\ \A x \in Timers \ {h} : E[x] = D[x]
      BY <1>9, <1>11, <1>2 DEF DeadlineOf
    <3>3. AheadOf(tm') = {q \in Timers \X Timers :
                            Before(tm', q[1], q[2]) /\ E[q[1]] = E[q[2]] /\ E[q[1]] # Never}
      BY DEF AheadOf
    <3>4. AheadOf(tm) = {q \in Timers \X Timers :
                           Before(tm, q[1], q[2]) /\ D[q[1]] = D[q[2]] /\ D[q[1]] # Never}
      BY DEF AheadOf
    <3> DEFINE A == AheadOf(tm)  B == AheadOf(tm')
    <3>. HIDE DEF A, B, D, E
    <3>5. \A q \in Timers \X Timers : q \in B <=> q \in A /\ h # q[1] /\ h # q[2]
      BY <3>1, <3>2, <3>3, <3>4 DEF A, B
    <3>6. A \subseteq Timers \X Timers /\ B \subseteq Timers \X Timers
      BY <3>3, <3>4 DEF A, B
    <3>7. B = {p \in A : h # p[1] /\ h # p[2]}
      BY <3>5, <3>6
    <3>. QED  BY <3>7 DEF A, B
  <2>3. Clock!Arm(h, Never)
    BY <1>3, <2>1, <2>2 DEF Clock!Arm, Clock!Others
  <2>4. Clock!Ring(h)
    BY <1>1, <1>2, <1>3, <1>8, <2>3 DEF Clock!Ring
  <2>. QED  BY <1>2, <2>4 DEF Clock!Next
<1>. QED  BY <1>10, <1>11

\* A callback returns: its alarm has been set, is set to its next period or is silent.
LEMMA EndSilences ==
  ASSUME IInv, Awaited, IInv', Awaited', EndCallback
  PROVE  Clock!Next
<1> DEFINE t == callback.timer
<1>1. /\ callback'.timer = None /\ t # None /\ t \in Timers /\ t \in Queued(tm)
      /\ tm' = IF callback.modified THEN tm ELSE Retire(tm, t)
      /\ UNCHANGED <<basetime, saved>> /\ WellFormed(tm)
  <2>1. phase = "callback" /\ callback.timer # None /\ ~Loading
    BY DEF EndCallback, IInv, Control, Loading
  <2>2. t \in Queued(tm) /\ Queued(tm) \subseteq Timers /\ WellFormed(tm)
    BY <2>1, ListFacts DEF IInv, TimersInv, Loading
  <2>. QED  BY <2>1, <2>2 DEF EndCallback, NoCallback, saveVars
<1>2. ~Loading /\ ~Loading'
  BY DEF Awaited
<1>3. Filed' = Filed
  BY <1>1 DEF Filed
<1>4. CASE tm' = tm
  <2>1. Deadline' = Deadline /\ Ahead' = Ahead
    BY <1>2, <1>4, MappedTimers
  <2>2. 0 \in 0..Never
    BY NeverAssumption
  <2>3. Clock!Silence(0)
    BY <1>1, <1>3, <2>1 DEF Clock!Silence
  <2>. QED  BY <2>2, <2>3 DEF Clock!Next
<1>5. CASE tm' = Retire(tm, t)
  <2>. HIDE DEF t
  <2>1. Moved(tm, tm', t)
    BY <1>1, <1>5, RetireMoves
  <2>2. PICK at \in 0..Never : Clock!Arm(t, at)
    BY <1>1, <1>2, <2>1, SetsAlarm
  <2>3. Clock!Silence(at)
    BY <1>1, <1>3, <2>2 DEF Clock!Silence, t
  <2>. QED  BY <2>3 DEF Clock!Next
<1>. QED  BY <1>1, <1>4, <1>5

\* A slice ends: the clock waits for its alarms.
LEMMA EndAdvances ==
  ASSUME IInv, Bounded, Aims, Awaited, IInv', Awaited', EndSlice
  PROVE  Clock!Next
<1>1. /\ basetime' = target /\ UNCHANGED <<tm, callback, saved>> /\ phase = "turn"
  BY DEF EndSlice, saveVars
<1>2. /\ executing = None /\ callback.timer = None /\ Turning /\ basetime <= target
      /\ target \in 0..(Never - 1) /\ ~Loading /\ ~Loading'
  BY <1>1 DEF IInv, Control, TypeOK, Turning, Aims, Awaited
<1>3. /\ Deadline = DeadlineOf(tm) /\ Deadline' = Deadline /\ Ahead' = Ahead /\ Filed' = Filed
  BY <1>1, <1>2, MappedTimers DEF Filed
<1>4. Overshoot \in Nat
  BY Extremes
<1>5. target \in 0..Never /\ target <= Never + Overshoot
  BY <1>2, <1>4, NeverAssumption
<1>6. \A a \in Timers : target <= Deadline[a] + Overshoot
  <2>1. SUFFICES ASSUME NEW a \in Timers PROVE target <= Deadline[a] + Overshoot
    OBVIOUS
  <2>2. CASE a \in Queued(tm) /\ tm.enabled[a]
    <3>1. InTime(tm.expire[a])
      BY <2>2 DEF Awaited, Waiting
    <3>2. target <= tm.expire[a] + Overshoot
      BY <1>2, <3>1 DEF InTime, Cut
    <3>. QED  BY <1>3, <2>2, <3>2 DEF DeadlineOf
  <2>3. CASE ~(a \in Queued(tm) /\ tm.enabled[a])
    <3>1. Deadline[a] = Never
      BY <1>3, <2>3 DEF DeadlineOf
    <3>. QED  BY <1>5, <3>1
  <2>. QED  BY <2>2, <2>3
<1>7. Clock!Advance(target)
  BY <1>1, <1>2, <1>3, <1>6 DEF Clock!Advance
<1>. QED  BY <1>5, <1>7 DEF Clock!Next

\* A state is saved: with no anonymous timer live, the file holds every deadline.
LEMMA SaveFiles ==
  ASSUME IInv, Awaited, IInv', Awaited', SaveState
  PROVE  Clock!Next
<1>1. /\ UNCHANGED <<tm, basetime, callback>> /\ phase = "idle" /\ CanSave(tm)
      /\ saved' = [enabled |-> tm.enabled, period |-> tm.period, expire |-> tm.expire,
                   basetime |-> basetime, dev |-> dev]
  BY DEF SaveState
<1>2. /\ callback.timer = None /\ ~Loading /\ ~Loading' /\ None # saved'
      /\ Timers \ Anonymous \subseteq Queued(tm)
  <2>1. callback.timer = None /\ ~Loading /\ ~Loading'
    BY <1>1 DEF IInv, Control, Awaited
  <2>2. Timers \ Anonymous \subseteq Queued(tm)
    BY <1>1, ListFacts
  <2>3. saved' \in StateFile
    BY <1>1 DEF IInv, TypeOK, TimerState, StateFile
  <2>. QED  BY <2>1, <2>2, <2>3, FileAssumption
<1>3. Deadline = DeadlineOf(tm) /\ Deadline' = Deadline /\ Ahead' = Ahead
  BY <1>1, <1>2, MappedTimers
<1>4. Filed' = [now |-> basetime,
                deadline |-> [t \in Timers |-> IF t \notin Anonymous /\ tm.enabled[t]
                                               THEN tm.expire[t] ELSE Never]]
  BY <1>1, <1>2 DEF Filed
<1>5. \A t \in Timers : (IF t \notin Anonymous /\ tm.enabled[t] THEN tm.expire[t] ELSE Never)
                          = IF t \in Queued(tm) /\ tm.enabled[t] THEN tm.expire[t] ELSE Never
  BY <1>1, <1>2 DEF CanSave, LiveAnonymous
<1>6. Filed' = [now |-> basetime, deadline |-> Deadline]
  BY <1>3, <1>4, <1>5 DEF DeadlineOf
<1>7. Clock!Save
  BY <1>1, <1>2, <1>3, <1>6 DEF Clock!Save
<1>. QED  BY <1>7 DEF Clock!Next

\* What the other steps leave alone.
LEMMA OtherSteps ==
  ASSUME IInv, [Next]_vars, ~Loading, ~EmulatedCall, phase' # "detach"
  PROVE  UNCHANGED <<basetime, saved>> \/ EndSlice \/ SaveState
BY DEF Next, Step, vars, Stop, TimerAlloc, StartDone, Timeslice, BeginSlice, SkipTurn, SpinTurn, EnterDevice, Turn,
       BeginInstruction, EndInstruction, LeaveDevice, SlicesDone, TimersDone, LoadState, saveVars,
       StartCallback, SkipDisabled, EndCallback,
       DetachTimer, DetachDone, ReattachTimer, ReattachDone, Loading

LEMMA ClockStep ==
  ASSUME IInv, Bounded, Answered, Aims, Stepping, Owing, NoReenabling, Awaited, [Next]_vars,
         phase' # "detach",
         IInv', Awaited'
  PROVE  [Clock!Next]_Clock!vars
<1>1. ~Loading /\ ~Loading' /\ WellFormed(tm)
  BY ListFacts DEF Awaited, Loading
<1>2. CASE EmulatedCall
  BY <1>2, CallRefines
<1>3. CASE EndSlice
  BY <1>3, EndAdvances
<1>4. CASE SaveState
  BY <1>4, SaveFiles
<1>5. CASE ~EmulatedCall /\ UNCHANGED <<basetime, saved>>
  <2>1. CASE UNCHANGED <<tm, callback>>
    BY <1>1, <1>5, <2>1, SameClock
  <2>2. ASSUME NEW t \in Timers, TimerAlloc(t) PROVE Clock!Next
    <3>1. /\ t \notin Anonymous /\ t \notin Queued(tm) /\ tm' = InitTimer(tm, t) /\ callback' = callback
      BY <2>2 DEF TimerAlloc
    <3>2. Moved(tm, tm', t)
      BY <1>1, <3>1, InitTimerMoves
    <3>. QED  BY <1>1, <1>5, <3>1, <3>2, SetsClock
  <2>3. CASE StartCallback
    BY <2>3, StartRings
  <2>4. CASE EndCallback
    BY <2>4, EndSilences
  <2>. QED  BY <1>1, <1>5, <2>1, <2>2, <2>3, <2>4, NeverSkips, TimerSteps
<1>. QED  BY <1>1, <1>2, <1>3, <1>4, <1>5, OtherSteps

LEMMA ClockInit ==
  ASSUME IInv, Init PROVE Clock!Init
<1>1. /\ tm.list = <<Sentinel>> /\ phase = "start" /\ callback.timer = None /\ basetime = 0
      /\ tm.enabled = [t \in Timers |-> t = Sentinel] /\ tm.expire = [t \in Timers |-> Never]
      /\ private = <<>> /\ saved = None
  BY DEF Init, NoCallback
<1>2. Line = <<Sentinel>>
  <2>1. <<Sentinel>> \o <<>> = <<Sentinel>>
    OBVIOUS
  <2>. QED  BY <1>1, <2>1 DEF Line
<1>3. Deadline = [t \in Timers |-> Never]
  <2>1. \A t \in Timers : tm.expire[t] = Never
    BY <1>1
  <2>. QED  BY <2>1 DEF Deadline
<1>4. Ahead = {}
  <2>1. \A p \in (1..Len(Line)) \X (1..Len(Line)) : ~(p[1] < p[2])
    BY <1>2
  <2>. QED  BY <2>1 DEF Ahead
<1>5. Filed = None
  BY <1>1 DEF Filed
<1>. QED  BY <1>1, <1>3, <1>4, <1>5 DEF Clock!Init

\* The timers implement the alarm clock of module AlarmClock, while no state is loaded and
\* no timer is enabled again, if every suspension eats its cycles and no device is charged
\* more for a cycle than time() has answered: they fire in the order of their deadlines, those with the same deadline in the order in which they were set
\* (timer_list_insert), no slice ends more than an instruction past a deadline (timeslice(),
\* adjust()), and a state is saved with every deadline (can_save).
THEOREM AlwaysAlarmClock ==
  ASSUME Paced, Bounded, NoReenabling, Answered PROVE Spec /\ NothingLoaded => IsAlarmClock
<1>1. IInv /\ Aims /\ [Next]_vars => Aims'
  BY AimsStep
<1>2. IInv /\ Aims /\ Stepping /\ [Next]_vars => Stepping'
  BY SteppingStep
<1>3. IInv /\ Owing /\ [Next]_vars => Owing'
  BY OwingStep
<1>4. IInv /\ Aims /\ Stepping /\ Owing /\ Awaited /\ [Next]_vars /\ [phase' # "detach"]_vars
        => Awaited'
  <2>1. Awaited /\ UNCHANGED vars => Awaited'
    BY DEF vars, quantaVars, devVars, sliceVars, saveVars, Awaited, Loading, DisabledLast, Waiting, Rung, InTime,
           Turning, Cut, Done, Before, Queued
  <2>. QED  BY <2>1, AwaitedStep
<1>5. IInv /\ Aims /\ Stepping /\ Owing /\ Awaited /\ [Next]_vars /\ [phase' # "detach"]_vars
        /\ IInv' /\ Awaited' => [Clock!Next]_Clock!vars
  <2>1. Awaited /\ IInv /\ Awaited' /\ IInv' /\ UNCHANGED vars => UNCHANGED Clock!vars
    BY SameClock DEF vars, saveVars, Awaited
  <2>. QED  BY <2>1, ClockStep
<1>6. Init => Aims /\ Stepping /\ Owing /\ Awaited
  BY AimsInit, SteppingInit, ReachingInit, AwaitedInit
<1>7. Init => Clock!Init
  BY InitInv, ClockInit
<1>. QED  BY <1>1, <1>2, <1>3, <1>4, <1>5, <1>6, <1>7, Invariance, PTL
          DEF Spec, NothingLoaded, IsAlarmClock, Clock!Spec
===============================================================================
