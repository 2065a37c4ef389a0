---------------------------- MODULE TimerListProofs ----------------------------
(***************************************************************************)
(* Every operation of the timer list keeps it well formed: no timer twice, *)
(* and ordered so that its head is the next timer to fire.                 *)
(***************************************************************************)
EXTENDS TimerList, SequenceTheorems, WellFoundedInduction, TLAPS

-----------------------------------------------------------------------------
(* Insertion into and removal from a sequence.                             *)

\* InsertAt puts e at p and moves what was there and behind it by one place.
LEMMA InsertAtFacts ==
  ASSUME NEW S, NEW s \in Seq(S), NEW e \in S, NEW p \in 1..(Len(s) + 1)
  PROVE  /\ InsertAt(s, p, e) \in Seq(S)
         /\ Len(InsertAt(s, p, e)) = Len(s) + 1
         /\ \A i \in 1..(Len(s) + 1) :
              InsertAt(s, p, e)[i] = IF i < p THEN s[i] ELSE IF i = p THEN e ELSE s[i - 1]
<1> DEFINE a == SubSeq(s, 1, p - 1)
           b == <<e>>
           c == SubSeq(s, p, Len(s))
<1>0. Len(s) \in Nat /\ p \in Int /\ \A i \in 1..Len(s) : s[i] \in S
  BY LenProperties, ElementOfSeq
<1>1. /\ a \in Seq(S) /\ Len(a) = p - 1
      /\ \A i \in 1..(p - 1) : a[i] = s[i]
  <2>1. \A i \in 1..(p - 1) : s[i] \in S  BY <1>0
  <2>2. p - 1 \in Int /\ 1 \in Int  BY <1>0
  <2>3. /\ a \in Seq(S) /\ Len(a) = IF 1 <= p - 1 THEN (p - 1) - 1 + 1 ELSE 0
        /\ \A i \in 1..((p - 1) - 1 + 1) : a[i] = s[1 + i - 1]
    BY <2>1, <2>2, SubSeqProperties
  <2> QED BY <1>0, <2>3
<1>2. /\ c \in Seq(S) /\ Len(c) = Len(s) - p + 1
      /\ \A i \in 1..(Len(s) - p + 1) : c[i] = s[p + i - 1]
  <2>1. \A i \in p..Len(s) : s[i] \in S  BY <1>0
  <2>2. /\ c \in Seq(S) /\ Len(c) = IF p <= Len(s) THEN Len(s) - p + 1 ELSE 0
        /\ \A i \in 1..(Len(s) - p + 1) : c[i] = s[p + i - 1]
    BY <1>0, <2>1, SubSeqProperties
  <2> QED BY <1>0, <2>2
<1>3. b \in Seq(S) /\ Len(b) = 1 /\ b[1] = e
  OBVIOUS
<1> DEFINE ab == a \o b
<1> HIDE DEF a, b, c
<1>4. /\ ab \in Seq(S) /\ Len(ab) = p
      /\ \A i \in 1..p : ab[i] = IF i < p THEN s[i] ELSE e
  <2>1. /\ ab \in Seq(S) /\ Len(ab) = Len(a) + Len(b)
        /\ \A i \in 1..(Len(a) + Len(b)) :
             ab[i] = IF i <= Len(a) THEN a[i] ELSE b[i - Len(a)]
    BY <1>1, <1>3, ConcatProperties
  <2> HIDE DEF ab
  <2> QED BY <1>0, <1>1, <1>3, <2>1
<1> HIDE DEF ab
<1>5. /\ ab \o c \in Seq(S) /\ Len(ab \o c) = Len(s) + 1
      /\ \A i \in 1..(Len(s) + 1) :
           (ab \o c)[i] = IF i <= p THEN ab[i] ELSE c[i - p]
  <2>1. /\ ab \o c \in Seq(S)
        /\ Len(ab \o c) = Len(ab) + Len(c)
        /\ \A i \in 1..(Len(ab) + Len(c)) :
             (ab \o c)[i] = IF i <= Len(ab) THEN ab[i] ELSE c[i - Len(ab)]
    BY <1>2, <1>4, ConcatProperties
  <2> QED BY <1>0, <1>2, <1>4, <2>1
<1>6. InsertAt(s, p, e) = ab \o c
  BY DEF InsertAt, a, b, c, ab
<1>7. ASSUME NEW i \in 1..(Len(s) + 1)
      PROVE  (ab \o c)[i] = IF i < p THEN s[i] ELSE IF i = p THEN e ELSE s[i - 1]
  <2>1. CASE i <= p
    BY <1>0, <1>4, <1>5, <2>1
  <2>2. CASE i > p
    <3>1. i - p \in 1..(Len(s) - p + 1)  BY <1>0, <2>2
    <3>2. c[i - p] = s[p + (i - p) - 1]  BY <1>2, <3>1
    <3>3. p + (i - p) - 1 = i - 1  BY <1>0
    <3>4. (ab \o c)[i] = c[i - p]  BY <1>0, <1>5, <2>2
    <3> QED BY <1>0, <2>2, <3>2, <3>3, <3>4
  <2>3. i <= p \/ i > p  BY <1>0
  <2> QED BY <2>1, <2>2, <2>3
<1> QED BY <1>5, <1>6, <1>7

\* RemoveAt drops the entry at p and moves what is behind it by one place.
LEMMA RemoveAtFacts ==
  ASSUME NEW S, NEW s \in Seq(S), NEW p \in 1..Len(s)
  PROVE  /\ RemoveAt(s, p) \in Seq(S)
         /\ Len(RemoveAt(s, p)) = Len(s) - 1
         /\ \A i \in 1..(Len(s) - 1) :
              RemoveAt(s, p)[i] = IF i < p THEN s[i] ELSE s[i + 1]
<1> DEFINE a == SubSeq(s, 1, p - 1)
           c == SubSeq(s, p + 1, Len(s))
<1>0. Len(s) \in Nat /\ p \in Int /\ \A i \in 1..Len(s) : s[i] \in S
  BY LenProperties, ElementOfSeq
<1>1. /\ a \in Seq(S) /\ Len(a) = p - 1
      /\ \A i \in 1..(p - 1) : a[i] = s[i]
  <2>1. \A i \in 1..(p - 1) : s[i] \in S  BY <1>0
  <2>2. p - 1 \in Int /\ 1 \in Int  BY <1>0
  <2>3. /\ a \in Seq(S) /\ Len(a) = IF 1 <= p - 1 THEN (p - 1) - 1 + 1 ELSE 0
        /\ \A i \in 1..((p - 1) - 1 + 1) : a[i] = s[1 + i - 1]
    BY <2>1, <2>2, SubSeqProperties
  <2> QED BY <1>0, <2>3
<1>2. /\ c \in Seq(S) /\ Len(c) = Len(s) - p
      /\ \A i \in 1..(Len(s) - p) : c[i] = s[p + i]
  <2>1. \A i \in (p + 1)..Len(s) : s[i] \in S  BY <1>0
  <2>2. p + 1 \in Int  BY <1>0
  <2>3. /\ c \in Seq(S) /\ Len(c) = IF p + 1 <= Len(s) THEN Len(s) - (p + 1) + 1 ELSE 0
        /\ \A i \in 1..(Len(s) - (p + 1) + 1) : c[i] = s[(p + 1) + i - 1]
    BY <1>0, <2>1, <2>2, SubSeqProperties
  <2> QED BY <1>0, <2>3
<1> HIDE DEF a, c
<1>3. /\ a \o c \in Seq(S) /\ Len(a \o c) = Len(a) + Len(c)
      /\ \A i \in 1..(Len(a) + Len(c)) :
           (a \o c)[i] = IF i <= Len(a) THEN a[i] ELSE c[i - Len(a)]
  BY <1>1, <1>2, ConcatProperties
<1>4. ASSUME NEW i \in 1..(Len(s) - 1)
      PROVE  (a \o c)[i] = IF i < p THEN s[i] ELSE s[i + 1]
  <2>1. CASE i < p
    BY <1>0, <1>1, <1>2, <1>3, <2>1
  <2>2. CASE i >= p
    <3>1. i - (p - 1) \in 1..(Len(s) - p)  BY <1>0, <2>2
    <3>2. c[i - (p - 1)] = s[p + (i - (p - 1))]  BY <1>2, <3>1
    <3>3. p + (i - (p - 1)) = i + 1  BY <1>0
    <3>4. (a \o c)[i] = c[i - (p - 1)]  BY <1>0, <1>1, <1>2, <1>3, <2>2
    <3> QED BY <1>0, <2>2, <3>2, <3>3, <3>4
  <2>3. i < p \/ i >= p  BY <1>0
  <2> QED BY <2>1, <2>2, <2>3
<1>5. RemoveAt(s, p) = a \o c
  BY DEF RemoveAt, a, c
<1> QED BY <1>0, <1>1, <1>2, <1>3, <1>4, <1>5

-----------------------------------------------------------------------------
(* Where a timer goes.                                                     *)

\* A non-empty set of natural numbers has a least element.
LEMMA LeastElement ==
  ASSUME NEW T, T \subseteq Nat, T # {}
  PROVE  \E x \in T : \A y \in T : x <= y
<1>1. \E x \in T : \A y \in T : ~(<<y, x>> \in OpToRel(<, Nat))
  BY NatLessThanWellFounded, WFMin
<1>2. PICK x \in T : \A y \in T : ~(<<y, x>> \in OpToRel(<, Nat))
  BY <1>1
<1>3. ASSUME NEW y \in T PROVE x <= y
  <2>1. y < x => <<y, x>> \in OpToRel(<, Nat)
    <3>1. x \in Nat /\ y \in Nat  OBVIOUS
    <3>2. <<y, x>> \in Nat \X Nat  BY <3>1
    <3>3. <<y, x>>[1] = y /\ <<y, x>>[2] = x  OBVIOUS
    <3>4. OpToRel(<, Nat) = {ss \in Nat \X Nat : ss[1] < ss[2]}  BY Zenon DEF OpToRel
    <3> QED BY <3>2, <3>3, <3>4
  <2>2. ~(y < x)  BY <1>2, <2>1, Zenon
  <2>3. x \in Nat /\ y \in Nat  OBVIOUS
  <2> QED BY <2>2, <2>3
<1> QED BY <1>3

\* timer_list_insert finds the first entry that expires after the key: those
\* in front of it do not.
LEMMA InsertPosFacts ==
  ASSUME NEW ts \in TimerState, NEW k \in Time
  PROVE  /\ InsertPos(ts, k) \in 1..(Len(ts.list) + 1)
         /\ \A i \in 1..Len(ts.list) :
              i < InsertPos(ts, k) => ts.expire[ts.list[i]] <= k
         /\ InsertPos(ts, k) <= Len(ts.list) =>
              ts.expire[ts.list[InsertPos(ts, k)]] > k
<1> DEFINE L == Later(ts, k)
<1>0. /\ ts.list \in Seq(Timers) /\ Len(ts.list) \in Nat
      /\ \A i \in 1..Len(ts.list) : ts.expire[ts.list[i]] \in Int
  <2>1. ts.list \in Seq(Timers) /\ ts.expire \in [Timers -> Time]
    BY DEF TimerState
  <2>2. Len(ts.list) \in Nat /\ \A i \in 1..Len(ts.list) : ts.list[i] \in Timers
    BY <2>1, LenProperties, ElementOfSeq
  <2> QED BY <2>1, <2>2 DEF Time
<1>1. L \subseteq 1..Len(ts.list)
  BY DEF Later
<1>2. CASE L = {}
  <2>1. InsertPos(ts, k) = Len(ts.list) + 1  BY <1>2 DEF InsertPos
  <2>2. \A i \in 1..Len(ts.list) : ts.expire[ts.list[i]] <= k
    BY <1>0, <1>2 DEF Later, Time
  <2> QED BY <1>0, <2>1, <2>2
<1>3. CASE L # {}
  <2>1. InsertPos(ts, k) \in L /\ \A j \in L : InsertPos(ts, k) <= j
    <3>1. \E i \in L : \A j \in L : i <= j
      <4>1. L \subseteq Nat  BY <1>0, <1>1
      <4> HIDE DEF L
      <4> QED BY <1>3, <4>1, LeastElement
    <3>2. InsertPos(ts, k) = CHOOSE i \in L : \A j \in L : i <= j
      BY <1>3 DEF InsertPos
    <3> QED BY <3>1, <3>2
  <2>2. ASSUME NEW i \in 1..Len(ts.list), i < InsertPos(ts, k)
        PROVE  ts.expire[ts.list[i]] <= k
    <3>1. i \notin L  BY <1>0, <1>1, <2>1, <2>2
    <3> QED BY <1>0, <3>1 DEF Later, Time
  <2>3. ts.expire[ts.list[InsertPos(ts, k)]] > k  BY <2>1 DEF Later
  <2> QED BY <1>0, <1>1, <2>1, <2>2, <2>3
<1> QED BY <1>2, <1>3

\* The key of a timer is a time, and not earlier than its raw expiry.
LEMMA SortKeyFacts ==
  ASSUME NEW ts \in TimerState, NEW t \in Timers
  PROVE  /\ SortKey(ts, t) \in Time /\ ts.expire[t] \in Time
         /\ ts.expire[t] <= SortKey(ts, t)
<1>1. ts.expire[t] \in Time  BY DEF TimerState
<1>2. Never \in Time  BY NeverAssumption DEF Time
<1> QED BY <1>1, <1>2, NeverAssumption DEF SortKey, Time

-----------------------------------------------------------------------------
(* Linking and unlinking.                                                  *)

\* Inserting a timer that is not queued keeps the list well formed.
LEMMA InsertKeeps ==
  ASSUME NEW ts, WellFormed(ts), NEW t \in Timers, t \notin Queued(ts)
  PROVE  /\ WellFormed(Insert(ts, t))
         /\ Queued(Insert(ts, t)) = Queued(ts) \cup {t}
         /\ Insert(ts, t).enabled = ts.enabled
         /\ Insert(ts, t).period = ts.period
         /\ Insert(ts, t).expire = ts.expire
<1> DEFINE k == SortKey(ts, t)
           p == InsertPos(ts, k)
           r == Insert(ts, t)
           n == Len(ts.list)
           old(i) == IF i < p THEN i ELSE i - 1
<1>0. /\ ts \in TimerState /\ ts.list \in Seq(Timers) /\ n \in Nat
      /\ \A i \in 1..n : ts.list[i] \in Timers
  <2>1. ts \in TimerState /\ ts.list \in Seq(Timers)  BY DEF WellFormed, TimerState
  <2> QED BY <2>1, LenProperties, ElementOfSeq
<1>1. /\ k \in Time /\ ts.expire[t] <= k /\ ts.expire[t] \in Time
  BY <1>0, SortKeyFacts
<1>2. /\ p \in 1..(n + 1)
      /\ \A i \in 1..n : i < p => ts.expire[ts.list[i]] <= k
      /\ p <= n => ts.expire[ts.list[p]] > k
  BY <1>0, <1>1, InsertPosFacts
<1>3. /\ r = [ts EXCEPT !.list = InsertAt(ts.list, p, t)]
  BY DEF Insert
<1>4. /\ r.enabled = ts.enabled /\ r.period = ts.period /\ r.expire = ts.expire
      /\ r.list = InsertAt(ts.list, p, t)
  BY <1>0, <1>3 DEF TimerState
<1>5. /\ r.list \in Seq(Timers) /\ Len(r.list) = n + 1
      /\ \A i \in 1..(n + 1) :
           r.list[i] = IF i < p THEN ts.list[i] ELSE IF i = p THEN t ELSE ts.list[i - 1]
  <2> DEFINE l == ts.list
  <2>1. p \in 1..(Len(l) + 1) /\ l \in Seq(Timers) /\ r.list = InsertAt(l, p, t)
    BY <1>0, <1>2, <1>4
  <2> HIDE DEF p, r, l
  <2>2. /\ r.list \in Seq(Timers) /\ Len(r.list) = Len(l) + 1
        /\ \A i \in 1..(Len(l) + 1) :
             r.list[i] = IF i < p THEN l[i] ELSE IF i = p THEN t ELSE l[i - 1]
    BY <2>1, InsertAtFacts
  <2> QED BY <2>2 DEF l
<1>6. r \in TimerState
  BY <1>0, <1>3, <1>4, <1>5 DEF TimerState
<1>7. \A x \in Timers : SortKey(r, x) = SortKey(ts, x)
  BY <1>4 DEF SortKey
<1> HIDE DEF k, p, r, n
<1>8. /\ r.list[p] = t
      /\ \A i \in 1..(n + 1) : i # p => /\ old(i) \in 1..n
                                        /\ r.list[i] = ts.list[old(i)]
  BY <1>0, <1>2, <1>5
<1>9. \A i \in 1..n : ts.list[i] # t
  BY DEF Queued, n
<1>10. Distinct(r)
  <2> SUFFICES ASSUME NEW i \in 1..(n + 1), NEW j \in 1..(n + 1), r.list[i] = r.list[j]
               PROVE  i = j
    BY <1>5 DEF Distinct
  <2>1. CASE i = p \/ j = p
    BY <1>8, <1>9, <2>1
  <2>2. CASE i # p /\ j # p
    <3>1. old(i) \in 1..n /\ old(j) \in 1..n /\ ts.list[old(i)] = ts.list[old(j)]
      BY <1>8, <2>2
    <3>2. old(i) = old(j)  BY <3>1 DEF WellFormed, Distinct, n
    <3> QED BY <1>0, <1>2, <2>2, <3>2
  <2> QED BY <2>1, <2>2
<1>11. Ordered(r)
  <2> SUFFICES ASSUME NEW i \in 1..(n + 1), NEW j \in 1..(n + 1), i < j
               PROVE  ts.expire[r.list[i]] <= SortKey(r, r.list[j])
    BY <1>4, <1>5 DEF Ordered
  <2>1. CASE i # p /\ j # p
    <3>1. old(i) \in 1..n /\ old(j) \in 1..n /\ old(i) < old(j)
      BY <1>0, <1>2, <1>8, <2>1
    <3>2. ts.expire[ts.list[old(i)]] <= SortKey(ts, ts.list[old(j)])
      BY <3>1 DEF WellFormed, Ordered, n
    <3> QED BY <1>0, <1>7, <1>8, <2>1, <3>1, <3>2
  <2>2. CASE j = p
    <3>1. i \in 1..n /\ i < p /\ r.list[i] = ts.list[i]  BY <1>0, <1>2, <1>5, <2>2
    <3> QED BY <1>2, <1>7, <1>8, <2>2, <3>1 DEF k
  <2>3. CASE i = p
    <3> DEFINE x == ts.list[j - 1]
    <3>1. j - 1 \in 1..n /\ p \in 1..n /\ p <= j - 1 /\ r.list[j] = x
      BY <1>0, <1>2, <1>5, <2>3
    <3>2. x \in Timers /\ ts.list[p] \in Timers  BY <1>0, <3>1
    <3>3. SortKey(ts, x) \in Time /\ ts.expire[x] <= SortKey(ts, x) /\ ts.expire[x] \in Time
      BY <1>0, <3>2, SortKeyFacts
    <3>4. ts.expire[ts.list[p]] \in Time  BY <1>0, <3>2, SortKeyFacts
    <3>5. ts.expire[ts.list[p]] <= SortKey(ts, x)
      <4>1. CASE p = j - 1  BY <3>3, <4>1
      <4>2. CASE p < j - 1  BY <3>1, <4>2 DEF WellFormed, Ordered, n
      <4>3. p = j - 1 \/ p < j - 1  BY <3>1
      <4> QED BY <4>1, <4>2, <4>3
    <3>6. ts.expire[t] <= SortKey(ts, x)
      BY <1>1, <1>2, <3>1, <3>3, <3>4, <3>5 DEF Time
    <3>7. r.list[i] = t /\ SortKey(r, r.list[j]) = SortKey(ts, x)
      BY <1>7, <1>8, <2>3, <3>1, <3>2
    <3> QED BY <3>6, <3>7
  <2> QED BY <2>1, <2>2, <2>3
<1>12. Queued(r) = Queued(ts) \cup {t}
  <2>1. Queued(r) \subseteq Queued(ts) \cup {t}
    BY <1>5, <1>8 DEF Queued, n
  <2>2. ASSUME NEW i \in 1..n PROVE ts.list[i] \in Queued(r)
    <3>1. CASE i < p
      BY <1>0, <1>5, <3>1 DEF Queued
    <3>2. CASE i >= p
      <4>1. i + 1 \in 1..(n + 1) /\ ~(i + 1 < p) /\ i + 1 # p /\ (i + 1) - 1 = i
        BY <1>0, <1>2, <3>2
      <4>2. r.list[i + 1] = ts.list[i]  BY <1>5, <4>1
      <4> QED BY <1>5, <4>1, <4>2 DEF Queued
    <3>3. i < p \/ i >= p  BY <1>2
    <3> QED BY <3>1, <3>2, <3>3
  <2>3. t \in Queued(r)  BY <1>2, <1>5, <1>8 DEF Queued
  <2> QED BY <2>1, <2>2, <2>3 DEF Queued, n
<1> QED BY <1>4, <1>6, <1>10, <1>11, <1>12 DEF WellFormed, r

\* The list is ordered but for timer t, whose fields have just been changed.
OrderedBut(ts, t) == \A i, j \in 1..Len(ts.list) :
  i < j /\ ts.list[i] # t /\ ts.list[j] # t => ts.expire[ts.list[i]] <= SortKey(ts, ts.list[j])

\* Unlinking a timer takes just that one out, whatever the order, and repairs
\* an order that only that timer disturbs.
LEMMA UnlinkKeeps ==
  ASSUME NEW ts \in TimerState, NEW t \in Timers, Distinct(ts), t \in Queued(ts)
  PROVE  /\ Unlink(ts, t) \in TimerState /\ Distinct(Unlink(ts, t))
         /\ OrderedBut(ts, t) => WellFormed(Unlink(ts, t))
         /\ Queued(Unlink(ts, t)) = Queued(ts) \ {t}
         /\ Unlink(ts, t).enabled = ts.enabled
         /\ Unlink(ts, t).period = ts.period
         /\ Unlink(ts, t).expire = ts.expire
<1> DEFINE p == Position(ts, t)
           r == Unlink(ts, t)
           n == Len(ts.list)
           old(i) == IF i < p THEN i ELSE i + 1
<1>0. /\ ts.list \in Seq(Timers) /\ n \in Nat
      /\ \A i \in 1..n : ts.list[i] \in Timers
  <2>1. ts.list \in Seq(Timers)  BY DEF TimerState
  <2> QED BY <2>1, LenProperties, ElementOfSeq
<1>1. p \in 1..n /\ ts.list[p] = t
  BY DEF Queued, Position
<1>2. r = [ts EXCEPT !.list = RemoveAt(ts.list, p)]
  BY DEF Unlink
<1>3. /\ r.enabled = ts.enabled /\ r.period = ts.period /\ r.expire = ts.expire
      /\ r.list = RemoveAt(ts.list, p)
  BY <1>2 DEF TimerState
<1>4. /\ r.list \in Seq(Timers) /\ Len(r.list) = n - 1
      /\ \A i \in 1..(n - 1) : r.list[i] = IF i < p THEN ts.list[i] ELSE ts.list[i + 1]
  <2> DEFINE l == ts.list
  <2>1. p \in 1..Len(l) /\ l \in Seq(Timers) /\ r.list = RemoveAt(l, p)
    BY <1>0, <1>1, <1>3
  <2> HIDE DEF p, r, l
  <2>2. /\ r.list \in Seq(Timers) /\ Len(r.list) = Len(l) - 1
        /\ \A i \in 1..(Len(l) - 1) : r.list[i] = IF i < p THEN l[i] ELSE l[i + 1]
    BY <2>1, RemoveAtFacts
  <2> QED BY <2>2 DEF l
<1>5. r \in TimerState
  BY <1>2, <1>3, <1>4 DEF TimerState
<1>6. \A x \in Timers : SortKey(r, x) = SortKey(ts, x)
  BY <1>3 DEF SortKey
<1> HIDE DEF p, r, n
<1>7. \A i \in 1..(n - 1) : /\ old(i) \in 1..n /\ old(i) # p
                            /\ r.list[i] = ts.list[old(i)]
  BY <1>0, <1>1, <1>4
<1>8. \A i \in 1..n : ts.list[i] = t => i = p
  BY <1>1 DEF Distinct, n
<1>9. Distinct(r)
  <2> SUFFICES ASSUME NEW i \in 1..(n - 1), NEW j \in 1..(n - 1), r.list[i] = r.list[j]
               PROVE  i = j
    BY <1>4 DEF Distinct
  <2>1. old(i) \in 1..n /\ old(j) \in 1..n /\ ts.list[old(i)] = ts.list[old(j)]
    BY <1>7
  <2>2. old(i) = old(j)  BY <2>1 DEF Distinct, n
  <2> QED BY <1>0, <1>1, <2>2
<1>10. OrderedBut(ts, t) => Ordered(r)
  <2> SUFFICES ASSUME OrderedBut(ts, t),
                      NEW i \in 1..(n - 1), NEW j \in 1..(n - 1), i < j
               PROVE  ts.expire[r.list[i]] <= SortKey(r, r.list[j])
    BY <1>3, <1>4 DEF Ordered
  <2>1. old(i) \in 1..n /\ old(j) \in 1..n /\ old(i) < old(j)
    BY <1>0, <1>1, <1>7
  <2>2. ts.list[old(i)] # t /\ ts.list[old(j)] # t
    BY <1>7, <1>8
  <2>3. ts.expire[ts.list[old(i)]] <= SortKey(ts, ts.list[old(j)])
    BY <2>1, <2>2 DEF OrderedBut, n
  <2>4. SortKey(r, r.list[j]) = SortKey(ts, ts.list[old(j)])
    BY <1>0, <1>6, <1>7, <2>1
  <2> QED BY <1>7, <2>3, <2>4
<1>11. Queued(r) = Queued(ts) \ {t}
  <2>1. Queued(r) \subseteq Queued(ts) \ {t}
    BY <1>4, <1>7, <1>8, SMTT(30) DEF Queued, n
  <2>2. ASSUME NEW i \in 1..n, ts.list[i] # t PROVE ts.list[i] \in Queued(r)
    <3>1. CASE i < p
      <4>1. i \in 1..(n - 1)  BY <1>0, <1>1, <3>1
      <4>2. r.list[i] = ts.list[i]  BY <1>4, <3>1, <4>1
      <4> QED BY <1>4, <4>1, <4>2 DEF Queued
    <3>2. CASE i > p
      <4>1. i - 1 \in 1..(n - 1) /\ ~(i - 1 < p) /\ (i - 1) + 1 = i
        BY <1>0, <1>1, <3>2
      <4>2. r.list[i - 1] = ts.list[i]  BY <1>4, <4>1
      <4> QED BY <1>4, <4>1, <4>2 DEF Queued
    <3>3. i < p \/ i > p  BY <1>1, <2>2
    <3> QED BY <3>1, <3>2, <3>3
  <2> QED BY <2>1, <2>2 DEF Queued, n
<1> QED BY <1>3, <1>5, <1>9, <1>10, <1>11 DEF WellFormed, r

\* Moving a queued timer to its place repairs an order it alone disturbs.
LEMMA ReinsertKeeps ==
  ASSUME NEW ts \in TimerState, NEW t \in Timers, Distinct(ts), OrderedBut(ts, t),
         t \in Queued(ts)
  PROVE  /\ WellFormed(Reinsert(ts, t))
         /\ Queued(Reinsert(ts, t)) = Queued(ts)
         /\ Reinsert(ts, t).enabled = ts.enabled
         /\ Reinsert(ts, t).period = ts.period
         /\ Reinsert(ts, t).expire = ts.expire
<1> DEFINE u == Unlink(ts, t)
<1>1. /\ WellFormed(u) /\ Queued(u) = Queued(ts) \ {t}
      /\ u.enabled = ts.enabled /\ u.period = ts.period /\ u.expire = ts.expire
  BY UnlinkKeeps
<1>2. Reinsert(ts, t) = Insert(u, t)
  BY DEF Reinsert
<1> HIDE DEF u
<1>3. /\ WellFormed(Insert(u, t)) /\ Queued(Insert(u, t)) = Queued(u) \cup {t}
      /\ Insert(u, t).enabled = u.enabled /\ Insert(u, t).period = u.period
      /\ Insert(u, t).expire = u.expire
  BY <1>1, InsertKeeps
<1> QED BY <1>1, <1>2, <1>3

-----------------------------------------------------------------------------
(* The operations.                                                         *)

SameBut(ts, us, t) ==
  /\ us.list = ts.list
  /\ \A x \in Timers \ {t} : /\ us.enabled[x] = ts.enabled[x]
                             /\ us.expire[x] = ts.expire[x]

\* Changing the fields of one timer disturbs the order around that timer only.
LEMMA FieldsOf ==
  ASSUME NEW ts, WellFormed(ts), NEW us \in TimerState, NEW t \in Timers,
         SameBut(ts, us, t)
  PROVE  /\ Distinct(us) /\ OrderedBut(us, t) /\ Queued(us) = Queued(ts)
         /\ t \notin Queued(ts) => WellFormed(us)
<1>0. \A i \in 1..Len(us.list) : us.list[i] \in Timers
  <2>1. us.list \in Seq(Timers)  BY DEF TimerState
  <2> QED BY <2>1, ElementOfSeq
<1>1. us.list = ts.list  BY DEF SameBut
<1>2. Distinct(us)  BY <1>1 DEF WellFormed, Distinct
<1>3. Queued(us) = Queued(ts)  BY <1>1 DEF Queued
<1>4. \A x \in Timers \ {t} : us.expire[x] = ts.expire[x] /\ SortKey(us, x) = SortKey(ts, x)
  BY DEF SameBut, SortKey
<1>5. OrderedBut(us, t)
  BY <1>0, <1>1, <1>4 DEF WellFormed, Ordered, OrderedBut
<1>6. ASSUME t \notin Queued(ts) PROVE Ordered(us)
  <2>1. \A i \in 1..Len(us.list) : us.list[i] # t  BY <1>1, <1>6 DEF Queued
  <2> QED BY <1>5, <2>1 DEF Ordered, OrderedBut
<1> QED BY <1>2, <1>3, <1>5, <1>6 DEF WellFormed

\* emu_timer::init, for a timer that is not in the list.
LEMMA InitTimerKeeps ==
  ASSUME NEW ts, WellFormed(ts), NEW t \in Timers, t \notin Queued(ts)
  PROVE  /\ WellFormed(InitTimer(ts, t))
         /\ Queued(InitTimer(ts, t)) = Queued(ts) \cup {t}
         /\ InitTimer(ts, t).enabled = [ts.enabled EXCEPT ![t] = FALSE]
         /\ InitTimer(ts, t).expire = [ts.expire EXCEPT ![t] = Never]
<1> DEFINE us == [ts EXCEPT !.enabled[t] = FALSE, !.period[t] = Never, !.expire[t] = Never]
<1>1. ts \in TimerState /\ Never \in Time
  BY NeverAssumption DEF WellFormed, Time
<1>2. /\ us \in TimerState /\ SameBut(ts, us, t)
      /\ us.enabled = [ts.enabled EXCEPT ![t] = FALSE]
      /\ us.expire = [ts.expire EXCEPT ![t] = Never]
  BY <1>1 DEF TimerState, SameBut
<1>3. InitTimer(ts, t) = Insert(us, t)  BY DEF InitTimer
<1> HIDE DEF us
<1>4. WellFormed(us) /\ Queued(us) = Queued(ts)  BY <1>2, FieldsOf
<1>5. /\ WellFormed(Insert(us, t)) /\ Queued(Insert(us, t)) = Queued(us) \cup {t}
      /\ Insert(us, t).enabled = us.enabled /\ Insert(us, t).expire = us.expire
  BY <1>4, InsertKeeps
<1> QED BY <1>2, <1>3, <1>4, <1>5

\* emu_timer::enable.
LEMMA EnableKeeps ==
  ASSUME NEW ts, WellFormed(ts), NEW t \in Queued(ts), NEW on \in BOOLEAN
  PROVE  /\ WellFormed(Enable(ts, t, on)) /\ Queued(Enable(ts, t, on)) = Queued(ts)
         /\ \A x \in Timers \ {t} : Enable(ts, t, on).enabled[x] = ts.enabled[x]
         /\ Enable(ts, t, on).expire = ts.expire
<1>1. CASE ts.enabled[t] = on
  BY <1>1 DEF Enable
<1>2. CASE ts.enabled[t] # on
  <2> DEFINE us == [ts EXCEPT !.enabled[t] = on]
  <2>0. ts \in TimerState /\ t \in Timers
    <3>1. ts \in TimerState /\ ts.list \in Seq(Timers)  BY DEF WellFormed, TimerState
    <3> QED BY <3>1, ElementOfSeq DEF Queued
  <2>1. /\ us \in TimerState /\ SameBut(ts, us, t) /\ us.expire = ts.expire
        /\ us.enabled = [ts.enabled EXCEPT ![t] = on]
    BY <2>0 DEF TimerState, SameBut
  <2>2. Enable(ts, t, on) = Reinsert(us, t)  BY <1>2 DEF Enable
  <2> HIDE DEF us
  <2>3. Distinct(us) /\ OrderedBut(us, t) /\ Queued(us) = Queued(ts)
    BY <2>0, <2>1, FieldsOf
  <2>4. /\ WellFormed(Reinsert(us, t)) /\ Queued(Reinsert(us, t)) = Queued(us)
        /\ Reinsert(us, t).enabled = us.enabled /\ Reinsert(us, t).expire = us.expire
    BY <2>0, <2>1, <2>3, ReinsertKeeps
  <2> QED BY <2>0, <2>1, <2>2, <2>3, <2>4 DEF TimerState
<1> QED BY <1>1, <1>2

\* The sum of two times is a time.
LEMMA PlusType ==
  ASSUME NEW a \in Nat, NEW b \in Nat
  PROVE  Plus(a, b) \in Time
BY NeverAssumption DEF Plus, Time

\* emu_timer::adjust.
LEMMA AdjustKeeps ==
  ASSUME NEW ts, WellFormed(ts), NEW t \in Queued(ts), NEW now \in Time,
         NEW delay \in Int, NEW period \in Time
  PROVE  LET us == Adjust(ts, t, now, delay, period) IN
         /\ WellFormed(us) /\ Queued(us) = Queued(ts)
         /\ us.enabled = [ts.enabled EXCEPT ![t] = TRUE]
         /\ us.expire = [ts.expire EXCEPT ![t] = Plus(now, ClampDelay(delay))]
<1> DEFINE e == Plus(now, ClampDelay(delay))
           us == [ts EXCEPT !.enabled[t] = TRUE, !.expire[t] = e, !.period[t] = period]
<1>0. ts \in TimerState /\ t \in Timers
  <2>1. ts \in TimerState /\ ts.list \in Seq(Timers)  BY DEF WellFormed, TimerState
  <2> QED BY <2>1, ElementOfSeq DEF Queued
<1>1. e \in Time
  <2>1. now \in Nat /\ ClampDelay(delay) \in Nat  BY NeverAssumption DEF Time, ClampDelay
  <2> QED BY <2>1, PlusType
<1>2. Adjust(ts, t, now, delay, period) = Reinsert(us, t)  BY DEF Adjust
<1> HIDE DEF e
<1>3. /\ us \in TimerState /\ SameBut(ts, us, t)
      /\ us.enabled = [ts.enabled EXCEPT ![t] = TRUE]
      /\ us.expire = [ts.expire EXCEPT ![t] = e]
  BY <1>0, <1>1 DEF TimerState, SameBut
<1> HIDE DEF us
<1>4. Distinct(us) /\ OrderedBut(us, t) /\ Queued(us) = Queued(ts)
  BY <1>0, <1>3, FieldsOf
<1>5. /\ WellFormed(Reinsert(us, t)) /\ Queued(Reinsert(us, t)) = Queued(us)
      /\ Reinsert(us, t).enabled = us.enabled /\ Reinsert(us, t).expire = us.expire
  BY <1>0, <1>3, <1>4, ReinsertKeeps
<1> QED BY <1>2, <1>3, <1>4, <1>5 DEF e

\* device_scheduler::timer_set.
LEMMA SetTimerKeeps ==
  ASSUME NEW ts, WellFormed(ts), NEW t \in Timers, t \notin Queued(ts),
         NEW now \in Time, NEW delay \in Int
  PROVE  LET us == SetTimer(ts, t, now, delay) IN
         /\ WellFormed(us) /\ Queued(us) = Queued(ts) \cup {t}
         /\ \A x \in Timers \ {t} : us.enabled[x] = ts.enabled[x] /\ us.expire[x] = ts.expire[x]
<1> DEFINE vs == InitTimer(ts, t)
<1>1. /\ WellFormed(vs) /\ Queued(vs) = Queued(ts) \cup {t}
      /\ vs.enabled = [ts.enabled EXCEPT ![t] = FALSE]
      /\ vs.expire = [ts.expire EXCEPT ![t] = Never]
  BY InitTimerKeeps
<1>2. SetTimer(ts, t, now, delay) = Adjust(vs, t, now, delay, Never)  BY DEF SetTimer
<1>3. Never \in Time  BY NeverAssumption DEF Time
<1>4. /\ ts.enabled \in [Timers -> BOOLEAN] /\ ts.expire \in [Timers -> Time]
  BY DEF WellFormed, TimerState
<1>6. t \in Queued(vs)  BY <1>1
<1>0. WellFormed(vs)  BY <1>1
<1> HIDE DEF vs
<1> DEFINE us == Adjust(vs, t, now, delay, Never)
<1>5. /\ WellFormed(us) /\ Queued(us) = Queued(vs)
      /\ us.enabled = [vs.enabled EXCEPT ![t] = TRUE]
      /\ us.expire = [vs.expire EXCEPT ![t] = Plus(now, ClampDelay(delay))]
  <2>1. ASSUME NEW ws, WellFormed(ws), t \in Queued(ws)
        PROVE  /\ WellFormed(Adjust(ws, t, now, delay, Never))
               /\ Queued(Adjust(ws, t, now, delay, Never)) = Queued(ws)
               /\ Adjust(ws, t, now, delay, Never).enabled = [ws.enabled EXCEPT ![t] = TRUE]
               /\ Adjust(ws, t, now, delay, Never).expire =
                    [ws.expire EXCEPT ![t] = Plus(now, ClampDelay(delay))]
    BY <1>3, <2>1, AdjustKeeps
  <2> QED BY <1>0, <1>6, <2>1
<1>7. /\ WellFormed(us) /\ Queued(us) = Queued(ts) \cup {t}
      /\ us.enabled = [vs.enabled EXCEPT ![t] = TRUE]
      /\ us.expire = [vs.expire EXCEPT ![t] = Plus(now, ClampDelay(delay))]
  BY <1>1, <1>5
<1> HIDE DEF us
<1>8. ASSUME NEW x \in Timers \ {t}
      PROVE  us.enabled[x] = ts.enabled[x] /\ us.expire[x] = ts.expire[x]
  BY <1>1, <1>4, <1>7
<1> QED BY <1>2, <1>7, <1>8 DEF us

\* emu_timer::schedule_next_period.
LEMMA NextPeriodKeeps ==
  ASSUME NEW ts, WellFormed(ts), NEW t \in Queued(ts)
  PROVE  LET us == ScheduleNextPeriod(ts, t) IN
         /\ WellFormed(us) /\ Queued(us) = Queued(ts)
         /\ us.enabled = ts.enabled
         /\ us.expire = [ts.expire EXCEPT ![t] = Plus(ts.expire[t], ts.period[t])]
<1> DEFINE e == Plus(ts.expire[t], ts.period[t])
           us == [ts EXCEPT !.expire[t] = e]
<1>0. ts \in TimerState /\ t \in Timers
  <2>1. ts \in TimerState /\ ts.list \in Seq(Timers)  BY DEF WellFormed, TimerState
  <2> QED BY <2>1, ElementOfSeq DEF Queued
<1>1. e \in Time
  <2>1. ts.expire[t] \in Nat /\ ts.period[t] \in Nat
    BY <1>0, NeverAssumption DEF TimerState, Time
  <2> QED BY <2>1, PlusType
<1>2. ScheduleNextPeriod(ts, t) = Reinsert(us, t)
  BY <1>0 DEF ScheduleNextPeriod, TimerState
<1> HIDE DEF e
<1>3. /\ us \in TimerState /\ SameBut(ts, us, t)
      /\ us.enabled = ts.enabled /\ us.expire = [ts.expire EXCEPT ![t] = e]
  BY <1>0, <1>1 DEF TimerState, SameBut
<1> HIDE DEF us
<1>4. Distinct(us) /\ OrderedBut(us, t) /\ Queued(us) = Queued(ts)
  BY <1>0, <1>3, FieldsOf
<1>5. /\ WellFormed(Reinsert(us, t)) /\ Queued(Reinsert(us, t)) = Queued(us)
      /\ Reinsert(us, t).enabled = us.enabled /\ Reinsert(us, t).expire = us.expire
  BY <1>0, <1>3, <1>4, ReinsertKeeps
<1> QED BY <1>2, <1>3, <1>4, <1>5 DEF e

\* execute_timers disables a one-shot head in place.
LEMMA DisarmHeadKeeps ==
  ASSUME NEW ts, WellFormed(ts), ts.list # <<>>
  PROVE  /\ WellFormed(DisarmHead(ts)) /\ Queued(DisarmHead(ts)) = Queued(ts)
         /\ DisarmHead(ts).list = ts.list /\ DisarmHead(ts).expire = ts.expire
         /\ \A x \in Timers \ {Head(ts.list)} : DisarmHead(ts).enabled[x] = ts.enabled[x]
<1> DEFINE h == Head(ts.list)
           us == DisarmHead(ts)
<1>0. /\ ts \in TimerState /\ ts.list \in Seq(Timers) /\ h \in Timers
      /\ \A i \in 1..Len(ts.list) : ts.list[i] \in Timers
  <2>1. ts \in TimerState /\ ts.list \in Seq(Timers)  BY DEF WellFormed, TimerState
  <2> QED BY <2>1, ElementOfSeq, HeadTailProperties
<1>1. us = [ts EXCEPT !.enabled[h] = ts.enabled[h] /\ ~OneShot(ts, h)]
  BY DEF DisarmHead
<1>2. (ts.enabled[h] /\ ~OneShot(ts, h)) \in BOOLEAN  OBVIOUS
<1>3. /\ us \in TimerState /\ us.list = ts.list /\ us.expire = ts.expire
      /\ us.enabled = [ts.enabled EXCEPT ![h] = ts.enabled[h] /\ ~OneShot(ts, h)]
  <2> DEFINE b == ts.enabled[h] /\ ~OneShot(ts, h)
  <2>1. b \in BOOLEAN /\ us = [ts EXCEPT !.enabled[h] = b]  BY <1>1
  <2> HIDE DEF b, us
  <2> QED BY <1>0, <2>1 DEF TimerState, b
<1> HIDE DEF us, h
<1>4. \A x \in Timers : /\ us.enabled[x] => ts.enabled[x]
                        /\ x # h => us.enabled[x] = ts.enabled[x]
  BY <1>0, <1>3 DEF TimerState
<1>5. \A x \in Timers : SortKey(ts, x) <= SortKey(us, x) /\ SortKey(ts, x) \in Time
                        /\ SortKey(us, x) \in Time /\ us.expire[x] \in Time
  <2> TAKE x \in Timers
  <2>1. /\ ts.expire[x] \in Time /\ us.expire[x] = ts.expire[x]
        /\ SortKey(ts, x) \in Time /\ SortKey(us, x) \in Time
    BY <1>0, <1>3, SortKeyFacts
  <2> QED BY <1>4, <2>1, NeverAssumption DEF SortKey, Time
<1>6. Ordered(us)
  <2> SUFFICES ASSUME NEW i \in 1..Len(ts.list), NEW j \in 1..Len(ts.list), i < j
               PROVE  us.expire[ts.list[i]] <= SortKey(us, ts.list[j])
    BY <1>3 DEF Ordered
  <2>1. ts.expire[ts.list[i]] <= SortKey(ts, ts.list[j])  BY DEF WellFormed, Ordered
  <2>2. ts.list[i] \in Timers /\ ts.list[j] \in Timers  BY <1>0
  <2> QED BY <1>3, <1>5, <2>1, <2>2 DEF Time
<1>7. Distinct(us) /\ Queued(us) = Queued(ts)
  BY <1>3 DEF WellFormed, Distinct, Queued
<1> QED BY <1>3, <1>4, <1>6, <1>7 DEF WellFormed, us, h

\* execute_timers, after the callback.
LEMMA RetireKeeps ==
  ASSUME NEW ts, WellFormed(ts), NEW t \in Queued(ts)
  PROVE  /\ WellFormed(Retire(ts, t))
         /\ Queued(Retire(ts, t)) = IF t \in Anonymous THEN Queued(ts) \ {t} ELSE Queued(ts)
         /\ Retire(ts, t).enabled = ts.enabled
         /\ \A x \in Timers \ {t} : Retire(ts, t).expire[x] = ts.expire[x]
<1>0. ts \in TimerState /\ t \in Timers
  <2>1. ts \in TimerState /\ ts.list \in Seq(Timers)  BY DEF WellFormed, TimerState
  <2> QED BY <2>1, ElementOfSeq DEF Queued
<1>1. CASE t \in Anonymous
  <2>1. Distinct(ts) /\ OrderedBut(ts, t)  BY DEF WellFormed, Ordered, OrderedBut
  <2>2. Retire(ts, t) = Unlink(ts, t)  BY <1>1 DEF Retire
  <2> QED BY <1>0, <1>1, <2>1, <2>2, UnlinkKeeps
<1>2. CASE t \notin Anonymous
  <2>1. Retire(ts, t) = ScheduleNextPeriod(ts, t)  BY <1>2 DEF Retire
  <2>2. LET us == ScheduleNextPeriod(ts, t) IN
        /\ WellFormed(us) /\ Queued(us) = Queued(ts) /\ us.enabled = ts.enabled
        /\ us.expire = [ts.expire EXCEPT ![t] = Plus(ts.expire[t], ts.period[t])]
    BY NextPeriodKeeps
  <2>3. ts.expire \in [Timers -> Time]  BY <1>0 DEF TimerState
  <2> QED BY <1>2, <2>1, <2>2, <2>3
<1> QED BY <1>1, <1>2

\* The head of the list fires first: no enabled timer expires before it.
LEMMA HeadIsNext ==
  ASSUME NEW ts, WellFormed(ts), NEW t \in Queued(ts), ts.enabled[t]
  PROVE  ts.expire[Head(ts.list)] <= ts.expire[t]
<1>0. /\ ts \in TimerState /\ ts.list \in Seq(Timers) /\ t \in Timers
      /\ ts.expire[t] \in Time
  <2>1. ts \in TimerState /\ ts.list \in Seq(Timers)  BY DEF WellFormed, TimerState
  <2>2. t \in Timers  BY <2>1, ElementOfSeq DEF Queued
  <2> QED BY <2>1, <2>2, SortKeyFacts
<1>1. PICK j \in 1..Len(ts.list) : ts.list[j] = t  BY DEF Queued
<1>2. Len(ts.list) \in Nat /\ Head(ts.list) = ts.list[1]
  BY <1>0, <1>1, LenProperties
<1>3. CASE j = 1
  BY <1>0, <1>1, <1>2, <1>3, NeverAssumption DEF Time
<1>4. CASE j # 1
  <2>1. 1 \in 1..Len(ts.list) /\ 1 < j  BY <1>1, <1>2, <1>4
  <2>2. ts.expire[ts.list[1]] <= SortKey(ts, ts.list[j])
    BY <2>1 DEF WellFormed, Ordered
  <2> QED BY <1>1, <1>2, <2>2 DEF SortKey
<1> QED BY <1>3, <1>4

=============================================================================
