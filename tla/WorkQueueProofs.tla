---------------------------- MODULE WorkQueueProofs ----------------------------
(***************************************************************************)
(* The work queue loses no wake-up and keeps its promise, WorkItems,       *)
(* whatever the number of its threads and of its items; with the lemmas on *)
(* sequences that its items need.                                          *)
(***************************************************************************)
EXTENDS WorkQueueProperties, SequenceTheorems, FiniteSetTheorems, TLAPS

-----------------------------------------------------------------------------
(* The elements of sequences, and sequences without repetition.            *)

LEMMA EmptyFacts == ToSet(<<>>) = {} /\ IsInjective(<<>>)
BY DEF ToSet, IsInjective

LEMMA ToSetFacts ==
  ASSUME NEW S, NEW s \in Seq(S)
  PROVE  /\ ToSet(s) = {s[n] : n \in 1..Len(s)} /\ ToSet(s) \subseteq S
         /\ IsInjective(s) <=> \A m, n \in 1..Len(s) : s[m] = s[n] => m = n
BY LenProperties DEF ToSet, IsInjective

\* The head of a sequence is taken off.
LEMMA TakeFacts ==
  ASSUME NEW S, NEW s \in Seq(S), s # <<>>
  PROVE  /\ Head(s) \in S /\ Tail(s) \in Seq(S) /\ Len(Tail(s)) = Len(s) - 1
         /\ ToSet(s) = ToSet(Tail(s)) \cup {Head(s)}
         /\ IsInjective(s) => IsInjective(Tail(s)) /\ Head(s) \notin ToSet(Tail(s))
<1> DEFINE t == Tail(s)
           h == Head(s)
<1>1. /\ h \in S /\ t \in Seq(S) /\ Len(t) = Len(s) - 1
      /\ \A n \in 1..Len(t) : t[n] = s[n + 1]
  BY HeadTailProperties
<1>2. h = s[1] /\ Len(s) \in Nat \ {0}
  BY EmptySeq, LenProperties
<1> HIDE DEF t, h
<1>3. /\ ToSet(s) = {s[n] : n \in 1..Len(s)} /\ ToSet(t) = {t[n] : n \in 1..Len(t)}
      /\ IsInjective(s) <=> \A m, n \in 1..Len(s) : s[m] = s[n] => m = n
      /\ IsInjective(t) <=> \A m, n \in 1..Len(t) : t[m] = t[n] => m = n
  BY <1>1, ToSetFacts
<1>4. ToSet(s) = ToSet(t) \cup {h}
  <2>1. ASSUME NEW n \in 1..Len(s) PROVE s[n] \in ToSet(t) \cup {h}
    <3>1. CASE n = 1  BY <3>1, <1>2
    <3>2. CASE n # 1
      <4>1. n - 1 \in 1..Len(t) /\ (n - 1) + 1 = n  BY <3>2, <1>1, <1>2
      <4>2. t[n - 1] = s[n]  BY <4>1, <1>1
      <4> QED BY <4>1, <4>2, <1>3
    <3> QED BY <3>1, <3>2
  <2>2. ASSUME NEW n \in 1..Len(t) PROVE t[n] \in ToSet(s)
    <3>1. n + 1 \in 1..Len(s)  BY <1>1, <1>2
    <3> QED BY <3>1, <1>1, <1>3
  <2>3. h \in ToSet(s)  BY <1>2, <1>3
  <2> QED BY <2>1, <2>2, <2>3, <1>3
<1>5. ASSUME IsInjective(s) PROVE IsInjective(t) /\ h \notin ToSet(t)
  <2>1. ASSUME NEW m \in 1..Len(t), NEW n \in 1..Len(t), t[m] = t[n] PROVE m = n
    <3>1. m + 1 \in 1..Len(s) /\ n + 1 \in 1..Len(s)  BY <1>1, <1>2
    <3>2. s[m + 1] = s[n + 1]  BY <2>1, <1>1
    <3>3. m + 1 = n + 1  BY <3>1, <3>2, <1>3, <1>5
    <3> QED BY <3>3
  <2>2. ASSUME NEW n \in 1..Len(t), t[n] = h PROVE FALSE
    <3>1. n + 1 \in 1..Len(s) /\ 1 \in 1..Len(s) /\ n + 1 # 1  BY <1>1, <1>2
    <3>2. s[n + 1] = s[1]  BY <2>2, <1>1, <1>2
    <3> QED BY <3>1, <3>2, <1>3, <1>5
  <2> QED BY <2>1, <2>2, <1>3
<1> QED BY <1>1, <1>4, <1>5 DEF t, h

\* Two sequences are linked.
LEMMA LinkFacts ==
  ASSUME NEW S, NEW s \in Seq(S), NEW t \in Seq(S)
  PROVE  /\ s \o t \in Seq(S) /\ Len(s \o t) = Len(s) + Len(t)
         /\ ToSet(s \o t) = ToSet(s) \cup ToSet(t)
         /\ IsInjective(s) /\ IsInjective(t) /\ ToSet(s) \cap ToSet(t) = {}
              => IsInjective(s \o t)
<1> DEFINE u == s \o t
<1>1. /\ u \in Seq(S) /\ Len(u) = Len(s) + Len(t)
      /\ \A n \in 1..(Len(s) + Len(t)) : u[n] = IF n <= Len(s) THEN s[n] ELSE t[n - Len(s)]
  BY ConcatProperties
<1>2. Len(s) \in Nat /\ Len(t) \in Nat
  BY LenProperties
<1> HIDE DEF u
<1>s. /\ ToSet(s) = {s[n] : n \in 1..Len(s)}
      /\ IsInjective(s) <=> \A m, n \in 1..Len(s) : s[m] = s[n] => m = n
  BY ToSetFacts
<1>t. /\ ToSet(t) = {t[n] : n \in 1..Len(t)}
      /\ IsInjective(t) <=> \A m, n \in 1..Len(t) : t[m] = t[n] => m = n
  BY ToSetFacts
<1>u. /\ ToSet(u) = {u[n] : n \in 1..Len(u)}
      /\ IsInjective(u) <=> \A m, n \in 1..Len(u) : u[m] = u[n] => m = n
  BY <1>1, ToSetFacts
<1>4. ASSUME NEW n \in 1..Len(u)
      PROVE  \/ n \in 1..Len(s) /\ u[n] = s[n]
             \/ n > Len(s) /\ n - Len(s) \in 1..Len(t) /\ u[n] = t[n - Len(s)]
  BY <1>1, <1>2
<1>5. ASSUME NEW n \in 1..Len(s) PROVE n \in 1..Len(u) /\ u[n] = s[n]
  BY <1>1, <1>2
<1>6. ASSUME NEW n \in 1..Len(t) PROVE n + Len(s) \in 1..Len(u) /\ u[n + Len(s)] = t[n]
  <2>1. n + Len(s) \in 1..(Len(s) + Len(t)) /\ ~(n + Len(s) <= Len(s))
        /\ (n + Len(s)) - Len(s) = n
    BY <1>2
  <2>2. u[n + Len(s)] = t[(n + Len(s)) - Len(s)]  BY <2>1, <1>1
  <2> QED BY <2>1, <2>2, <1>1
<1>7. ToSet(u) = ToSet(s) \cup ToSet(t)
  <2>1. ToSet(u) \subseteq ToSet(s) \cup ToSet(t)
    <3>1. ASSUME NEW n \in 1..Len(u) PROVE u[n] \in ToSet(s) \cup ToSet(t)
      <4>1. CASE n \in 1..Len(s) /\ u[n] = s[n]  BY <4>1, <1>s
      <4>2. CASE n - Len(s) \in 1..Len(t) /\ u[n] = t[n - Len(s)]  BY <4>2, <1>t
      <4> QED BY <4>1, <4>2, <1>4
    <3> QED BY <3>1, <1>u
  <2>2. ToSet(s) \subseteq ToSet(u)  BY <1>s, <1>t, <1>u, <1>5
  <2>3. ToSet(t) \subseteq ToSet(u)
    <3>1. ASSUME NEW n \in 1..Len(t) PROVE t[n] \in ToSet(u)  BY <1>6, <1>u
    <3> QED BY <3>1, <1>t
  <2> QED BY <2>1, <2>2, <2>3
<1>8. ASSUME IsInjective(s), IsInjective(t), ToSet(s) \cap ToSet(t) = {}
      PROVE  IsInjective(u)
  <2>1. ASSUME NEW m \in 1..Len(u), NEW n \in 1..Len(u), u[m] = u[n] PROVE m = n
    <3>1. CASE m <= Len(s) /\ n <= Len(s)
      <4>1. m \in 1..Len(s) /\ n \in 1..Len(s) /\ s[m] = s[n]  BY <3>1, <2>1, <1>2, <1>4
      <4> QED BY <4>1, <1>s, <1>t, <1>u, <1>8
    <3>2. CASE m > Len(s) /\ n > Len(s)
      <4>1. /\ m - Len(s) \in 1..Len(t) /\ n - Len(s) \in 1..Len(t)
            /\ t[m - Len(s)] = t[n - Len(s)]
        BY <3>2, <2>1, <1>2, <1>4
      <4>2. m - Len(s) = n - Len(s)  BY <4>1, <1>s, <1>t, <1>u, <1>8
      <4> QED BY <4>2, <1>2
    <3>3. CASE m <= Len(s) /\ n > Len(s)
      <4>1. m \in 1..Len(s) /\ u[m] = s[m]  BY <3>3, <1>2, <1>4
      <4>2. n - Len(s) \in 1..Len(t) /\ u[n] = t[n - Len(s)]  BY <3>3, <1>2, <1>4
      <4>3. u[m] \in ToSet(s) /\ u[n] \in ToSet(t)  BY <4>1, <4>2, <1>s, <1>t
      <4> QED BY <4>3, <2>1, <1>8
    <3>4. CASE m > Len(s) /\ n <= Len(s)
      <4>1. n \in 1..Len(s) /\ u[n] = s[n]  BY <3>4, <1>2, <1>4
      <4>2. m - Len(s) \in 1..Len(t) /\ u[m] = t[m - Len(s)]  BY <3>4, <1>2, <1>4
      <4>3. u[n] \in ToSet(s) /\ u[m] \in ToSet(t)  BY <4>1, <4>2, <1>s, <1>t
      <4> QED BY <4>3, <2>1, <1>8
    <3>5. (m <= Len(s) \/ m > Len(s)) /\ (n <= Len(s) \/ n > Len(s))
      BY <1>1, <1>2
    <3> QED BY <3>1, <3>2, <3>3, <3>4, <3>5
  <2> QED BY <2>1, <1>s, <1>t, <1>u
<1> QED BY <1>1, <1>7, <1>8 DEF u

\* One element is put before a sequence, or behind it.
LEMMA PushFacts ==
  ASSUME NEW S, NEW s \in Seq(S), NEW e \in S
  PROVE  /\ <<e>> \o s \in Seq(S) /\ ToSet(<<e>> \o s) = ToSet(s) \cup {e}
         /\ IsInjective(s) /\ e \notin ToSet(s) => IsInjective(<<e>> \o s)
         /\ Append(s, e) \in Seq(S) /\ ToSet(Append(s, e)) = ToSet(s) \cup {e}
         /\ IsInjective(s) /\ e \notin ToSet(s) => IsInjective(Append(s, e))
         /\ Len(Append(s, e)) = Len(s) + 1
<1> DEFINE o == <<e>>
<1>1. o \in Seq(S) /\ Len(o) = 1 /\ o[1] = e /\ DOMAIN o = 1..1
  OBVIOUS
<1>2. ToSet(o) = {e} /\ IsInjective(o)
  BY <1>1 DEF ToSet, IsInjective
<1>3. Append(s, e) = s \o o
  BY AppendIsConcat
<1> HIDE DEF o
<1>4. /\ o \o s \in Seq(S) /\ ToSet(o \o s) = ToSet(o) \cup ToSet(s)
      /\ IsInjective(o) /\ IsInjective(s) /\ ToSet(o) \cap ToSet(s) = {} => IsInjective(o \o s)
  BY <1>1, LinkFacts
<1>5. /\ s \o o \in Seq(S) /\ Len(s \o o) = Len(s) + Len(o)
      /\ ToSet(s \o o) = ToSet(s) \cup ToSet(o)
      /\ IsInjective(s) /\ IsInjective(o) /\ ToSet(s) \cap ToSet(o) = {} => IsInjective(s \o o)
  BY <1>1, LinkFacts
<1>6. /\ o \o s \in Seq(S) /\ ToSet(o \o s) = ToSet(s) \cup {e}
      /\ IsInjective(s) /\ e \notin ToSet(s) => IsInjective(o \o s)
  BY <1>2, <1>4
<1>7. /\ s \o o \in Seq(S) /\ ToSet(s \o o) = ToSet(s) \cup {e}
      /\ IsInjective(s) /\ e \notin ToSet(s) => IsInjective(s \o o)
      /\ Len(s \o o) = Len(s) + 1
  BY <1>1, <1>2, <1>5
<1> QED BY <1>3, <1>6, <1>7 DEF o

-----------------------------------------------------------------------------
(* The inductive invariant. *)

ProcessLabels == {"take", "run", "mark", "settle", "drained", "announce"}
WorkerLabels  == ProcessLabels \cup {"top", "check", "sleep", "go", "enter", "more", "leave",
                                     "discount", "gone"}
CollectLabels == {"prime", "ready", "iblock", "verdict", "push"}
ExitLabels    == {"wakeall", "join", "freed"}
CountedLabels == ProcessLabels \cup {"more", "leave", "discount"}
ActiveLabels  == ProcessLabels \cup {"enter", "more", "leave"}

\* Which thread can be where, and what it has in hand.
Control ==
  /\ \A w \in Workers : pc[w] \in WorkerLabels
  /\ Collector # Producer => pc[Collector] \in CollectLabels \cup {"idle"}
  /\ pc[Producer] \in Labels \ (WorkerLabels \ ProcessLabels)
  /\ (exiting <=> pc[Producer] \in ExitLabels)
  /\ exiting => pc[Collector] \notin CollectLabels
  /\ pc[Producer] \in {"alloc", "count", "look", "notify"} => left # 0
  /\ \A a \in Agents : pc[a] \in {"run", "mark", "settle"} => at[a] \in Items
  /\ pc[Collector] \in CollectLabels => at[Collector] \in Items
  /\ pc[Producer] # "alloc" => batch = <<>>
  /\ pc[Producer] = "alloc" /\ batch # <<>> => last \in Items
  /\ pc[Producer] \in {"count", "look", "notify", "return"} => last \in Items
  /\ Threads = 0 /\ pc[Producer] \in ProcessLabels => last \in Items

Shape == TypeOK /\ Control

LEMMA Roles ==
  /\ Producer \in Agents /\ Producer \notin Workers
  /\ Collector \in Agents /\ Collector \notin Workers
  /\ Workers \subseteq Agents /\ NoItem \notin Items
  /\ \A a \in Agents : a \in Workers \/ a = Producer \/ a = Collector
BY WorkQueueAssumption DEF Agents, Clients

LEMMA ShapeInit == Init => Shape
<1> SUFFICES ASSUME Init PROVE Shape
  OBVIOUS
<1>1. <<>> \in Seq(Items)
  OBVIOUS
<1>2. TypeOK
  <2>1. /\ pc \in [Agents -> Labels] /\ at \in [Agents -> Items \cup {NoItem}]
        /\ active \in [Workers -> BOOLEAN] /\ wake \in [Workers -> BOOLEAN]
        /\ done \in [Items -> BOOLEAN] /\ event \in [Items -> {"none", "reset", "set"}]
    BY DEF Init, Labels
  <2>2. /\ answer \in [Clients -> {"none", "empty", "busy", "done", "pending"}]
        /\ gaveUp \in [Clients -> BOOLEAN]
    BY DEF Init
  <2>3. budget \in Nat
    BY WorkQueueAssumption DEF Init
  <2>4. list \in Seq(Items) /\ free \in Seq(Items) /\ batch \in Seq(Items)
    BY <1>1 DEF Init
  <2>5. fresh \subseteq Items /\ held \subseteq Items /\ last \in Items \cup {NoItem}
    BY DEF Init
  <2>6. items \in Int /\ live \in Int /\ left \in Nat /\ scan \in Nat \ {0}
    BY DEF Init
  <2>7. /\ waiting \in BOOLEAN /\ exiting \in BOOLEAN
        /\ doneevent \in BOOLEAN /\ releasing \in BOOLEAN
    BY DEF Init
  <2> QED BY <2>1, <2>2, <2>3, <2>4, <2>5, <2>6, <2>7 DEF TypeOK
<1>3. /\ \A w \in Workers : pc[w] = "top"
      /\ \A a \in Agents : pc[a] \in {"top", "idle"}
      /\ pc[Producer] = "idle" /\ pc[Collector] = "idle" /\ exiting = FALSE /\ batch = <<>>
  BY Roles DEF Init
<1>4. Control
  <2>1. /\ pc[Producer] \notin ExitLabels /\ pc[Collector] \notin CollectLabels
        /\ pc[Producer] \in Labels \ (WorkerLabels \ ProcessLabels)
        /\ pc[Producer] \notin ProcessLabels
    BY <1>3 DEF Labels, WorkerLabels, ProcessLabels, CollectLabels, ExitLabels
  <2>2. \A a \in Agents : pc[a] \notin {"run", "mark", "settle"}
    BY <1>3
  <2>3. pc[Producer] \notin {"alloc", "count", "look", "notify", "return"}
    BY <1>3
  <2>4. \A w \in Workers : pc[w] \in WorkerLabels
    BY <1>3 DEF WorkerLabels
  <2> QED BY <1>3, <2>1, <2>2, <2>3, <2>4 DEF Control
<1> QED BY <1>2, <1>4 DEF Shape

LEMMA ShapeStep == ASSUME Shape, [Next]_vars PROVE Shape'
<1>1. CASE AllocItem
  <2>1. TypeOK'
    <3>1. PICK i \in Items :
            /\ \/ /\ free # <<>> /\ i = Head(free) /\ free' = Tail(free)
                  /\ fresh' = fresh /\ event' = event
               \/ /\ free = <<>> /\ i \in fresh /\ fresh' = fresh \ {i}
                  /\ event' = [event EXCEPT ![i] = "none"] /\ free' = free
            /\ done' = [done EXCEPT ![i] = FALSE]
            /\ batch' = Append(batch, i) /\ last' = i
      BY <1>1 DEF AllocItem
    <3>2. free' \in Seq(Items) /\ batch' \in Seq(Items)
      <4>1. free \in Seq(Items) /\ batch \in Seq(Items) /\ i \in Items
        BY Shape DEF Shape, TypeOK
      <4>2. free # <<>> => Tail(free) \in Seq(Items)
        BY <4>1, TakeFacts
      <4>3. batch' \in Seq(Items)
        BY <3>1, <4>1, PushFacts
      <4> QED BY <3>1, <4>1, <4>2, <4>3
    <3>3. fresh' \in SUBSET Items /\ event' \in [Items -> {"none", "reset", "set"}]
          /\ done' \in [Items -> BOOLEAN] /\ last' \in Items
      BY <3>1, Shape DEF Shape, TypeOK
    <3> QED BY <1>1, <3>2, <3>3, Shape, Roles
        DEF Shape, TypeOK, Labels, Goto, AllocItem, listVars, flagVars, threadVars, itemVars, callVars, replyVars
  <2>2. Control'
    BY <1>1, Shape, Roles, WorkQueueAssumption
    DEF Shape, TypeOK, Control, Labels, WorkerLabels, ProcessLabels, CollectLabels, ExitLabels,
        Goto, AllocItem, listVars, flagVars, threadVars, itemVars, callVars, replyVars, vars
  <2> QED BY <2>1, <2>2 DEF Shape
<1>2. CASE LinkBatch
  <2>1. TypeOK'
    BY <1>2, Shape, Roles, WorkQueueAssumption, EmptyFacts
    DEF Shape, TypeOK, Control, Labels, WorkerLabels, ProcessLabels, CollectLabels, ExitLabels,
        Goto, LinkBatch, listVars, flagVars, threadVars, itemVars, callVars, replyVars, vars
  <2>2. Control'
    BY <1>2, Shape, Roles, WorkQueueAssumption
    DEF Shape, TypeOK, Control, Labels, WorkerLabels, ProcessLabels, CollectLabels, ExitLabels,
        Goto, LinkBatch, listVars, flagVars, threadVars, itemVars, callVars, replyVars, vars
  <2> QED BY <2>1, <2>2 DEF Shape
<1>3. CASE CountBatch
  <2>1. TypeOK'
    BY <1>3, Shape, Roles, WorkQueueAssumption, EmptyFacts
    DEF Shape, TypeOK, Control, Labels, WorkerLabels, ProcessLabels, CollectLabels, ExitLabels,
        Goto, CountBatch, listVars, flagVars, threadVars, itemVars, callVars, replyVars, vars
  <2>2. Control'
    BY <1>3, Shape, Roles, WorkQueueAssumption
    DEF Shape, TypeOK, Control, Labels, WorkerLabels, ProcessLabels, CollectLabels, ExitLabels,
        Goto, CountBatch, listVars, flagVars, threadVars, itemVars, callVars, replyVars, vars
  <2> QED BY <2>1, <2>2 DEF Shape
<1>4. CASE LookForThreads
  <2>1. TypeOK'
    BY <1>4, Shape, Roles, WorkQueueAssumption, EmptyFacts
    DEF Shape, TypeOK, Control, Labels, WorkerLabels, ProcessLabels, CollectLabels, ExitLabels,
        Goto, LookForThreads, listVars, flagVars, threadVars, itemVars, callVars, replyVars, vars
  <2>2. Control'
    BY <1>4, Shape, Roles, WorkQueueAssumption
    DEF Shape, TypeOK, Control, Labels, WorkerLabels, ProcessLabels, CollectLabels, ExitLabels,
        Goto, LookForThreads, listVars, flagVars, threadVars, itemVars, callVars, replyVars, vars
  <2> QED BY <2>1, <2>2 DEF Shape
<1>5. CASE WakeThread
  <2>1. TypeOK'
    <3>1. left - 1 \in Nat /\ scan + 1 \in Nat \ {0} /\ scan \in Workers
      BY <1>5, Shape DEF Shape, TypeOK, Control, WakeThread, Goto, Workers
    <3>2. left' \in Nat /\ scan' \in Nat \ {0} /\ wake' \in [Workers -> BOOLEAN]
      BY <1>5, <3>1, Shape DEF Shape, TypeOK, WakeThread
    <3> QED BY <1>5, <3>1, <3>2, Shape, Roles
        DEF Shape, TypeOK, Labels, Goto, WakeThread, listVars, flagVars, threadVars, itemVars, callVars, replyVars
  <2>2. Control'
    BY <1>5, Shape, Roles, WorkQueueAssumption
    DEF Shape, TypeOK, Control, Labels, WorkerLabels, ProcessLabels, CollectLabels, ExitLabels,
        Goto, WakeThread, listVars, flagVars, threadVars, itemVars, callVars, replyVars, vars
  <2> QED BY <2>1, <2>2 DEF Shape
<1>6. CASE QueueReturn
  <2>1. TypeOK'
    BY <1>6, Shape, Roles, WorkQueueAssumption, EmptyFacts
    DEF Shape, TypeOK, Control, Labels, WorkerLabels, ProcessLabels, CollectLabels, ExitLabels,
        Goto, QueueReturn, listVars, flagVars, threadVars, itemVars, callVars, replyVars, vars
  <2>2. Control'
    BY <1>6, Shape, Roles, WorkQueueAssumption
    DEF Shape, TypeOK, Control, Labels, WorkerLabels, ProcessLabels, CollectLabels, ExitLabels,
        Goto, QueueReturn, listVars, flagVars, threadVars, itemVars, callVars, replyVars, vars
  <2> QED BY <2>1, <2>2 DEF Shape
<1>7. CASE WaitQueue
  <2>1. TypeOK'
    BY <1>7, Shape, Roles, WorkQueueAssumption, EmptyFacts
    DEF Shape, TypeOK, Control, Labels, WorkerLabels, ProcessLabels, CollectLabels, ExitLabels,
        Goto, WaitQueue, WaitUnchanged, listVars, flagVars, threadVars, itemVars, callVars, replyVars, vars
  <2>2. Control'
    BY <1>7, Shape, Roles, WorkQueueAssumption
    DEF Shape, TypeOK, Control, Labels, WorkerLabels, ProcessLabels, CollectLabels, ExitLabels,
        Goto, WaitQueue, WaitUnchanged, listVars, flagVars, threadVars, itemVars, callVars, replyVars, vars
  <2> QED BY <2>1, <2>2 DEF Shape
<1>8. CASE Helped
  <2>1. TypeOK'
    BY <1>8, Shape, Roles, WorkQueueAssumption, EmptyFacts
    DEF Shape, TypeOK, Control, Labels, WorkerLabels, ProcessLabels, CollectLabels, ExitLabels,
        Goto, Helped, WaitUnchanged, listVars, flagVars, threadVars, itemVars, callVars, replyVars, vars
  <2>2. Control'
    BY <1>8, Shape, Roles, WorkQueueAssumption
    DEF Shape, TypeOK, Control, Labels, WorkerLabels, ProcessLabels, CollectLabels, ExitLabels,
        Goto, Helped, WaitUnchanged, listVars, flagVars, threadVars, itemVars, callVars, replyVars, vars
  <2> QED BY <2>1, <2>2 DEF Shape
<1>9. CASE SpinForItems
  <2>1. TypeOK'
    <3>1. gaveUp' = gaveUp \/ gaveUp' = [gaveUp EXCEPT ![Producer] = TRUE]
      BY <1>9 DEF SpinForItems
    <3>2. gaveUp' \in [Clients -> BOOLEAN]
      BY <3>1, Shape DEF Shape, TypeOK
    <3> QED BY <1>9, <3>2, Shape, Roles
        DEF Shape, TypeOK, Labels, Goto, SpinForItems, WaitUnchanged, listVars, flagVars, threadVars, itemVars, callVars, replyVars
  <2>2. Control'
    BY <1>9, Shape, Roles, WorkQueueAssumption
    DEF Shape, TypeOK, Control, Labels, WorkerLabels, ProcessLabels, CollectLabels, ExitLabels,
        Goto, SpinForItems, WaitUnchanged, listVars, flagVars, threadVars, itemVars, callVars, replyVars, vars
  <2> QED BY <2>1, <2>2 DEF Shape
<1>10. CASE ResetDone
  <2>1. TypeOK'
    BY <1>10, Shape, Roles, WorkQueueAssumption, EmptyFacts
    DEF Shape, TypeOK, Control, Labels, WorkerLabels, ProcessLabels, CollectLabels, ExitLabels,
        Goto, ResetDone, WaitUnchanged, listVars, flagVars, threadVars, itemVars, callVars, replyVars, vars
  <2>2. Control'
    BY <1>10, Shape, Roles, WorkQueueAssumption
    DEF Shape, TypeOK, Control, Labels, WorkerLabels, ProcessLabels, CollectLabels, ExitLabels,
        Goto, ResetDone, WaitUnchanged, listVars, flagVars, threadVars, itemVars, callVars, replyVars, vars
  <2> QED BY <2>1, <2>2 DEF Shape
<1>11. CASE SetWaiting
  <2>1. TypeOK'
    BY <1>11, Shape, Roles, WorkQueueAssumption, EmptyFacts
    DEF Shape, TypeOK, Control, Labels, WorkerLabels, ProcessLabels, CollectLabels, ExitLabels,
        Goto, SetWaiting, WaitUnchanged, listVars, flagVars, threadVars, itemVars, callVars, replyVars, vars
  <2>2. Control'
    BY <1>11, Shape, Roles, WorkQueueAssumption
    DEF Shape, TypeOK, Control, Labels, WorkerLabels, ProcessLabels, CollectLabels, ExitLabels,
        Goto, SetWaiting, WaitUnchanged, listVars, flagVars, threadVars, itemVars, callVars, replyVars, vars
  <2> QED BY <2>1, <2>2 DEF Shape
<1>12. CASE RecheckItems
  <2>1. TypeOK'
    BY <1>12, Shape, Roles, WorkQueueAssumption, EmptyFacts
    DEF Shape, TypeOK, Control, Labels, WorkerLabels, ProcessLabels, CollectLabels, ExitLabels,
        Goto, RecheckItems, WaitUnchanged, listVars, flagVars, threadVars, itemVars, callVars, replyVars, vars
  <2>2. Control'
    BY <1>12, Shape, Roles, WorkQueueAssumption
    DEF Shape, TypeOK, Control, Labels, WorkerLabels, ProcessLabels, CollectLabels, ExitLabels,
        Goto, RecheckItems, WaitUnchanged, listVars, flagVars, threadVars, itemVars, callVars, replyVars, vars
  <2> QED BY <2>1, <2>2 DEF Shape
<1>13. CASE BlockOnDone
  <2>1. TypeOK'
    <3>1. gaveUp' = gaveUp \/ gaveUp' = [gaveUp EXCEPT ![Producer] = TRUE]
      BY <1>13 DEF BlockOnDone
    <3>2. gaveUp' \in [Clients -> BOOLEAN]
      BY <3>1, Shape DEF Shape, TypeOK
    <3> QED BY <1>13, <3>2, Shape, Roles
        DEF Shape, TypeOK, Labels, Goto, BlockOnDone, WaitUnchanged, listVars, flagVars, threadVars, itemVars, callVars, replyVars
  <2>2. Control'
    BY <1>13, Shape, Roles, WorkQueueAssumption
    DEF Shape, TypeOK, Control, Labels, WorkerLabels, ProcessLabels, CollectLabels, ExitLabels,
        Goto, BlockOnDone, WaitUnchanged, listVars, flagVars, threadVars, itemVars, callVars, replyVars, vars
  <2> QED BY <2>1, <2>2 DEF Shape
<1>14. CASE ClearWaiting
  <2>1. TypeOK'
    BY <1>14, Shape, Roles, WorkQueueAssumption, EmptyFacts
    DEF Shape, TypeOK, Control, Labels, WorkerLabels, ProcessLabels, CollectLabels, ExitLabels,
        Goto, ClearWaiting, WaitUnchanged, listVars, flagVars, threadVars, itemVars, callVars, replyVars, vars
  <2>2. Control'
    BY <1>14, Shape, Roles, WorkQueueAssumption
    DEF Shape, TypeOK, Control, Labels, WorkerLabels, ProcessLabels, CollectLabels, ExitLabels,
        Goto, ClearWaiting, WaitUnchanged, listVars, flagVars, threadVars, itemVars, callVars, replyVars, vars
  <2> QED BY <2>1, <2>2 DEF Shape
<1>15. CASE WaitReply
  <2>1. TypeOK'
    BY <1>15, Shape, Roles, WorkQueueAssumption, EmptyFacts
    DEF Shape, TypeOK, Control, Labels, WorkerLabels, ProcessLabels, CollectLabels, ExitLabels,
        Goto, WaitReply, WaitUnchanged, listVars, flagVars, threadVars, itemVars, callVars, replyVars, vars
  <2>2. Control'
    BY <1>15, Shape, Roles, WorkQueueAssumption
    DEF Shape, TypeOK, Control, Labels, WorkerLabels, ProcessLabels, CollectLabels, ExitLabels,
        Goto, WaitReply, WaitUnchanged, listVars, flagVars, threadVars, itemVars, callVars, replyVars, vars
  <2> QED BY <2>1, <2>2 DEF Shape
<1>16. CASE PrimeEvent
  <2>1. TypeOK'
    BY <1>16, Shape, Roles, WorkQueueAssumption, EmptyFacts
    DEF Shape, TypeOK, Control, Labels, WorkerLabels, ProcessLabels, CollectLabels, ExitLabels,
        Goto, PrimeEvent, CollectUnchanged, listVars, flagVars, threadVars, itemVars, callVars, replyVars, vars
  <2>2. Control'
    BY <1>16, Shape, Roles, WorkQueueAssumption
    DEF Shape, TypeOK, Control, Labels, WorkerLabels, ProcessLabels, CollectLabels, ExitLabels,
        Goto, PrimeEvent, CollectUnchanged, listVars, flagVars, threadVars, itemVars, callVars, replyVars, vars
  <2> QED BY <2>1, <2>2 DEF Shape
<1>17. CASE CheckDone
  <2>1. TypeOK'
    BY <1>17, Shape, Roles, WorkQueueAssumption, EmptyFacts
    DEF Shape, TypeOK, Control, Labels, WorkerLabels, ProcessLabels, CollectLabels, ExitLabels,
        Goto, CheckDone, CollectUnchanged, listVars, flagVars, threadVars, itemVars, callVars, replyVars, vars
  <2>2. Control'
    BY <1>17, Shape, Roles, WorkQueueAssumption
    DEF Shape, TypeOK, Control, Labels, WorkerLabels, ProcessLabels, CollectLabels, ExitLabels,
        Goto, CheckDone, CollectUnchanged, listVars, flagVars, threadVars, itemVars, callVars, replyVars, vars
  <2> QED BY <2>1, <2>2 DEF Shape
<1>18. CASE BlockOnItem
  <2>1. TypeOK'
    <3>1. gaveUp' = gaveUp \/ gaveUp' = [gaveUp EXCEPT ![Collector] = TRUE]
      BY <1>18 DEF BlockOnItem
    <3>2. gaveUp' \in [Clients -> BOOLEAN]
      BY <3>1, Shape DEF Shape, TypeOK
    <3> QED BY <1>18, <3>2, Shape, Roles
        DEF Shape, TypeOK, Labels, Goto, BlockOnItem, CollectUnchanged, listVars, flagVars, threadVars, itemVars, callVars, replyVars
  <2>2. Control'
    BY <1>18, Shape, Roles, WorkQueueAssumption
    DEF Shape, TypeOK, Control, Labels, WorkerLabels, ProcessLabels, CollectLabels, ExitLabels,
        Goto, BlockOnItem, CollectUnchanged, listVars, flagVars, threadVars, itemVars, callVars, replyVars, vars
  <2> QED BY <2>1, <2>2 DEF Shape
<1>19. CASE ItemReply
  <2>1. TypeOK'
    BY <1>19, Shape, Roles, WorkQueueAssumption, EmptyFacts
    DEF Shape, TypeOK, Control, Labels, WorkerLabels, ProcessLabels, CollectLabels, ExitLabels,
        Goto, ItemReply, CollectUnchanged, listVars, flagVars, threadVars, itemVars, callVars, replyVars, vars
  <2>2. Control'
    BY <1>19, Shape, Roles, WorkQueueAssumption
    DEF Shape, TypeOK, Control, Labels, WorkerLabels, ProcessLabels, CollectLabels, ExitLabels,
        Goto, ItemReply, CollectUnchanged, listVars, flagVars, threadVars, itemVars, callVars, replyVars, vars
  <2> QED BY <2>1, <2>2 DEF Shape
<1>20. CASE PushFree
  <2>1. TypeOK'
    BY <1>20, Shape, Roles, WorkQueueAssumption, EmptyFacts
    DEF Shape, TypeOK, Control, Labels, WorkerLabels, ProcessLabels, CollectLabels, ExitLabels,
        Goto, PushFree, CollectUnchanged, listVars, flagVars, threadVars, itemVars, callVars, replyVars, vars
  <2>2. Control'
    BY <1>20, Shape, Roles, WorkQueueAssumption
    DEF Shape, TypeOK, Control, Labels, WorkerLabels, ProcessLabels, CollectLabels, ExitLabels,
        Goto, PushFree, CollectUnchanged, listVars, flagVars, threadVars, itemVars, callVars, replyVars, vars
  <2> QED BY <2>1, <2>2 DEF Shape
<1>21. CASE FreeQueue
  <2>1. TypeOK'
    BY <1>21, Shape, Roles, WorkQueueAssumption, EmptyFacts
    DEF Shape, TypeOK, Control, Labels, WorkerLabels, ProcessLabels, CollectLabels, ExitLabels,
        Goto, FreeQueue, FreeUnchanged, listVars, flagVars, threadVars, itemVars, callVars, replyVars, vars
  <2>2. Control'
    <3>1. Goto(Producer, "idle", "wakeall") /\ exiting' = TRUE /\ pc[Collector] = "idle"
          /\ at' = at /\ batch' = batch /\ left' = left /\ last' = last
      BY <1>21 DEF FreeQueue, FreeUnchanged
    <3>2. pc'[Producer] = "wakeall" /\ (Collector # Producer => pc'[Collector] = "idle")
      BY <3>1, Shape, Roles DEF Shape, TypeOK, Goto
    <3>3. \A a \in Agents : a # Producer => pc'[a] = pc[a]
      BY <3>1, Shape DEF Shape, TypeOK, Goto
    <3>4. pc'[Collector] \notin CollectLabels
      BY <3>2 DEF CollectLabels
    <3>5. (exiting' <=> pc'[Producer] \in ExitLabels)
      BY <3>1, <3>2 DEF ExitLabels
    <3>6. /\ pc'[Producer] \in Labels \ (WorkerLabels \ ProcessLabels)
          /\ pc'[Producer] \notin ProcessLabels
          /\ pc'[Producer] \notin {"alloc", "count", "look", "notify", "return"}
      BY <3>2 DEF Labels, WorkerLabels, ProcessLabels
    <3>7. batch' = <<>>
      BY <3>1, Shape DEF Shape, Control, Goto
    <3>8. \A a \in Agents : pc'[a] \in {"run", "mark", "settle"} => at'[a] \in Items
      BY <3>1, <3>2, <3>3, Shape DEF Shape, Control
    <3>9. \A w \in Workers : pc'[w] \in WorkerLabels
      BY <3>3, Shape, Roles DEF Shape, Control
    <3> QED BY <3>2, <3>4, <3>5, <3>6, <3>7, <3>8, <3>9 DEF Control, CollectLabels
  <2> QED BY <2>1, <2>2 DEF Shape
<1>22. CASE WakeToExit
  <2>1. TypeOK'
    <3>1. scan' \in Nat \ {0} /\ wake' \in [Workers -> BOOLEAN]
      <4>1. scan' = scan + 1 /\ (wake' = wake \/ wake' = [wake EXCEPT ![scan] = TRUE])
        BY <1>22 DEF WakeToExit
      <4>2. scan \in Nat \ {0} /\ wake \in [Workers -> BOOLEAN]
        BY Shape DEF Shape, TypeOK
      <4>3. scan' \in Nat \ {0}
        BY <4>1, <4>2
      <4>4. wake' \in [Workers -> BOOLEAN]
        BY <4>1, <4>2
      <4> QED BY <4>3, <4>4
    <3> QED BY <1>22, <3>1, Shape, Roles
        DEF Shape, TypeOK, Labels, Goto, WakeToExit, FreeUnchanged, listVars, flagVars, threadVars, itemVars, callVars, replyVars
  <2>2. Control'
    BY <1>22, Shape, Roles, WorkQueueAssumption
    DEF Shape, TypeOK, Control, Labels, WorkerLabels, ProcessLabels, CollectLabels, ExitLabels,
        Goto, WakeToExit, FreeUnchanged, listVars, flagVars, threadVars, itemVars, callVars, replyVars, vars
  <2> QED BY <2>1, <2>2 DEF Shape
<1>23. CASE JoinAndFree
  <2>1. TypeOK'
    <3>1. fresh' \in SUBSET Items
      BY <1>23, Shape, ToSetFacts DEF Shape, TypeOK, JoinAndFree
    <3> QED BY <1>23, <3>1, Shape, Roles
        DEF Shape, TypeOK, Labels, Goto, JoinAndFree, FreeUnchanged, listVars, flagVars, threadVars, itemVars, callVars, replyVars
  <2>2. Control'
    BY <1>23, Shape, Roles, WorkQueueAssumption
    DEF Shape, TypeOK, Control, Labels, WorkerLabels, ProcessLabels, CollectLabels, ExitLabels,
        Goto, JoinAndFree, FreeUnchanged, listVars, flagVars, threadVars, itemVars, callVars, replyVars, vars
  <2> QED BY <2>1, <2>2 DEF Shape
<1>24. ASSUME NEW n \in Batches, Queue(n) PROVE Shape'
  <2>1. TypeOK'
    <3>1. n \in Nat /\ budget - n \in Nat
      BY <1>24, Shape, WorkQueueAssumption DEF Shape, TypeOK, Queue
    <3> QED BY <1>24, <3>1, Shape, Roles
        DEF Shape, TypeOK, Labels, Goto, Queue, listVars, flagVars, threadVars, itemVars, callVars, replyVars
  <2>2. Control'
    <3>1. n # 0
      BY WorkQueueAssumption
    <3>2. batch' = batch /\ left' = n /\ pc'[Producer] = "alloc" /\ batch = <<>>
      BY <1>24, Shape, Roles DEF Shape, TypeOK, Control, Queue, Goto
    <3> QED BY <1>24, <3>1, <3>2, Shape, Roles
        DEF Shape, TypeOK, Control, Labels, WorkerLabels, ProcessLabels, CollectLabels, ExitLabels, Goto, Queue, threadVars, flagVars, replyVars
  <2> QED BY <2>1, <2>2 DEF Shape
<1>25. ASSUME NEW i \in Items, NEW release \in BOOLEAN, BeginCollect(i, release) PROVE Shape'
  <2>1. TypeOK'
    BY <1>25, Shape, Roles, WorkQueueAssumption, EmptyFacts
    DEF Shape, TypeOK, Control, Labels, WorkerLabels, ProcessLabels, CollectLabels, ExitLabels,
        Goto, BeginCollect, CollectUnchanged, listVars, flagVars, threadVars, itemVars, callVars, replyVars, vars
  <2>2. Control'
    BY <1>25, Shape, Roles, WorkQueueAssumption
    DEF Shape, TypeOK, Control, Labels, WorkerLabels, ProcessLabels, CollectLabels, ExitLabels,
        Goto, BeginCollect, CollectUnchanged, listVars, flagVars, threadVars, itemVars, callVars, replyVars, vars
  <2> QED BY <2>1, <2>2 DEF Shape
<1>26. ASSUME NEW w \in Workers, CheckExit(w) PROVE Shape'
  <2>1. TypeOK'
    BY <1>26, Shape, Roles, WorkQueueAssumption, EmptyFacts
    DEF Shape, TypeOK, Control, Labels, WorkerLabels, ProcessLabels, CollectLabels, ExitLabels,
        Goto, CheckExit, WorkerUnchanged, listVars, flagVars, threadVars, itemVars, callVars, replyVars, vars
  <2>2. Control'
    BY <1>26, Shape, Roles, WorkQueueAssumption
    DEF Shape, TypeOK, Control, Labels, WorkerLabels, ProcessLabels, CollectLabels, ExitLabels,
        Goto, CheckExit, WorkerUnchanged, listVars, flagVars, threadVars, itemVars, callVars, replyVars, vars
  <2> QED BY <2>1, <2>2 DEF Shape
<1>27. ASSUME NEW w \in Workers, CheckList(w) PROVE Shape'
  <2>1. TypeOK'
    BY <1>27, Shape, Roles, WorkQueueAssumption, EmptyFacts
    DEF Shape, TypeOK, Control, Labels, WorkerLabels, ProcessLabels, CollectLabels, ExitLabels,
        Goto, CheckList, WorkerUnchanged, listVars, flagVars, threadVars, itemVars, callVars, replyVars, vars
  <2>2. Control'
    BY <1>27, Shape, Roles, WorkQueueAssumption
    DEF Shape, TypeOK, Control, Labels, WorkerLabels, ProcessLabels, CollectLabels, ExitLabels,
        Goto, CheckList, WorkerUnchanged, listVars, flagVars, threadVars, itemVars, callVars, replyVars, vars
  <2> QED BY <2>1, <2>2 DEF Shape
<1>28. ASSUME NEW w \in Workers, WakeUp(w) PROVE Shape'
  <2>1. TypeOK'
    BY <1>28, Shape, Roles, WorkQueueAssumption, EmptyFacts
    DEF Shape, TypeOK, Control, Labels, WorkerLabels, ProcessLabels, CollectLabels, ExitLabels,
        Goto, WakeUp, WorkerUnchanged, listVars, flagVars, threadVars, itemVars, callVars, replyVars, vars
  <2>2. Control'
    BY <1>28, Shape, Roles, WorkQueueAssumption
    DEF Shape, TypeOK, Control, Labels, WorkerLabels, ProcessLabels, CollectLabels, ExitLabels,
        Goto, WakeUp, WorkerUnchanged, listVars, flagVars, threadVars, itemVars, callVars, replyVars, vars
  <2> QED BY <2>1, <2>2 DEF Shape
<1>29. ASSUME NEW w \in Workers, GoActive(w) PROVE Shape'
  <2>1. TypeOK'
    BY <1>29, Shape, Roles, WorkQueueAssumption, EmptyFacts
    DEF Shape, TypeOK, Control, Labels, WorkerLabels, ProcessLabels, CollectLabels, ExitLabels,
        Goto, GoActive, WorkerUnchanged, listVars, flagVars, threadVars, itemVars, callVars, replyVars, vars
  <2>2. Control'
    BY <1>29, Shape, Roles, WorkQueueAssumption
    DEF Shape, TypeOK, Control, Labels, WorkerLabels, ProcessLabels, CollectLabels, ExitLabels,
        Goto, GoActive, WorkerUnchanged, listVars, flagVars, threadVars, itemVars, callVars, replyVars, vars
  <2> QED BY <2>1, <2>2 DEF Shape
<1>30. ASSUME NEW w \in Workers, CountLive(w) PROVE Shape'
  <2>1. TypeOK'
    BY <1>30, Shape, Roles, WorkQueueAssumption, EmptyFacts
    DEF Shape, TypeOK, Control, Labels, WorkerLabels, ProcessLabels, CollectLabels, ExitLabels,
        Goto, CountLive, WorkerUnchanged, listVars, flagVars, threadVars, itemVars, callVars, replyVars, vars
  <2>2. Control'
    BY <1>30, Shape, Roles, WorkQueueAssumption
    DEF Shape, TypeOK, Control, Labels, WorkerLabels, ProcessLabels, CollectLabels, ExitLabels,
        Goto, CountLive, WorkerUnchanged, listVars, flagVars, threadVars, itemVars, callVars, replyVars, vars
  <2> QED BY <2>1, <2>2 DEF Shape
<1>31. ASSUME NEW w \in Workers, LookForMore(w) PROVE Shape'
  <2>1. TypeOK'
    BY <1>31, Shape, Roles, WorkQueueAssumption, EmptyFacts
    DEF Shape, TypeOK, Control, Labels, WorkerLabels, ProcessLabels, CollectLabels, ExitLabels,
        Goto, LookForMore, WorkerUnchanged, listVars, flagVars, threadVars, itemVars, callVars, replyVars, vars
  <2>2. Control'
    BY <1>31, Shape, Roles, WorkQueueAssumption
    DEF Shape, TypeOK, Control, Labels, WorkerLabels, ProcessLabels, CollectLabels, ExitLabels,
        Goto, LookForMore, WorkerUnchanged, listVars, flagVars, threadVars, itemVars, callVars, replyVars, vars
  <2> QED BY <2>1, <2>2 DEF Shape
<1>32. ASSUME NEW w \in Workers, GoInactive(w) PROVE Shape'
  <2>1. TypeOK'
    BY <1>32, Shape, Roles, WorkQueueAssumption, EmptyFacts
    DEF Shape, TypeOK, Control, Labels, WorkerLabels, ProcessLabels, CollectLabels, ExitLabels,
        Goto, GoInactive, WorkerUnchanged, listVars, flagVars, threadVars, itemVars, callVars, replyVars, vars
  <2>2. Control'
    BY <1>32, Shape, Roles, WorkQueueAssumption
    DEF Shape, TypeOK, Control, Labels, WorkerLabels, ProcessLabels, CollectLabels, ExitLabels,
        Goto, GoInactive, WorkerUnchanged, listVars, flagVars, threadVars, itemVars, callVars, replyVars, vars
  <2> QED BY <2>1, <2>2 DEF Shape
<1>33. ASSUME NEW w \in Workers, Discount(w) PROVE Shape'
  <2>1. TypeOK'
    BY <1>33, Shape, Roles, WorkQueueAssumption, EmptyFacts
    DEF Shape, TypeOK, Control, Labels, WorkerLabels, ProcessLabels, CollectLabels, ExitLabels,
        Goto, Discount, WorkerUnchanged, listVars, flagVars, threadVars, itemVars, callVars, replyVars, vars
  <2>2. Control'
    BY <1>33, Shape, Roles, WorkQueueAssumption
    DEF Shape, TypeOK, Control, Labels, WorkerLabels, ProcessLabels, CollectLabels, ExitLabels,
        Goto, Discount, WorkerUnchanged, listVars, flagVars, threadVars, itemVars, callVars, replyVars, vars
  <2> QED BY <2>1, <2>2 DEF Shape
<1>34. ASSUME NEW a \in Workers \cup {Producer}, TakeItem(a) PROVE Shape'
  <2>1. TypeOK'
    <3>0. list \in Seq(Items)
      BY Shape DEF Shape, TypeOK
    <3>1. list' \in Seq(Items) /\ at' \in [Agents -> Items \cup {NoItem}]
      <4>1. CASE list = <<>>
        BY <1>34, <4>1, Shape DEF Shape, TypeOK, TakeItem
      <4>2. CASE list # <<>>
        <5>1. Head(list) \in Items /\ Tail(list) \in Seq(Items)
          BY <3>0, <4>2, TakeFacts
        <5>2. at' = [at EXCEPT ![a] = Head(list)] /\ list' = Tail(list)
          BY <1>34, <4>2 DEF TakeItem
        <5> QED BY <5>1, <5>2, Shape DEF Shape, TypeOK
      <4> QED BY <4>1, <4>2
    <3> QED BY <1>34, <3>1, Shape, Roles
        DEF Shape, TypeOK, Labels, Goto, TakeItem, listVars, flagVars, threadVars, itemVars, callVars, replyVars
  <2>2. Control'
    <3>0. list \in Seq(Items)
      BY Shape DEF Shape, TypeOK
    <3>1. CASE list = <<>>
      <4>1. Goto(a, "take", "drained") /\ at' = at /\ UNCHANGED <<callVars, exiting>>
        BY <1>34, <3>1 DEF TakeItem, flagVars
      <4> QED BY <4>1, Shape, Roles
          DEF Shape, TypeOK, Control, Labels, WorkerLabels, ProcessLabels, CollectLabels,
              ExitLabels, Goto, callVars
    <3>2. CASE list # <<>>
      <4> DEFINE h == Head(list)
      <4>1. h \in Items
        BY <3>0, <3>2, TakeFacts
      <4>2. Goto(a, "take", "run") /\ at' = [at EXCEPT ![a] = h] /\ UNCHANGED <<callVars, exiting>>
        BY <1>34, <3>2 DEF TakeItem, flagVars
      <4> HIDE DEF h
      <4> QED BY <4>1, <4>2, Shape, Roles
          DEF Shape, TypeOK, Control, Labels, WorkerLabels, ProcessLabels, CollectLabels,
              ExitLabels, Goto, callVars
    <3> QED BY <3>1, <3>2
  <2> QED BY <2>1, <2>2 DEF Shape
<1>35. ASSUME NEW a \in Workers \cup {Producer}, FinishItem(a) PROVE Shape'
  <2>1. TypeOK'
    BY <1>35, Shape, Roles, WorkQueueAssumption, EmptyFacts
    DEF Shape, TypeOK, Control, Labels, WorkerLabels, ProcessLabels, CollectLabels, ExitLabels,
        Goto, FinishItem, listVars, flagVars, threadVars, itemVars, callVars, replyVars, vars
  <2>2. Control'
    BY <1>35, Shape, Roles, WorkQueueAssumption
    DEF Shape, TypeOK, Control, Labels, WorkerLabels, ProcessLabels, CollectLabels, ExitLabels,
        Goto, FinishItem, listVars, flagVars, threadVars, itemVars, callVars, replyVars, vars
  <2> QED BY <2>1, <2>2 DEF Shape
<1>36. ASSUME NEW a \in Workers \cup {Producer}, MarkDone(a) PROVE Shape'
  <2>1. TypeOK'
    BY <1>36, Shape, Roles, WorkQueueAssumption, EmptyFacts
    DEF Shape, TypeOK, Control, Labels, WorkerLabels, ProcessLabels, CollectLabels, ExitLabels,
        Goto, MarkDone, listVars, flagVars, threadVars, itemVars, callVars, replyVars, vars
  <2>2. Control'
    BY <1>36, Shape, Roles, WorkQueueAssumption
    DEF Shape, TypeOK, Control, Labels, WorkerLabels, ProcessLabels, CollectLabels, ExitLabels,
        Goto, MarkDone, listVars, flagVars, threadVars, itemVars, callVars, replyVars, vars
  <2> QED BY <2>1, <2>2 DEF Shape
<1>37. ASSUME NEW a \in Workers \cup {Producer}, SettleItem(a) PROVE Shape'
  <2>1. TypeOK'
    <3>1. at[a] \in Items
      BY <1>37, Shape, Roles DEF Shape, Control, SettleItem, Goto
    <3> DEFINE i == at[a]
    <3>a. i \in Items /\ free \in Seq(Items)
      BY <3>1, Shape DEF Shape, TypeOK
    <3>b. free' = free \/ free' = <<i>> \o free
      BY <1>37 DEF SettleItem
    <3> HIDE DEF i
    <3>c. <<i>> \o free \in Seq(Items)
      BY <3>a, PushFacts
    <3>2. free' \in Seq(Items)
      BY <3>a, <3>b, <3>c
    <3>3. event' \in [Items -> {"none", "reset", "set"}]
      BY <1>37, <3>1, Shape DEF Shape, TypeOK, SettleItem
    <3> QED BY <1>37, <3>2, <3>3, Shape, Roles
        DEF Shape, TypeOK, Labels, Goto, SettleItem, listVars, flagVars, threadVars, itemVars, callVars, replyVars
  <2>2. Control'
    BY <1>37, Shape, Roles, WorkQueueAssumption
    DEF Shape, TypeOK, Control, Labels, WorkerLabels, ProcessLabels, CollectLabels, ExitLabels,
        Goto, SettleItem, listVars, flagVars, threadVars, itemVars, callVars, replyVars, vars
  <2> QED BY <2>1, <2>2 DEF Shape
<1>38. ASSUME NEW a \in Workers \cup {Producer}, ReadWaiting(a) PROVE Shape'
  <2>1. TypeOK'
    BY <1>38, Shape, Roles, WorkQueueAssumption, EmptyFacts
    DEF Shape, TypeOK, Control, Labels, WorkerLabels, ProcessLabels, CollectLabels, ExitLabels,
        Goto, ReadWaiting, After, listVars, flagVars, threadVars, itemVars, callVars, replyVars, vars
  <2>2. Control'
    BY <1>38, Shape, Roles, WorkQueueAssumption
    DEF Shape, TypeOK, Control, Labels, WorkerLabels, ProcessLabels, CollectLabels, ExitLabels,
        Goto, ReadWaiting, After, listVars, flagVars, threadVars, itemVars, callVars, replyVars, vars
  <2> QED BY <2>1, <2>2 DEF Shape
<1>39. ASSUME NEW a \in Workers \cup {Producer}, Announce(a) PROVE Shape'
  <2>1. TypeOK'
    BY <1>39, Shape, Roles, WorkQueueAssumption, EmptyFacts
    DEF Shape, TypeOK, Control, Labels, WorkerLabels, ProcessLabels, CollectLabels, ExitLabels,
        Goto, Announce, After, listVars, flagVars, threadVars, itemVars, callVars, replyVars, vars
  <2>2. Control'
    BY <1>39, Shape, Roles, WorkQueueAssumption
    DEF Shape, TypeOK, Control, Labels, WorkerLabels, ProcessLabels, CollectLabels, ExitLabels,
        Goto, Announce, After, listVars, flagVars, threadVars, itemVars, callVars, replyVars, vars
  <2> QED BY <2>1, <2>2 DEF Shape
<1>40. CASE UNCHANGED vars
  <2>1. TypeOK'
    BY <1>40, Shape, Roles, WorkQueueAssumption, EmptyFacts
    DEF Shape, TypeOK, Control, Labels, WorkerLabels, ProcessLabels, CollectLabels, ExitLabels,
        Goto, vars, listVars, flagVars, threadVars, itemVars, callVars, replyVars, vars
  <2>2. Control'
    BY <1>40, Shape, Roles, WorkQueueAssumption
    DEF Shape, TypeOK, Control, Labels, WorkerLabels, ProcessLabels, CollectLabels, ExitLabels,
        Goto, vars, listVars, flagVars, threadVars, itemVars, callVars, replyVars, vars
  <2> QED BY <2>1, <2>2 DEF Shape
<1> QED BY <1>1, <1>2, <1>3, <1>4, <1>5, <1>6, <1>7, <1>8, <1>9, <1>10, <1>11, <1>12, <1>13, <1>14, <1>15, <1>16, <1>17, <1>18, <1>19, <1>20, <1>21, <1>22, <1>23, <1>24, <1>25, <1>26, <1>27, <1>28, <1>29, <1>30, <1>31, <1>32, <1>33, <1>34, <1>35, <1>36, <1>37, <1>38, <1>39, <1>40 DEF Next, Call, ProducerSteps, QueueSteps, WaitSteps, CollectSteps, Process, Worker, Freed

LEMMA ShapeAlways == Spec => []Shape
<1>1. Init => Shape  BY ShapeInit
<1>2. Shape /\ [Next]_vars => Shape'  BY ShapeStep
<1> QED BY <1>1, <1>2, PTL DEF Spec

\* The fields of work_osd.cpp have their types, and its threads are where they may be.
THEOREM TypeCorrect == Spec => []TypeOK
<1>1. Shape => TypeOK  BY DEF Shape
<1> QED BY <1>1, ShapeAlways, PTL

-----------------------------------------------------------------------------
(* Wake-ups.                                                               *)

\* Somebody is awake for the items listed, from the first thread visited on.
Awake(w) == pc[w] # "sleep" \/ wake[w]

Due ==
  /\ list # <<>> /\ ~exiting /\ Threads > 0 /\ pc[Producer] \notin {"count", "look"}
  /\ ~(pc[Producer] = "notify" /\ scan = 1)

Woken == Due => \E w \in Workers : Awake(w)

CountedWorkers == {w \in Workers : pc[w] \in CountedLabels}

\* The threads that osd_work_item_queue_multiple goes by are those that look at the list.
Lively ==
  /\ live = Cardinality(CountedWorkers)
  /\ \A w \in Workers : active[w] <=> pc[w] \in ActiveLabels
  /\ Woken

\* A step that leaves the threads counted, active and awake.
Calm ==
  /\ live' = live /\ active' = active
  /\ \A w \in Workers :
       /\ pc'[w] \in CountedLabels <=> pc[w] \in CountedLabels
       /\ pc'[w] \in ActiveLabels <=> pc[w] \in ActiveLabels
       /\ Awake(w) => Awake(w)'
  /\ Due' => Due

LEMMA CalmKeeps == ASSUME Lively, Calm PROVE Lively'
<1>1. CountedWorkers' = CountedWorkers
  BY DEF Calm, CountedWorkers
<1>2. Woken'
  BY DEF Calm, Lively, Woken
<1> QED BY <1>1, <1>2 DEF Calm, Lively

LEMMA WorkersFinite == IsFiniteSet(Workers) /\ Cardinality(Workers) = Threads
<1>1. IsFiniteSet(1..Threads) /\ Cardinality(1..Threads) = IF 1 > Threads THEN 0 ELSE Threads - 1 + 1
  BY FS_Interval, WorkQueueAssumption
<1> QED BY <1>1, WorkQueueAssumption DEF Workers

\* When as many threads are counted as there are, none sleeps.
LEMMA AllCounted ==
  ASSUME live = Cardinality(CountedWorkers), ~(live < Threads)
  PROVE  \A w \in Workers : pc[w] \in CountedLabels
<1>1. CountedWorkers \in SUBSET Workers
  BY DEF CountedWorkers
<1>2. /\ Cardinality(CountedWorkers) <= Threads /\ IsFiniteSet(CountedWorkers)
      /\ Cardinality(Workers) = Cardinality(CountedWorkers) => Workers = CountedWorkers
  BY <1>1, WorkersFinite, FS_Subset
<1>3. Cardinality(CountedWorkers) \in Nat
  BY <1>2, FS_CardinalityType
<1>4. Workers = CountedWorkers
  BY <1>2, <1>3, WorkersFinite, WorkQueueAssumption
<1> QED BY <1>4 DEF CountedWorkers

LEMMA CountedFinite == IsFiniteSet(CountedWorkers)
<1>1. CountedWorkers \in SUBSET Workers
  BY DEF CountedWorkers
<1> QED BY <1>1, WorkersFinite, FS_Subset

LEMMA LivelyInit == Init => Lively
<1> SUFFICES ASSUME Init PROVE Lively
  OBVIOUS
<1>1. \A w \in Workers : pc[w] = "top" /\ active[w] = FALSE
  BY Roles DEF Init
<1>2. CountedWorkers = {}
  BY <1>1 DEF CountedWorkers, CountedLabels, ProcessLabels
<1>3. live = Cardinality(CountedWorkers)
  BY <1>2, FS_EmptySet DEF Init
<1>4. Woken
  BY DEF Woken, Due, Init
<1> QED BY <1>1, <1>3, <1>4 DEF Lively, ActiveLabels, ProcessLabels

LEMMA LivelyStep == ASSUME Shape, Lively, [Next]_vars PROVE Lively'
<1>1. AllocItem => Calm
  BY Shape, Roles
     DEF Shape, TypeOK, Control, Calm, Awake, Due, WorkerLabels, ProcessLabels, CountedLabels,
         ActiveLabels, ExitLabels, Goto, AllocItem, listVars, flagVars, threadVars, itemVars, callVars, replyVars, vars
<1>2. LinkBatch => Calm
  BY Shape, Roles
     DEF Shape, TypeOK, Control, Calm, Awake, Due, WorkerLabels, ProcessLabels, CountedLabels,
         ActiveLabels, ExitLabels, Goto, LinkBatch, listVars, flagVars, threadVars, itemVars, callVars, replyVars, vars
<1>3. CountBatch => Calm
  BY Shape, Roles
     DEF Shape, TypeOK, Control, Calm, Awake, Due, WorkerLabels, ProcessLabels, CountedLabels,
         ActiveLabels, ExitLabels, Goto, CountBatch, listVars, flagVars, threadVars, itemVars, callVars, replyVars, vars
<1>4. QueueReturn => Calm
  BY Shape, Roles
     DEF Shape, TypeOK, Control, Calm, Awake, Due, WorkerLabels, ProcessLabels, CountedLabels,
         ActiveLabels, ExitLabels, Goto, QueueReturn, listVars, flagVars, threadVars, itemVars, callVars, replyVars, vars
<1>5. WaitQueue => Calm
  BY Shape, Roles
     DEF Shape, TypeOK, Control, Calm, Awake, Due, WorkerLabels, ProcessLabels, CountedLabels,
         ActiveLabels, ExitLabels, Goto, WaitQueue, WaitUnchanged, listVars, flagVars, threadVars, itemVars, callVars, replyVars, vars
<1>6. Helped => Calm
  BY Shape, Roles
     DEF Shape, TypeOK, Control, Calm, Awake, Due, WorkerLabels, ProcessLabels, CountedLabels,
         ActiveLabels, ExitLabels, Goto, Helped, WaitUnchanged, listVars, flagVars, threadVars, itemVars, callVars, replyVars, vars
<1>7. SpinForItems => Calm
  BY Shape, Roles
     DEF Shape, TypeOK, Control, Calm, Awake, Due, WorkerLabels, ProcessLabels, CountedLabels,
         ActiveLabels, ExitLabels, Goto, SpinForItems, WaitUnchanged, listVars, flagVars, threadVars, itemVars, callVars, replyVars, vars
<1>8. ResetDone => Calm
  BY Shape, Roles
     DEF Shape, TypeOK, Control, Calm, Awake, Due, WorkerLabels, ProcessLabels, CountedLabels,
         ActiveLabels, ExitLabels, Goto, ResetDone, WaitUnchanged, listVars, flagVars, threadVars, itemVars, callVars, replyVars, vars
<1>9. SetWaiting => Calm
  BY Shape, Roles
     DEF Shape, TypeOK, Control, Calm, Awake, Due, WorkerLabels, ProcessLabels, CountedLabels,
         ActiveLabels, ExitLabels, Goto, SetWaiting, WaitUnchanged, listVars, flagVars, threadVars, itemVars, callVars, replyVars, vars
<1>10. RecheckItems => Calm
  BY Shape, Roles
     DEF Shape, TypeOK, Control, Calm, Awake, Due, WorkerLabels, ProcessLabels, CountedLabels,
         ActiveLabels, ExitLabels, Goto, RecheckItems, WaitUnchanged, listVars, flagVars, threadVars, itemVars, callVars, replyVars, vars
<1>11. BlockOnDone => Calm
  BY Shape, Roles
     DEF Shape, TypeOK, Control, Calm, Awake, Due, WorkerLabels, ProcessLabels, CountedLabels,
         ActiveLabels, ExitLabels, Goto, BlockOnDone, WaitUnchanged, listVars, flagVars, threadVars, itemVars, callVars, replyVars, vars
<1>12. ClearWaiting => Calm
  BY Shape, Roles
     DEF Shape, TypeOK, Control, Calm, Awake, Due, WorkerLabels, ProcessLabels, CountedLabels,
         ActiveLabels, ExitLabels, Goto, ClearWaiting, WaitUnchanged, listVars, flagVars, threadVars, itemVars, callVars, replyVars, vars
<1>13. WaitReply => Calm
  BY Shape, Roles
     DEF Shape, TypeOK, Control, Calm, Awake, Due, WorkerLabels, ProcessLabels, CountedLabels,
         ActiveLabels, ExitLabels, Goto, WaitReply, WaitUnchanged, listVars, flagVars, threadVars, itemVars, callVars, replyVars, vars
<1>14. PrimeEvent => Calm
  BY Shape, Roles
     DEF Shape, TypeOK, Control, Calm, Awake, Due, WorkerLabels, ProcessLabels, CountedLabels,
         ActiveLabels, ExitLabels, Goto, PrimeEvent, CollectUnchanged, listVars, flagVars, threadVars, itemVars, callVars, replyVars, vars
<1>15. CheckDone => Calm
  BY Shape, Roles
     DEF Shape, TypeOK, Control, Calm, Awake, Due, WorkerLabels, ProcessLabels, CountedLabels,
         ActiveLabels, ExitLabels, Goto, CheckDone, CollectUnchanged, listVars, flagVars, threadVars, itemVars, callVars, replyVars, vars
<1>16. BlockOnItem => Calm
  BY Shape, Roles
     DEF Shape, TypeOK, Control, Calm, Awake, Due, WorkerLabels, ProcessLabels, CountedLabels,
         ActiveLabels, ExitLabels, Goto, BlockOnItem, CollectUnchanged, listVars, flagVars, threadVars, itemVars, callVars, replyVars, vars
<1>17. ItemReply => Calm
  BY Shape, Roles
     DEF Shape, TypeOK, Control, Calm, Awake, Due, WorkerLabels, ProcessLabels, CountedLabels,
         ActiveLabels, ExitLabels, Goto, ItemReply, CollectUnchanged, listVars, flagVars, threadVars, itemVars, callVars, replyVars, vars
<1>18. PushFree => Calm
  BY Shape, Roles
     DEF Shape, TypeOK, Control, Calm, Awake, Due, WorkerLabels, ProcessLabels, CountedLabels,
         ActiveLabels, ExitLabels, Goto, PushFree, CollectUnchanged, listVars, flagVars, threadVars, itemVars, callVars, replyVars, vars
<1>19. FreeQueue => Calm
  BY Shape, Roles
     DEF Shape, TypeOK, Control, Calm, Awake, Due, WorkerLabels, ProcessLabels, CountedLabels,
         ActiveLabels, ExitLabels, Goto, FreeQueue, FreeUnchanged, listVars, flagVars, threadVars, itemVars, callVars, replyVars, vars
<1>20. WakeToExit => Calm
  BY Shape, Roles
     DEF Shape, TypeOK, Control, Calm, Awake, Due, WorkerLabels, ProcessLabels, CountedLabels,
         ActiveLabels, ExitLabels, Goto, WakeToExit, FreeUnchanged, listVars, flagVars, threadVars, itemVars, callVars, replyVars, vars
<1>21. JoinAndFree => Calm
  BY Shape, Roles
     DEF Shape, TypeOK, Control, Calm, Awake, Due, WorkerLabels, ProcessLabels, CountedLabels,
         ActiveLabels, ExitLabels, Goto, JoinAndFree, FreeUnchanged, listVars, flagVars, threadVars, itemVars, callVars, replyVars, vars
<1>22. ASSUME NEW m \in Batches, Queue(m) PROVE Calm
  BY <1>22, Shape, Roles
     DEF Shape, TypeOK, Control, Calm, Awake, Due, WorkerLabels, ProcessLabels, CountedLabels,
         ActiveLabels, ExitLabels, Goto, Queue, listVars, flagVars, threadVars, itemVars, callVars, replyVars, vars
<1>23. ASSUME NEW i \in Items, NEW release \in BOOLEAN, BeginCollect(i, release) PROVE Calm
  BY <1>23, Shape, Roles
     DEF Shape, TypeOK, Control, Calm, Awake, Due, WorkerLabels, ProcessLabels, CountedLabels,
         ActiveLabels, ExitLabels, Goto, BeginCollect, CollectUnchanged, listVars, flagVars, threadVars, itemVars, callVars, replyVars, vars
<1>24. ASSUME NEW w \in Workers, CheckExit(w) PROVE Calm
  BY <1>24, Shape, Roles
     DEF Shape, TypeOK, Control, Calm, Awake, Due, WorkerLabels, ProcessLabels, CountedLabels,
         ActiveLabels, ExitLabels, Goto, CheckExit, WorkerUnchanged, listVars, flagVars, threadVars, itemVars, callVars, replyVars, vars
<1>25. ASSUME NEW w \in Workers, CheckList(w) PROVE Lively'
  <2>1. /\ live' = live /\ active' = active
        /\ \A v \in Workers : /\ pc'[v] \in CountedLabels <=> pc[v] \in CountedLabels
                              /\ pc'[v] \in ActiveLabels <=> pc[v] \in ActiveLabels
    BY <1>25, Shape, Roles
     DEF Shape, TypeOK, Control, Awake, Due, WorkerLabels, ProcessLabels, CountedLabels,
         ActiveLabels, ExitLabels, Goto, CheckList, WorkerUnchanged, listVars, flagVars, threadVars, itemVars, callVars, replyVars, vars
  <2>2. CASE list = <<>>
    <3>1. CountedWorkers' = CountedWorkers
      BY <2>1 DEF CountedWorkers
    <3>2. ~Due'
      BY <1>25, <2>2 DEF Due, CheckList, WorkerUnchanged, listVars
    <3> QED BY <2>1, <3>1, <3>2, Lively DEF Lively, Woken
  <2>3. CASE list # <<>>
    <3>1. Calm
      BY <1>25, <2>1, <2>3, Shape, Roles
       DEF Calm, Shape, TypeOK, Control, Awake, Due, WorkerLabels, ProcessLabels, CountedLabels,
         ActiveLabels, ExitLabels, Goto, CheckList, WorkerUnchanged, listVars, flagVars, threadVars, itemVars, callVars, replyVars, vars
    <3> QED BY <3>1, CalmKeeps, Lively
  <2> QED BY <2>2, <2>3
<1>26. ASSUME NEW w \in Workers, WakeUp(w) PROVE Calm
  BY <1>26, Shape, Roles
     DEF Shape, TypeOK, Control, Calm, Awake, Due, WorkerLabels, ProcessLabels, CountedLabels,
         ActiveLabels, ExitLabels, Goto, WakeUp, WorkerUnchanged, listVars, flagVars, threadVars, itemVars, callVars, replyVars, vars
<1>27. ASSUME NEW w \in Workers, LookForMore(w) PROVE Calm
  BY <1>27, Shape, Roles
     DEF Shape, TypeOK, Control, Calm, Awake, Due, WorkerLabels, ProcessLabels, CountedLabels,
         ActiveLabels, ExitLabels, Goto, LookForMore, WorkerUnchanged, listVars, flagVars, threadVars, itemVars, callVars, replyVars, vars
<1>28. ASSUME NEW a \in Workers \cup {Producer}, TakeItem(a) PROVE Calm
  BY <1>28, Shape, Roles
     DEF Shape, TypeOK, Control, Calm, Awake, Due, WorkerLabels, ProcessLabels, CountedLabels,
         ActiveLabels, ExitLabels, Goto, TakeItem, listVars, flagVars, threadVars, itemVars, callVars, replyVars, vars
<1>29. ASSUME NEW a \in Workers \cup {Producer}, FinishItem(a) PROVE Calm
  BY <1>29, Shape, Roles
     DEF Shape, TypeOK, Control, Calm, Awake, Due, WorkerLabels, ProcessLabels, CountedLabels,
         ActiveLabels, ExitLabels, Goto, FinishItem, listVars, flagVars, threadVars, itemVars, callVars, replyVars, vars
<1>30. ASSUME NEW a \in Workers \cup {Producer}, MarkDone(a) PROVE Calm
  BY <1>30, Shape, Roles
     DEF Shape, TypeOK, Control, Calm, Awake, Due, WorkerLabels, ProcessLabels, CountedLabels,
         ActiveLabels, ExitLabels, Goto, MarkDone, listVars, flagVars, threadVars, itemVars, callVars, replyVars, vars
<1>31. ASSUME NEW a \in Workers \cup {Producer}, SettleItem(a) PROVE Calm
  BY <1>31, Shape, Roles
     DEF Shape, TypeOK, Control, Calm, Awake, Due, WorkerLabels, ProcessLabels, CountedLabels,
         ActiveLabels, ExitLabels, Goto, SettleItem, listVars, flagVars, threadVars, itemVars, callVars, replyVars, vars
<1>32. ASSUME NEW a \in Workers \cup {Producer}, ReadWaiting(a) PROVE Calm
  BY <1>32, Shape, Roles
     DEF Shape, TypeOK, Control, Calm, Awake, Due, WorkerLabels, ProcessLabels, CountedLabels,
         ActiveLabels, ExitLabels, Goto, ReadWaiting, After, listVars, flagVars, threadVars, itemVars, callVars, replyVars, vars
<1>33. ASSUME NEW a \in Workers \cup {Producer}, Announce(a) PROVE Calm
  BY <1>33, Shape, Roles
     DEF Shape, TypeOK, Control, Calm, Awake, Due, WorkerLabels, ProcessLabels, CountedLabels,
         ActiveLabels, ExitLabels, Goto, Announce, After, listVars, flagVars, threadVars, itemVars, callVars, replyVars, vars
<1>34. UNCHANGED vars => Calm
  BY Shape, Roles
     DEF Shape, TypeOK, Control, Calm, Awake, Due, WorkerLabels, ProcessLabels, CountedLabels,
         ActiveLabels, ExitLabels, Goto, vars, listVars, flagVars, threadVars, itemVars, callVars, replyVars, vars
<1>35. ASSUME NEW w \in Workers, GoActive(w) PROVE Lively'
  <2>1. /\ live' = live
        /\ \A v \in Workers : v # w => pc'[v] = pc[v]
        /\ pc'[w] \notin CountedLabels /\ pc[w] \notin CountedLabels
    BY <1>35, Shape, Roles
     DEF Shape, TypeOK, Control, Awake, Due, WorkerLabels, ProcessLabels, CountedLabels,
         ActiveLabels, ExitLabels, Goto, GoActive, WorkerUnchanged, listVars, flagVars, threadVars, itemVars, callVars, replyVars, vars
  <2>2. \A v \in Workers : active'[v] <=> pc'[v] \in ActiveLabels
    BY <1>35, Shape, Roles, Lively
     DEF Lively, Shape, TypeOK, Control, Awake, Due, WorkerLabels, ProcessLabels, CountedLabels,
         ActiveLabels, ExitLabels, Goto, GoActive, WorkerUnchanged, listVars, flagVars, threadVars, itemVars, callVars, replyVars, vars
  <2>3. Woken'
    <3>1. (Due' => Due) /\ \A v \in Workers : Awake(v) => Awake(v)'
      BY <1>35, Shape, Roles
       DEF Shape, TypeOK, Control, Awake, Due, WorkerLabels, ProcessLabels, CountedLabels,
         ActiveLabels, ExitLabels, Goto, GoActive, WorkerUnchanged, listVars, flagVars, threadVars, itemVars, callVars, replyVars, vars
    <3> QED BY <3>1, Lively DEF Lively, Woken
  <2>4. CountedWorkers' = CountedWorkers
    BY <2>1 DEF CountedWorkers
  <2> QED BY <2>1, <2>2, <2>3, <2>4, Lively DEF Lively
<1>36. ASSUME NEW w \in Workers, CountLive(w) PROVE Lively'
  <2>1. /\ live' = live + 1
        /\ \A v \in Workers : v # w => pc'[v] = pc[v]
        /\ pc'[w] \in CountedLabels /\ pc[w] \notin CountedLabels
    BY <1>36, Shape, Roles
     DEF Shape, TypeOK, Control, Awake, Due, WorkerLabels, ProcessLabels, CountedLabels,
         ActiveLabels, ExitLabels, Goto, CountLive, WorkerUnchanged, listVars, flagVars, threadVars, itemVars, callVars, replyVars, vars
  <2>2. \A v \in Workers : active'[v] <=> pc'[v] \in ActiveLabels
    BY <1>36, Shape, Roles, Lively
     DEF Lively, Shape, TypeOK, Control, Awake, Due, WorkerLabels, ProcessLabels, CountedLabels,
         ActiveLabels, ExitLabels, Goto, CountLive, WorkerUnchanged, listVars, flagVars, threadVars, itemVars, callVars, replyVars, vars
  <2>3. Woken'
    <3>1. (Due' => Due) /\ \A v \in Workers : Awake(v) => Awake(v)'
      BY <1>36, Shape, Roles
       DEF Shape, TypeOK, Control, Awake, Due, WorkerLabels, ProcessLabels, CountedLabels,
         ActiveLabels, ExitLabels, Goto, CountLive, WorkerUnchanged, listVars, flagVars, threadVars, itemVars, callVars, replyVars, vars
    <3> QED BY <3>1, Lively DEF Lively, Woken
  <2>4. CountedWorkers' = CountedWorkers \cup {w}
    BY <2>1 DEF CountedWorkers
  <2>5. IsFiniteSet(CountedWorkers) /\ w \notin CountedWorkers
    BY <2>1, CountedFinite DEF CountedWorkers
  <2>6. Cardinality(CountedWorkers \cup {w}) = Cardinality(CountedWorkers) + 1
    BY <2>5, FS_AddElement
  <2>7. Cardinality(CountedWorkers) \in Int
    BY <2>5, FS_CardinalityType
  <2> QED BY <2>1, <2>2, <2>3, <2>4, <2>6, <2>7, Lively DEF Lively
<1>37. ASSUME NEW w \in Workers, GoInactive(w) PROVE Lively'
  <2>1. /\ live' = live
        /\ \A v \in Workers : v # w => pc'[v] = pc[v]
        /\ pc'[w] \in CountedLabels /\ pc[w] \in CountedLabels
    BY <1>37, Shape, Roles
     DEF Shape, TypeOK, Control, Awake, Due, WorkerLabels, ProcessLabels, CountedLabels,
         ActiveLabels, ExitLabels, Goto, GoInactive, WorkerUnchanged, listVars, flagVars, threadVars, itemVars, callVars, replyVars, vars
  <2>2. \A v \in Workers : active'[v] <=> pc'[v] \in ActiveLabels
    BY <1>37, Shape, Roles, Lively
     DEF Lively, Shape, TypeOK, Control, Awake, Due, WorkerLabels, ProcessLabels, CountedLabels,
         ActiveLabels, ExitLabels, Goto, GoInactive, WorkerUnchanged, listVars, flagVars, threadVars, itemVars, callVars, replyVars, vars
  <2>3. Woken'
    <3>1. (Due' => Due) /\ \A v \in Workers : Awake(v) => Awake(v)'
      BY <1>37, Shape, Roles
       DEF Shape, TypeOK, Control, Awake, Due, WorkerLabels, ProcessLabels, CountedLabels,
         ActiveLabels, ExitLabels, Goto, GoInactive, WorkerUnchanged, listVars, flagVars, threadVars, itemVars, callVars, replyVars, vars
    <3> QED BY <3>1, Lively DEF Lively, Woken
  <2>4. CountedWorkers' = CountedWorkers
    BY <2>1 DEF CountedWorkers
  <2> QED BY <2>1, <2>2, <2>3, <2>4, Lively DEF Lively
<1>38. ASSUME NEW w \in Workers, Discount(w) PROVE Lively'
  <2>1. /\ live' = live - 1
        /\ \A v \in Workers : v # w => pc'[v] = pc[v]
        /\ pc'[w] \notin CountedLabels /\ pc[w] \in CountedLabels
    BY <1>38, Shape, Roles
     DEF Shape, TypeOK, Control, Awake, Due, WorkerLabels, ProcessLabels, CountedLabels,
         ActiveLabels, ExitLabels, Goto, Discount, WorkerUnchanged, listVars, flagVars, threadVars, itemVars, callVars, replyVars, vars
  <2>2. \A v \in Workers : active'[v] <=> pc'[v] \in ActiveLabels
    BY <1>38, Shape, Roles, Lively
     DEF Lively, Shape, TypeOK, Control, Awake, Due, WorkerLabels, ProcessLabels, CountedLabels,
         ActiveLabels, ExitLabels, Goto, Discount, WorkerUnchanged, listVars, flagVars, threadVars, itemVars, callVars, replyVars, vars
  <2>3. Woken'
    <3>1. (Due' => Due) /\ \A v \in Workers : Awake(v) => Awake(v)'
      BY <1>38, Shape, Roles
       DEF Shape, TypeOK, Control, Awake, Due, WorkerLabels, ProcessLabels, CountedLabels,
         ActiveLabels, ExitLabels, Goto, Discount, WorkerUnchanged, listVars, flagVars, threadVars, itemVars, callVars, replyVars, vars
    <3> QED BY <3>1, Lively DEF Lively, Woken
  <2>4. CountedWorkers' = CountedWorkers \ {w}
    BY <2>1 DEF CountedWorkers
  <2>5. IsFiniteSet(CountedWorkers) /\ w \in CountedWorkers
    BY <2>1, CountedFinite DEF CountedWorkers
  <2>6. Cardinality(CountedWorkers \ {w}) = Cardinality(CountedWorkers) - 1
    BY <2>5, FS_RemoveElement
  <2>7. Cardinality(CountedWorkers) \in Int
    BY <2>5, FS_CardinalityType
  <2> QED BY <2>1, <2>2, <2>3, <2>4, <2>6, <2>7, Lively DEF Lively
<1>39. CASE LookForThreads
  <2>1. /\ live' = live /\ active' = active /\ wake' = wake
        /\ \A v \in Workers : pc'[v] = pc[v]
    BY <1>39, Shape, Roles DEF Shape, TypeOK, Goto, LookForThreads, threadVars
  <2>2. CountedWorkers' = CountedWorkers
    BY <2>1 DEF CountedWorkers
  <2>3. Due' => ~(live < Threads) /\ Threads > 0
    BY <1>39, Shape, Roles DEF Shape, TypeOK, Due, Goto, LookForThreads, listVars, flagVars
  <2>4. Woken'
    <3> SUFFICES ASSUME Due' PROVE \E w \in Workers : Awake(w)'
      BY DEF Woken
    <3>1. 1 \in Workers
      BY <2>3, WorkQueueAssumption DEF Workers
    <3>2. pc[1] \in CountedLabels
      BY <2>3, <3>1, AllCounted, Lively DEF Lively
    <3> QED BY <2>1, <3>1, <3>2 DEF Awake, CountedLabels, ProcessLabels
  <2> QED BY <2>1, <2>2, <2>4, Lively DEF Lively
<1>40. CASE WakeThread
  <2>1. /\ live' = live /\ active' = active
        /\ \A v \in Workers : pc'[v] = pc[v]
    BY <1>40, Shape, Roles DEF Shape, TypeOK, Goto, WakeThread, threadVars
  <2>2. CountedWorkers' = CountedWorkers
    BY <2>1 DEF CountedWorkers
  <2>3. scan \in Workers
    BY <1>40, Shape, WorkQueueAssumption DEF Shape, TypeOK, WakeThread, Workers
  <2>4. CASE active[scan]
    <3>1. pc'[scan] # "sleep"
      BY <2>1, <2>3, <2>4, Lively DEF Lively, ActiveLabels, ProcessLabels
    <3> QED BY <2>1, <2>2, <2>3, <3>1, Lively DEF Lively, Woken, Awake
  <2>5. CASE ~active[scan]
    <3>1. wake'[scan]
      BY <1>40, <2>3, <2>5, Shape DEF Shape, TypeOK, WakeThread
    <3> QED BY <2>1, <2>2, <2>3, <3>1, Lively DEF Lively, Woken, Awake
  <2> QED BY <2>4, <2>5
<1> QED
  BY <1>1, <1>2, <1>3, <1>4, <1>5, <1>6, <1>7, <1>8, <1>9, <1>10, <1>11, <1>12, <1>13, <1>14, <1>15, <1>16, <1>17, <1>18, <1>19, <1>20, <1>21, <1>22, <1>23, <1>24, <1>25, <1>26, <1>27, <1>28, <1>29, <1>30, <1>31, <1>32, <1>33, <1>34, <1>35, <1>36, <1>37, <1>38, <1>39, <1>40, CalmKeeps, Lively
  DEF Next, Call, ProducerSteps, QueueSteps, WaitSteps, CollectSteps, Process, Worker, Freed

LEMMA LivelyAlways == Spec => []Lively
<1>1. Init => Lively  BY LivelyInit
<1>2. Shape /\ Lively /\ [Next]_vars => Lively'  BY LivelyStep
<1> QED BY <1>1, <1>2, ShapeAlways, PTL DEF Spec

\* No wake-up is lost: when the queuer has returned, an item on the list means
\* that a worker thread is on its way to it or that its wake event is set.
THEOREM WakeupsKept == Spec => []NoLostWakeup
<1>1. Lively => NoLostWakeup
  BY DEF Lively, Woken, Due, Awake, NoLostWakeup
<1> QED BY <1>1, LivelyAlways, PTL

-----------------------------------------------------------------------------
(* The promise.  An item is in one place, the counter that waiting threads *)
(* read is right, and the queue implements WorkItems.                      *)

Busy == {"run", "mark", "settle"}

\* Is the queuer in a call that has linked its items and not returned?
InCall == \/ pc[Producer] \in {"count", "look", "notify", "return"}
          \/ Threads = 0 /\ pc[Producer] \in ProcessLabels

\* Without threads the producer empties the list before it returns.
Emptying == {"count", "look", "take", "run", "mark", "settle"}

\* A step that moves no item: it goes between places that are told apart by
\* nothing below, and it says that the queue is empty only where it looks.
Still ==
  /\ listVars' = listVars /\ batch' = batch /\ items' = items
  /\ held' = held /\ done' = done /\ last' = last
  /\ \A a \in Agents : pc[a] \in Busy \/ pc'[a] \in Busy => pc'[a] = pc[a] /\ at'[a] = at[a]
  /\ pc'[Collector] \in CollectLabels =>
       /\ pc[Collector] \in CollectLabels
       /\ at'[Collector] = at[Collector] /\ releasing' = releasing
  /\ pc'[Collector] = "push" => pc[Collector] = "push" \/ releasing
  /\ pc'[Producer] = "count" <=> pc[Producer] = "count"
  /\ pc[Producer] = "count" => left' = left
  /\ pc'[Producer] = "alloc" => pc[Producer] = "alloc" \/ batch = <<>>
  /\ pc'[Producer] = "freed" <=> pc[Producer] = "freed"
  /\ InCall' => InCall
  /\ Threads = 0 /\ list # <<>> /\ pc[Producer] \in Emptying => pc'[Producer] \in Emptying
  /\ pc'[Producer] = "alloc" =>
       answer'[Producer] # "empty" \/ (pc[Producer] = "alloc" /\ answer'[Producer] = answer[Producer])
  /\ answer'[Producer] = "empty" =>
       \/ answer[Producer] = "empty"
       \/ pc[Producer] \in {"idle", "reply"} /\ items = 0
       \/ pc[Producer] = "idle" /\ Threads = 0

\* The steps that move or count an item.
Moves ==
  \/ AllocItem \/ LinkBatch \/ CountBatch \/ QueueReturn \/ PushFree \/ JoinAndFree
  \/ \E a \in Workers \cup {Producer} : TakeItem(a) \/ FinishItem(a) \/ MarkDone(a) \/ SettleItem(a)
  \/ \E i \in Items, release \in BOOLEAN : BeginCollect(i, release)

LEMMA StillOrMoves == ASSUME Shape, Lively, [Next]_vars PROVE Still \/ Moves
<1>1. CASE LookForThreads
  <2>1. Threads = 0 => live = 0
    <3>1. Threads = 0 => CountedWorkers = {}
      BY DEF CountedWorkers, Workers
    <3> QED BY <3>1, Lively, FS_EmptySet DEF Lively
  <2>2. /\ pc[Producer] = "look" /\ \A a \in Agents : a # Producer => pc'[a] = pc[a]
        /\ pc'[Producer] \in {"take", "notify", "return"}
        /\ Threads = 0 => pc'[Producer] = "take"
    <3>1. Threads = 0 => ~(live < Threads)
      BY <2>1
    <3> QED BY <1>1, <3>1, Shape, Roles DEF Shape, TypeOK, LookForThreads, Goto
  <2> QED
    BY <1>1, <2>2, Shape, Roles
       DEF Shape, TypeOK, Still, InCall, Busy, Emptying, ProcessLabels, CollectLabels,
           Goto, LookForThreads, listVars, itemVars, replyVars
<1>2. WakeThread => Still
  BY Shape, Lively, Roles
     DEF Shape, TypeOK, Control, Still, InCall, Busy, Emptying, Labels, WorkerLabels, ProcessLabels,
         CollectLabels, ExitLabels, Goto, WakeThread, listVars, flagVars, threadVars, itemVars, callVars,
         replyVars, vars
<1>3. WaitQueue => Still
  BY Shape, Lively, Roles
     DEF Shape, TypeOK, Control, Still, InCall, Busy, Emptying, Labels, WorkerLabels, ProcessLabels,
         CollectLabels, ExitLabels, Goto, WaitQueue, WaitUnchanged, listVars, flagVars, threadVars, itemVars, callVars,
         replyVars, vars
<1>4. Helped => Still
  BY Shape, Lively, Roles
     DEF Shape, TypeOK, Control, Still, InCall, Busy, Emptying, Labels, WorkerLabels, ProcessLabels,
         CollectLabels, ExitLabels, Goto, Helped, WaitUnchanged, listVars, flagVars, threadVars, itemVars, callVars,
         replyVars, vars
<1>5. SpinForItems => Still
  BY Shape, Lively, Roles
     DEF Shape, TypeOK, Control, Still, InCall, Busy, Emptying, Labels, WorkerLabels, ProcessLabels,
         CollectLabels, ExitLabels, Goto, SpinForItems, WaitUnchanged, listVars, flagVars, threadVars, itemVars, callVars,
         replyVars, vars
<1>6. ResetDone => Still
  BY Shape, Lively, Roles
     DEF Shape, TypeOK, Control, Still, InCall, Busy, Emptying, Labels, WorkerLabels, ProcessLabels,
         CollectLabels, ExitLabels, Goto, ResetDone, WaitUnchanged, listVars, flagVars, threadVars, itemVars, callVars,
         replyVars, vars
<1>7. SetWaiting => Still
  BY Shape, Lively, Roles
     DEF Shape, TypeOK, Control, Still, InCall, Busy, Emptying, Labels, WorkerLabels, ProcessLabels,
         CollectLabels, ExitLabels, Goto, SetWaiting, WaitUnchanged, listVars, flagVars, threadVars, itemVars, callVars,
         replyVars, vars
<1>8. RecheckItems => Still
  BY Shape, Lively, Roles
     DEF Shape, TypeOK, Control, Still, InCall, Busy, Emptying, Labels, WorkerLabels, ProcessLabels,
         CollectLabels, ExitLabels, Goto, RecheckItems, WaitUnchanged, listVars, flagVars, threadVars, itemVars, callVars,
         replyVars, vars
<1>9. BlockOnDone => Still
  BY Shape, Lively, Roles
     DEF Shape, TypeOK, Control, Still, InCall, Busy, Emptying, Labels, WorkerLabels, ProcessLabels,
         CollectLabels, ExitLabels, Goto, BlockOnDone, WaitUnchanged, listVars, flagVars, threadVars, itemVars, callVars,
         replyVars, vars
<1>10. ClearWaiting => Still
  BY Shape, Lively, Roles
     DEF Shape, TypeOK, Control, Still, InCall, Busy, Emptying, Labels, WorkerLabels, ProcessLabels,
         CollectLabels, ExitLabels, Goto, ClearWaiting, WaitUnchanged, listVars, flagVars, threadVars, itemVars, callVars,
         replyVars, vars
<1>11. WaitReply => Still
  BY Shape, Lively, Roles
     DEF Shape, TypeOK, Control, Still, InCall, Busy, Emptying, Labels, WorkerLabels, ProcessLabels,
         CollectLabels, ExitLabels, Goto, WaitReply, WaitUnchanged, listVars, flagVars, threadVars, itemVars, callVars,
         replyVars, vars
<1>12. PrimeEvent => Still
  BY Shape, Lively, Roles
     DEF Shape, TypeOK, Control, Still, InCall, Busy, Emptying, Labels, WorkerLabels, ProcessLabels,
         CollectLabels, ExitLabels, Goto, PrimeEvent, CollectUnchanged, listVars, flagVars, threadVars, itemVars, callVars,
         replyVars, vars
<1>13. CheckDone => Still
  BY Shape, Lively, Roles
     DEF Shape, TypeOK, Control, Still, InCall, Busy, Emptying, Labels, WorkerLabels, ProcessLabels,
         CollectLabels, ExitLabels, Goto, CheckDone, CollectUnchanged, listVars, flagVars, threadVars, itemVars, callVars,
         replyVars, vars
<1>14. BlockOnItem => Still
  BY Shape, Lively, Roles
     DEF Shape, TypeOK, Control, Still, InCall, Busy, Emptying, Labels, WorkerLabels, ProcessLabels,
         CollectLabels, ExitLabels, Goto, BlockOnItem, CollectUnchanged, listVars, flagVars, threadVars, itemVars, callVars,
         replyVars, vars
<1>15. CASE ItemReply
  <2>1. /\ pc' = [pc EXCEPT ![Collector] = IF releasing THEN "push" ELSE "idle"]
        /\ pc[Collector] = "verdict" /\ (releasing => at' = at)
    BY <1>15 DEF ItemReply, Goto
  <2>2. /\ \A a \in Agents : a # Collector => pc'[a] = pc[a] /\ at'[a] = at[a]
        /\ pc'[Collector] = IF releasing THEN "push" ELSE "idle"
    BY <1>15, <2>1, Shape, Roles DEF Shape, TypeOK, ItemReply
  <2>3. answer'[Producer] = "empty" => answer[Producer] = "empty"
    BY <1>15, Shape, Roles DEF Shape, TypeOK, ItemReply
  <2>4. \A a \in Agents : pc[a] \in Busy \/ pc'[a] \in Busy => pc'[a] = pc[a] /\ at'[a] = at[a]
    BY <2>1, <2>2 DEF Busy
  <2>5. /\ pc'[Producer] = "count" <=> pc[Producer] = "count"
        /\ pc'[Producer] = "freed" <=> pc[Producer] = "freed"
        /\ pc'[Producer] = "alloc" => pc[Producer] = "alloc" /\ Producer # Collector
        /\ InCall' => InCall
        /\ pc[Producer] \in Emptying => pc'[Producer] \in Emptying
    BY <2>1, <2>2, Roles DEF InCall, ProcessLabels, Emptying
  <2>6. Producer # Collector => answer'[Producer] = answer[Producer]
    BY <1>15, Shape DEF Shape, TypeOK, ItemReply, Clients
  <2> QED
    BY <1>15, <2>1, <2>2, <2>3, <2>4, <2>5, <2>6
    DEF Still, CollectLabels, ItemReply, CollectUnchanged, listVars, itemVars, callVars, replyVars
<1>16. FreeQueue => Still
  BY Shape, Lively, Roles
     DEF Shape, TypeOK, Control, Still, InCall, Busy, Emptying, Labels, WorkerLabels, ProcessLabels,
         CollectLabels, ExitLabels, Goto, FreeQueue, FreeUnchanged, listVars, flagVars, threadVars, itemVars, callVars,
         replyVars, vars
<1>17. WakeToExit => Still
  BY Shape, Lively, Roles
     DEF Shape, TypeOK, Control, Still, InCall, Busy, Emptying, Labels, WorkerLabels, ProcessLabels,
         CollectLabels, ExitLabels, Goto, WakeToExit, FreeUnchanged, listVars, flagVars, threadVars, itemVars, callVars,
         replyVars, vars
<1>18. ASSUME NEW m \in Batches, Queue(m) PROVE Still
  <2>1. /\ pc[Producer] = "idle" /\ pc' = [pc EXCEPT ![Producer] = "alloc"] /\ at' = at
        /\ answer' = [answer EXCEPT ![Producer] = "none"]
    BY <1>18 DEF Queue, Goto
  <2>2. /\ \A a \in Agents : a # Producer => pc'[a] = pc[a]
        /\ pc'[Producer] = "alloc" /\ answer'[Producer] = "none" /\ batch = <<>>
    BY <2>1, Shape, Roles DEF Shape, TypeOK, Control, Clients
  <2>3. \A a \in Agents : pc[a] \in Busy \/ pc'[a] \in Busy => pc'[a] = pc[a] /\ at'[a] = at[a]
    BY <2>1, <2>2 DEF Busy
  <2>4. ~InCall'
    BY <2>2 DEF InCall, ProcessLabels
  <2>5. pc'[Collector] \in CollectLabels => pc'[Collector] = pc[Collector]
    BY <2>2, Roles DEF CollectLabels
  <2> QED
    BY <1>18, <2>1, <2>2, <2>3, <2>4, <2>5, Roles
    DEF Still, Emptying, CollectLabels, Queue, listVars, itemVars, replyVars
<1>19. ASSUME NEW w \in Workers, CheckExit(w) PROVE Still
  BY <1>19, Shape, Roles
     DEF Shape, TypeOK, Control, Still, InCall, Busy, Emptying, Labels, WorkerLabels, ProcessLabels,
         CollectLabels, ExitLabels, Goto, CheckExit, WorkerUnchanged, listVars, flagVars, threadVars, itemVars, callVars,
         replyVars, vars
<1>20. ASSUME NEW w \in Workers, CheckList(w) PROVE Still
  BY <1>20, Shape, Roles
     DEF Shape, TypeOK, Control, Still, InCall, Busy, Emptying, Labels, WorkerLabels, ProcessLabels,
         CollectLabels, ExitLabels, Goto, CheckList, WorkerUnchanged, listVars, flagVars, threadVars, itemVars, callVars,
         replyVars, vars
<1>21. ASSUME NEW w \in Workers, WakeUp(w) PROVE Still
  BY <1>21, Shape, Roles
     DEF Shape, TypeOK, Control, Still, InCall, Busy, Emptying, Labels, WorkerLabels, ProcessLabels,
         CollectLabels, ExitLabels, Goto, WakeUp, WorkerUnchanged, listVars, flagVars, threadVars, itemVars, callVars,
         replyVars, vars
<1>22. ASSUME NEW w \in Workers, GoActive(w) PROVE Still
  BY <1>22, Shape, Roles
     DEF Shape, TypeOK, Control, Still, InCall, Busy, Emptying, Labels, WorkerLabels, ProcessLabels,
         CollectLabels, ExitLabels, Goto, GoActive, WorkerUnchanged, listVars, flagVars, threadVars, itemVars, callVars,
         replyVars, vars
<1>23. ASSUME NEW w \in Workers, CountLive(w) PROVE Still
  BY <1>23, Shape, Roles
     DEF Shape, TypeOK, Control, Still, InCall, Busy, Emptying, Labels, WorkerLabels, ProcessLabels,
         CollectLabels, ExitLabels, Goto, CountLive, WorkerUnchanged, listVars, flagVars, threadVars, itemVars, callVars,
         replyVars, vars
<1>24. ASSUME NEW w \in Workers, LookForMore(w) PROVE Still
  BY <1>24, Shape, Roles
     DEF Shape, TypeOK, Control, Still, InCall, Busy, Emptying, Labels, WorkerLabels, ProcessLabels,
         CollectLabels, ExitLabels, Goto, LookForMore, WorkerUnchanged, listVars, flagVars, threadVars, itemVars, callVars,
         replyVars, vars
<1>25. ASSUME NEW w \in Workers, GoInactive(w) PROVE Still
  BY <1>25, Shape, Roles
     DEF Shape, TypeOK, Control, Still, InCall, Busy, Emptying, Labels, WorkerLabels, ProcessLabels,
         CollectLabels, ExitLabels, Goto, GoInactive, WorkerUnchanged, listVars, flagVars, threadVars, itemVars, callVars,
         replyVars, vars
<1>26. ASSUME NEW w \in Workers, Discount(w) PROVE Still
  BY <1>26, Shape, Roles
     DEF Shape, TypeOK, Control, Still, InCall, Busy, Emptying, Labels, WorkerLabels, ProcessLabels,
         CollectLabels, ExitLabels, Goto, Discount, WorkerUnchanged, listVars, flagVars, threadVars, itemVars, callVars,
         replyVars, vars
<1>27. ASSUME NEW a \in Workers \cup {Producer}, ReadWaiting(a) PROVE Still
  BY <1>27, Shape, Roles
     DEF Shape, TypeOK, Control, Still, InCall, Busy, Emptying, Labels, WorkerLabels, ProcessLabels,
         CollectLabels, ExitLabels, Goto, ReadWaiting, After, listVars, flagVars, threadVars, itemVars, callVars,
         replyVars, vars
<1>28. ASSUME NEW a \in Workers \cup {Producer}, Announce(a) PROVE Still
  BY <1>28, Shape, Roles
     DEF Shape, TypeOK, Control, Still, InCall, Busy, Emptying, Labels, WorkerLabels, ProcessLabels,
         CollectLabels, ExitLabels, Goto, Announce, After, listVars, flagVars, threadVars, itemVars, callVars,
         replyVars, vars
<1>29. CASE UNCHANGED vars
  BY <1>29, Shape, Roles
     DEF Shape, TypeOK, Control, Still, InCall, Busy, Emptying, Labels, WorkerLabels, ProcessLabels,
         CollectLabels, ExitLabels, Goto, vars, listVars, flagVars, threadVars, itemVars, callVars,
         replyVars
<1> QED
  BY <1>1, <1>2, <1>3, <1>4, <1>5, <1>6, <1>7, <1>8, <1>9, <1>10, <1>11, <1>12, <1>13, <1>14, <1>15, <1>16, <1>17, <1>18, <1>19, <1>20, <1>21, <1>22, <1>23, <1>24, <1>25, <1>26, <1>27, <1>28, <1>29
  DEF Moves, Next, Call, ProducerSteps, QueueSteps, WaitSteps, CollectSteps, Process, Worker, Freed

-----------------------------------------------------------------------------
(* The counter.                                                            *)

Runners == {a \in Agents : pc[a] = "run"}

\* The items linked and not counted yet.
Ahead == IF pc[Producer] = "count" THEN left ELSE 0

Counted == pc[Producer] # "freed" => items = Len(list) + Cardinality(Runners) - Ahead

LEMMA RunnersFinite == IsFiniteSet(Runners)
<1>1. IsFiniteSet((Workers \cup {Producer}) \cup {Collector})
  BY WorkersFinite, FS_AddElement
<1>2. Runners \in SUBSET ((Workers \cup {Producer}) \cup {Collector})
  BY DEF Runners, Agents, Clients
<1> QED BY <1>1, <1>2, FS_Subset

LEMMA CountedInit == Init => Counted
<1> SUFFICES ASSUME Init PROVE Counted
  OBVIOUS
<1>1. Runners = {} /\ pc[Producer] = "idle"
  BY Roles DEF Runners, Init
<1>2. Len(list) = 0 /\ items = 0
  BY DEF Init
<1> QED BY <1>1, <1>2, FS_EmptySet DEF Counted, Ahead

LEMMA CountedStep == ASSUME Shape, Lively, Counted, [Next]_vars PROVE Counted'
<1> USE Shape, Counted
<1>0. Len(list) \in Nat /\ items \in Int /\ left \in Nat /\ Cardinality(Runners) \in Nat
  BY LenProperties, RunnersFinite, FS_CardinalityType DEF Shape, TypeOK
<1>1. CASE Still
  <2>1. Runners' = Runners
    BY <1>1 DEF Still, Runners, Busy
  <2> QED BY <1>1, <2>1 DEF Still, Counted, Ahead, listVars
<1>2. ASSUME Runners' = Runners, list' = list, items' = items,
             pc[Producer] \notin {"count", "freed"}, pc'[Producer] # "count"
      PROVE  Counted'
  BY <1>2 DEF Counted, Ahead
<1>3. CASE AllocItem
  <2>1. Runners' = Runners
    BY <1>3, Roles DEF Shape, TypeOK, AllocItem, Goto, Runners
  <2> QED BY <1>2, <1>3, <2>1, Roles DEF Shape, TypeOK, AllocItem, Goto
<1>4. CASE LinkBatch
  <2>1. Runners' = Runners
    BY <1>4, Roles DEF Shape, TypeOK, LinkBatch, Goto, Runners
  <2>2. Len(list') = Len(list) + left
    <3>1. list \in Seq(Items) /\ batch \in Seq(Items)
      BY DEF Shape, TypeOK
    <3>2. Len(list \o batch) = Len(list) + Len(batch)
      BY <3>1, LinkFacts
    <3> QED BY <1>4, <3>2 DEF LinkBatch
  <2>3. pc[Producer] = "alloc" /\ pc'[Producer] = "count" /\ left' = left /\ items' = items
    BY <1>4, Roles DEF Shape, TypeOK, LinkBatch, Goto
  <2> QED BY <1>0, <2>1, <2>2, <2>3 DEF Counted, Ahead
<1>5. CASE CountBatch
  <2>1. Runners' = Runners
    BY <1>5, Roles DEF Shape, TypeOK, CountBatch, Goto, Runners
  <2>2. pc[Producer] = "count" /\ pc'[Producer] = "look" /\ items' = items + left /\ list' = list
    BY <1>5, Roles DEF Shape, TypeOK, CountBatch, Goto, listVars
  <2> QED BY <1>0, <2>1, <2>2 DEF Counted, Ahead
<1>6. CASE QueueReturn
  <2>1. Runners' = Runners
    BY <1>6, Roles DEF Shape, TypeOK, QueueReturn, Goto, Runners
  <2> QED BY <1>2, <1>6, <2>1, Roles DEF Shape, TypeOK, QueueReturn, Goto, listVars
<1>7. CASE PushFree
  <2>1. Runners' = Runners
    BY <1>7, Roles DEF Shape, TypeOK, PushFree, Goto, Runners
  <2>2. /\ list' = list /\ items' = items /\ left' = left
        /\ pc'[Producer] = "count" <=> pc[Producer] = "count"
        /\ pc'[Producer] = "freed" <=> pc[Producer] = "freed"
    BY <1>7, Roles DEF Shape, TypeOK, PushFree, Goto, CollectUnchanged, callVars
  <2> QED BY <2>1, <2>2 DEF Counted, Ahead
<1>8. CASE JoinAndFree
  BY <1>8, Roles DEF Shape, TypeOK, JoinAndFree, Goto, Counted
<1>9. ASSUME NEW i \in Items, NEW release \in BOOLEAN, BeginCollect(i, release) PROVE Counted'
  <2>1. Runners' = Runners
    BY <1>9, Roles DEF Shape, TypeOK, BeginCollect, Goto, Runners
  <2>2. /\ list' = list /\ items' = items /\ left' = left
        /\ pc'[Producer] = "count" <=> pc[Producer] = "count"
        /\ pc'[Producer] = "freed" <=> pc[Producer] = "freed"
    BY <1>9, Roles DEF Shape, TypeOK, BeginCollect, Goto, CollectUnchanged, callVars
  <2> QED BY <2>1, <2>2 DEF Counted, Ahead
<1>10. ASSUME NEW a \in Workers \cup {Producer} PROVE a \in Agents
  BY Roles
<1>11. ASSUME NEW a \in Workers \cup {Producer}, TakeItem(a) PROVE Counted'
  <2>0. list \in Seq(Items) /\ a \in Agents /\ pc[a] = "take"
        /\ (pc[Producer] = "count" <=> pc'[Producer] = "count") /\ items' = items /\ left' = left
        /\ (pc'[Producer] = "freed" <=> pc[Producer] = "freed")
    BY <1>10, <1>11, Roles DEF Shape, TypeOK, TakeItem, Goto, callVars
  <2>1. CASE list = <<>>
    <3>1. Runners' = Runners
      BY <1>11, <2>0, <2>1 DEF Shape, TypeOK, TakeItem, Goto, Runners
    <3>2. list' = list
      BY <1>11, <2>1 DEF TakeItem
    <3> QED BY <2>0, <3>1, <3>2 DEF Counted, Ahead
  <2>2. CASE list # <<>>
    <3>1. Runners' = Runners \cup {a} /\ a \notin Runners
      BY <1>11, <2>0, <2>2 DEF Shape, TypeOK, TakeItem, Goto, Runners
    <3>2. Cardinality(Runners') = Cardinality(Runners) + 1
      BY <3>1, RunnersFinite, FS_AddElement
    <3>3. Len(list') = Len(list) - 1
      BY <1>11, <2>0, <2>2, TakeFacts DEF TakeItem
    <3> QED BY <1>0, <2>0, <3>2, <3>3 DEF Counted, Ahead
  <2> QED BY <2>1, <2>2
<1>12. ASSUME NEW a \in Workers \cup {Producer}, FinishItem(a) PROVE Counted'
  <2>0. a \in Agents /\ list' = list /\ items' = items - 1 /\ left' = left
        /\ (pc[Producer] = "count" <=> pc'[Producer] = "count")
        /\ (pc'[Producer] = "freed" <=> pc[Producer] = "freed")
    BY <1>10, <1>12, Roles DEF Shape, TypeOK, FinishItem, Goto, callVars, listVars
  <2>1. Runners' = Runners \ {a} /\ a \in Runners
    BY <1>12, <2>0 DEF Shape, TypeOK, FinishItem, Goto, Runners
  <2>2. Cardinality(Runners') = Cardinality(Runners) - 1
    BY <2>1, RunnersFinite, FS_RemoveElement
  <2> QED BY <1>0, <2>0, <2>2 DEF Counted, Ahead
<1>13. ASSUME NEW a \in Workers \cup {Producer}, MarkDone(a) \/ SettleItem(a) PROVE Counted'
  <2>1. Runners' = Runners
    BY <1>10, <1>13 DEF Shape, TypeOK, MarkDone, SettleItem, Goto, Runners
  <2>2. /\ list' = list /\ items' = items /\ left' = left
        /\ pc'[Producer] = "count" <=> pc[Producer] = "count"
        /\ pc'[Producer] = "freed" <=> pc[Producer] = "freed"
    BY <1>10, <1>13, Roles DEF Shape, TypeOK, MarkDone, SettleItem, Goto, callVars, listVars
  <2> QED BY <2>1, <2>2 DEF Counted, Ahead
<1> QED
  BY <1>1, <1>3, <1>4, <1>5, <1>6, <1>7, <1>8, <1>9, <1>11, <1>12, <1>13, Lively, StillOrMoves
  DEF Moves

\* The counter that osd_work_queue_items and osd_work_queue_wait read is the number
\* of items listed or running, but for a batch that is linked and not counted yet.
THEOREM CounterRight == Spec => []ItemsCounted
<1>1. Init => Counted  BY CountedInit
<1>2. Shape /\ Lively /\ Counted /\ [Next]_vars => Counted'  BY CountedStep
<1>3. Counted => ItemsCounted
  BY DEF Counted, Runners, Ahead, ItemsCounted
<1> QED BY <1>1, <1>2, <1>3, ShapeAlways, LivelyAlways, PTL DEF Spec

-----------------------------------------------------------------------------
(* One place for an item.                                                  *)

\* Are items kept until they are marked done?
Tracked == Patient \/ AutoRelease

\* A thread whose item cannot have been recycled: while its callback runs; until
\* it is marked, when releasing it waits for the mark; and until it is settled,
\* when the thread itself is to release it.
Working(a) ==
  \/ pc[a] = "run"
  \/ Tracked /\ pc[a] = "mark"
  \/ AutoRelease /\ pc[a] = "settle"

\* The lists, the batch and the memory are apart, and hold an item once.
Apart ==
  /\ IsInjective(list) /\ IsInjective(free) /\ IsInjective(batch)
  /\ ToSet(free) \cap fresh = {}
  /\ ToSet(list) \cap (ToSet(batch) \cup Free) = {}
  /\ ToSet(batch) \cap Free = {}

\* A thread at work has its item to itself.
WorkedOnce ==
  /\ \A a \in Agents : Working(a) => at[a] \notin ToSet(list) \cup ToSet(batch) \cup Free
  /\ \A a, b \in Agents : Working(a) /\ Working(b) /\ at[a] = at[b] => a = b

\* What has been returned to the queuer, or will be, is not recycled behind its back.
Kept ==
  /\ AutoRelease => held = {}
  /\ pc[Collector] \in CollectLabels => at[Collector] \in held
  /\ pc[Collector] = "push" => releasing
  /\ pc[Producer] # "freed" => held \cap (Free \cup ToSet(batch)) = {}
  /\ pc[Producer] = "alloc" /\ batch # <<>> => last \in ToSet(batch)
  /\ ~AutoRelease /\ InCall => last \notin held \cup Free

\* An item being released waits for nothing any more.
Released ==
  pc[Collector] \in CollectLabels /\ releasing =>
    /\ at[Collector] \notin ToSet(list)
    /\ \A a \in Agents : Working(a) => at[a] # at[Collector]

\* The mark that a patient release goes by is not there too early.
Unmarked ==
  Patient /\ ~AutoRelease =>
    /\ \A i \in ToSet(list) \cup ToSet(batch) : ~done[i]
    /\ \A a \in Agents : Working(a) => ~done[at[a]]

Placed == Apart /\ WorkedOnce /\ Kept /\ Released /\ Unmarked

LEMMA SetsOfItems ==
  ASSUME Shape
  PROVE  /\ list \in Seq(Items) /\ free \in Seq(Items) /\ batch \in Seq(Items)
         /\ ToSet(list) \subseteq Items /\ ToSet(free) \subseteq Items
         /\ ToSet(batch) \subseteq Items /\ Free \subseteq Items
<1>1. list \in Seq(Items) /\ free \in Seq(Items) /\ batch \in Seq(Items) /\ fresh \subseteq Items
  BY Shape DEF Shape, TypeOK
<1> QED BY <1>1, ToSetFacts DEF Free

\* What the steps that move an item do to its places.

LEMMA AllocMoves ==
  ASSUME Shape, Apart, AllocItem
  PROVE  \E i \in Items :
           /\ i \in Free /\ Free' = Free \ {i} /\ ToSet(free') \cap fresh' = {}
           /\ ToSet(batch') = ToSet(batch) \cup {i}
           /\ IsInjective(free') /\ IsInjective(batch') /\ list' = list
           /\ done' = [done EXCEPT ![i] = FALSE] /\ last' = i
<1> USE Shape, Apart
<1>1. PICK i \in Items :
        /\ \/ free # <<>> /\ i = Head(free) /\ free' = Tail(free) /\ fresh' = fresh
           \/ free = <<>> /\ i \in fresh /\ fresh' = fresh \ {i} /\ free' = free
        /\ done' = [done EXCEPT ![i] = FALSE]
        /\ batch' = Append(batch, i) /\ last' = i /\ list' = list
  BY AllocItem DEF AllocItem
<1>2. /\ i \in Free /\ Free' = Free \ {i} /\ ToSet(free') \cap fresh' = {} /\ IsInjective(free')
  <2>1. CASE free # <<>> /\ i = Head(free) /\ free' = Tail(free) /\ fresh' = fresh
    <3>1. /\ ToSet(free) = ToSet(free') \cup {i} /\ IsInjective(free')
          /\ i \notin ToSet(free')
      BY <2>1, SetsOfItems, TakeFacts DEF Apart
    <3> QED BY <2>1, <3>1 DEF Apart, Free
  <2>2. CASE free = <<>> /\ i \in fresh /\ fresh' = fresh \ {i} /\ free' = free
    <3>1. ToSet(free) = {} /\ IsInjective(free')
      BY <2>2, EmptyFacts
    <3> QED BY <2>2, <3>1 DEF Free
  <2> QED BY <1>1, <2>1, <2>2
<1>3. ToSet(batch') = ToSet(batch) \cup {i} /\ IsInjective(batch')
  <2>1. i \notin ToSet(batch)
    BY <1>2 DEF Apart
  <2> DEFINE o == <<i>>
  <2>2. o \in Seq(Items) /\ Len(o) = 1 /\ DOMAIN o = 1..1 /\ o[1] = i
    OBVIOUS
  <2>3. ToSet(o) = {i} /\ IsInjective(o)
    BY <2>2 DEF ToSet, IsInjective
  <2>4. batch \in Seq(Items) /\ IsInjective(batch)
    BY SetsOfItems DEF Apart
  <2>5. batch' = batch \o o
    BY <1>1, <2>4, AppendIsConcat
  <2> HIDE DEF o
  <2>6. /\ ToSet(batch \o o) = ToSet(batch) \cup ToSet(o)
        /\ IsInjective(batch) /\ IsInjective(o) /\ ToSet(batch) \cap ToSet(o) = {}
             => IsInjective(batch \o o)
    BY <2>2, <2>4, LinkFacts
  <2> QED BY <2>1, <2>3, <2>4, <2>5, <2>6
<1> QED BY <1>1, <1>2, <1>3

LEMMA LinkMoves ==
  ASSUME Shape, Apart, LinkBatch
  PROVE  /\ ToSet(list') = ToSet(list) \cup ToSet(batch) /\ IsInjective(list')
         /\ batch # <<>> /\ ToSet(batch') = {} /\ IsInjective(batch')
<1>1. list' = list \o batch /\ batch' = <<>> /\ Len(batch) = left /\ pc[Producer] = "alloc"
  BY LinkBatch DEF LinkBatch, Goto
<1>2. ToSet(list) \cap ToSet(batch) = {} /\ IsInjective(list) /\ IsInjective(batch)
  BY Apart DEF Apart
<1>3. ToSet(list') = ToSet(list) \cup ToSet(batch) /\ IsInjective(list')
  BY <1>1, <1>2, Shape, SetsOfItems, LinkFacts
<1>4. batch # <<>>
  BY <1>1, Shape DEF Shape, Control
<1> QED BY <1>1, <1>3, <1>4, EmptyFacts

LEMMA TakeMoves ==
  ASSUME Shape, Apart, NEW a \in Workers \cup {Producer}, TakeItem(a), list # <<>>
  PROVE  \E h \in Items :
           /\ h \in ToSet(list) /\ ToSet(list') = ToSet(list) \ {h} /\ IsInjective(list')
           /\ at' = [at EXCEPT ![a] = h] /\ pc[a] = "take" /\ pc' = [pc EXCEPT ![a] = "run"]
<1> DEFINE h == Head(list)
<1>1. /\ h \in Items /\ ToSet(list) = ToSet(Tail(list)) \cup {h}
      /\ IsInjective(Tail(list)) /\ h \notin ToSet(Tail(list))
  BY Shape, Apart, SetsOfItems, TakeFacts DEF Apart
<1>2. /\ list' = Tail(list) /\ at' = [at EXCEPT ![a] = h]
      /\ pc[a] = "take" /\ pc' = [pc EXCEPT ![a] = "run"]
  BY DEF TakeItem, Goto
<1> HIDE DEF h
<1> QED BY <1>1, <1>2

\* An item is pushed on the free list.
LEMMA FreeMoves ==
  ASSUME Shape, Apart, NEW i \in Items, i \notin Free, free' = <<i>> \o free, fresh' = fresh
  PROVE  Free' = Free \cup {i} /\ IsInjective(free') /\ ToSet(free') \cap fresh' = {}
<1>1. ToSet(free') = ToSet(free) \cup {i} /\ IsInjective(free')
  BY Shape, Apart, SetsOfItems, PushFacts DEF Apart, Free
<1> QED BY <1>1, Apart DEF Apart, Free

LEMMA PlacedInit == Init => Placed
<1> SUFFICES ASSUME Init PROVE Placed
  OBVIOUS
<1>1. /\ \A a \in Agents : pc[a] \in {"top", "idle"}
      /\ pc[Producer] = "idle" /\ pc[Collector] = "idle"
      /\ list = <<>> /\ free = <<>> /\ batch = <<>> /\ held = {}
  BY Roles DEF Init
<1>2. Apart
  BY <1>1, EmptyFacts DEF Apart
<1>3. \A a \in Agents : ~Working(a)
  BY <1>1 DEF Working
<1>4. Kept /\ Released
  BY <1>1 DEF Kept, Released, CollectLabels, InCall, ProcessLabels
<1> QED BY <1>1, <1>2, <1>3, <1>4, EmptyFacts DEF Placed, WorkedOnce, Unmarked

\* A step that recycles nothing and takes nothing from the lists.
Placid ==
  /\ listVars' = listVars /\ batch' = batch /\ held' = held /\ done' = done /\ last' = last
  /\ \A a \in Agents : Working(a)' => Working(a) /\ at'[a] = at[a]
  /\ pc'[Collector] \in CollectLabels =>
       /\ pc[Collector] \in CollectLabels
       /\ at'[Collector] = at[Collector] /\ releasing' = releasing
  /\ pc'[Collector] = "push" => pc[Collector] = "push" \/ releasing
  /\ pc'[Producer] = "alloc" => pc[Producer] = "alloc" \/ batch = <<>>
  /\ pc'[Producer] = "freed" <=> pc[Producer] = "freed"
  /\ InCall' => InCall

LEMMA StillPlacid == Still => Placid
BY DEF Still, Placid, Working, Busy

LEMMA PlacidKeeps == ASSUME Placed, Placid PROVE Placed'
<1>1. \A a \in Agents : Working(a)' => Working(a) /\ at'[a] = at[a]
  BY Placid DEF Placid
<1>2. Apart' /\ Free' = Free
  BY Placed, Placid DEF Placed, Apart, Placid, Free, listVars
<1>3. list' = list /\ batch' = batch /\ held' = held /\ done' = done /\ last' = last
  BY Placid DEF Placid, listVars
<1>4. WorkedOnce'
  BY <1>1, <1>2, <1>3, Placed DEF Placed, WorkedOnce
<1>5. Kept'
  BY <1>2, <1>3, Placed, Placid DEF Placed, Kept, Placid, CollectLabels
<1>6. Released'
  BY <1>1, <1>3, Placed, Placid DEF Placed, Released, Placid
<1>7. Unmarked'
  BY <1>1, <1>3, Placed DEF Placed, Unmarked
<1> QED BY <1>2, <1>4, <1>5, <1>6, <1>7 DEF Placed

LEMMA PlacedStep == ASSUME Shape, Lively, Placed, [Next]_vars PROVE Placed'
<1> USE Shape, Placed
<1>0. ASSUME NEW a \in Workers \cup {Producer}
      PROVE  a \in Agents /\ (pc[a] \in ProcessLabels /\ a = Collector => a = Producer)
  BY Roles
<1>1. CASE AllocItem
  <2>1. PICK i \in Items :
           /\ i \in Free /\ Free' = Free \ {i} /\ ToSet(free') \cap fresh' = {}
           /\ ToSet(batch') = ToSet(batch) \cup {i}
           /\ IsInjective(free') /\ IsInjective(batch') /\ list' = list
           /\ done' = [done EXCEPT ![i] = FALSE] /\ last' = i
    BY <1>1, AllocMoves DEF Placed
  <2>2. /\ at' = at /\ held' = held /\ releasing' = releasing
        /\ \A a \in Agents : pc'[a] = pc[a]
        /\ pc[Producer] = "alloc"
    BY <1>1, Roles DEF Shape, TypeOK, AllocItem, Goto, replyVars
  <2>3. \A a \in Agents : Working(a)' <=> Working(a)
    BY <2>2 DEF Working
  <2>4. Apart'
    BY <2>1 DEF Placed, Apart
  <2>5. WorkedOnce'
    BY <2>1, <2>2, <2>3 DEF Placed, WorkedOnce
  <2>6. Kept'
    BY <2>1, <2>2, Roles DEF Placed, Kept, InCall, ProcessLabels
  <2>7. Released'
    BY <2>1, <2>2, <2>3, Roles DEF Placed, Released
  <2>8. Unmarked'
    <3>1. \A j \in Items : ~done[j] => ~done'[j]
      BY <2>1 DEF Shape, TypeOK
    <3>2. \A a \in Agents : Working(a) => at[a] \in Items
      BY DEF Shape, Control, Working
    <3>3. ~done'[i]
      BY <2>1 DEF Shape, TypeOK
    <3> QED BY <2>1, <2>2, <2>3, <3>1, <3>2, <3>3, SetsOfItems DEF Placed, Unmarked
  <2> QED BY <2>4, <2>5, <2>6, <2>7, <2>8 DEF Placed
<1>2. CASE LinkBatch
  <2>1. /\ ToSet(list') = ToSet(list) \cup ToSet(batch) /\ IsInjective(list')
        /\ batch # <<>> /\ ToSet(batch') = {} /\ IsInjective(batch')
    BY <1>2, LinkMoves DEF Placed
  <2>2. /\ at' = at /\ held' = held /\ releasing' = releasing /\ last' = last /\ done' = done
        /\ free' = free /\ fresh' = fresh
        /\ \A a \in Agents : a # Producer => pc'[a] = pc[a]
        /\ pc[Producer] = "alloc" /\ pc'[Producer] = "count"
    BY <1>2, Roles DEF Shape, TypeOK, LinkBatch, Goto, replyVars, itemVars
  <2>3. \A a \in Agents : Working(a)' <=> Working(a)
    BY <2>2 DEF Working
  <2>4. Apart' /\ Free' = Free
    BY <2>1, <2>2 DEF Placed, Apart, Free
  <2>5. WorkedOnce'
    BY <2>1, <2>2, <2>3, <2>4 DEF Placed, WorkedOnce
  <2>6. Kept'
    <3>1. last \in ToSet(batch)
      BY <2>1, <2>2 DEF Placed, Kept
    <3>2. pc'[Collector] \in CollectLabels => pc'[Collector] = pc[Collector]
      BY <2>2, Roles DEF CollectLabels
    <3>3. pc'[Collector] = "push" => pc'[Collector] = pc[Collector]
      BY <2>2, Roles
    <3> QED BY <2>1, <2>2, <2>4, <3>1, <3>2, <3>3 DEF Placed, Kept, Apart
  <2>7. Released'
    <3>1. pc'[Collector] \in CollectLabels => pc'[Collector] = pc[Collector]
      BY <2>2, Roles DEF CollectLabels
    <3> QED BY <2>1, <2>2, <2>3, <3>1 DEF Placed, Released, Kept
  <2>8. Unmarked'
    BY <2>1, <2>2, <2>3 DEF Placed, Unmarked
  <2> QED BY <2>4, <2>5, <2>6, <2>7, <2>8 DEF Placed
<1>3. CASE CountBatch
  <2>1. Placid
    BY <1>3, Roles
    DEF Shape, TypeOK, CountBatch, Goto, Placid, Working, InCall, CollectLabels, ProcessLabels,
        listVars, itemVars, callVars, replyVars
  <2> QED BY <2>1, PlacidKeeps
<1>4. CASE QueueReturn
  <2>1. /\ at' = at /\ releasing' = releasing /\ done' = done
        /\ listVars' = listVars /\ batch' = batch
        /\ held' = IF AutoRelease THEN held ELSE held \cup {last}
        /\ \A a \in Agents : a # Producer => pc'[a] = pc[a]
        /\ pc[Producer] = "return" /\ pc'[Producer] = "idle"
    BY <1>4, Roles DEF Shape, TypeOK, QueueReturn, Goto, itemVars
  <2>2. \A a \in Agents : Working(a)' <=> Working(a)
    BY <2>1 DEF Working
  <2>3. Apart' /\ Free' = Free
    BY <2>1 DEF Placed, Apart, Free, listVars
  <2>4. list' = list /\ ToSet(batch) = {}
    BY <2>1, EmptyFacts DEF Shape, Control, listVars
  <2>5. pc'[Collector] \in CollectLabels => pc'[Collector] = pc[Collector]
    BY <2>1, Roles DEF CollectLabels
  <2>6. WorkedOnce' /\ Unmarked'
    BY <2>1, <2>2, <2>3, <2>4 DEF Placed, WorkedOnce, Unmarked
  <2>7. Released'
    BY <2>1, <2>2, <2>4, <2>5 DEF Placed, Released
  <2>8. Kept'
    <3>1. ~AutoRelease => last \notin Free
      BY <2>1 DEF Placed, Kept, InCall
    <3>2. pc'[Collector] = "push" => pc'[Collector] = pc[Collector]
      BY <2>1, Roles
    <3>3. ~InCall'
      BY <2>1 DEF InCall, ProcessLabels
    <3> QED BY <2>1, <2>3, <2>4, <2>5, <3>1, <3>2, <3>3 DEF Placed, Kept
  <2> QED BY <2>3, <2>6, <2>7, <2>8 DEF Placed
<1>5. CASE PushFree
  <2> DEFINE i == at[Collector]
  <2>1. /\ pc[Collector] = "push" /\ free' = <<i>> \o free /\ held' = held \ {i} /\ fresh' = fresh
        /\ list' = list /\ batch' = batch /\ last' = last /\ done' = done
        /\ \A a \in Agents : a # Collector => pc'[a] = pc[a] /\ at'[a] = at[a]
        /\ pc'[Collector] = "idle"
    BY <1>5, Roles
    DEF Shape, TypeOK, PushFree, CollectUnchanged, Goto, itemVars, callVars
  <2>2. /\ i \in Items /\ i \in held /\ releasing /\ pc[Producer] # "freed"
    BY <2>1 DEF Shape, Control, Placed, Kept, CollectLabels, ExitLabels
  <2>3. /\ i \notin Free /\ i \notin ToSet(batch) /\ i \notin ToSet(list)
        /\ \A a \in Agents : Working(a) => at[a] # i
    BY <2>1, <2>2 DEF Placed, Kept, Released, CollectLabels
  <2> HIDE DEF i
  <2>4. Free' = Free \cup {i} /\ IsInjective(free') /\ ToSet(free') \cap fresh' = {}
    BY <2>1, <2>2, <2>3, FreeMoves DEF Placed
  <2>5. \A a \in Agents : Working(a)' => Working(a) /\ at'[a] = at[a]
    BY <2>1 DEF Working
  <2>6. Apart'
    BY <2>1, <2>3, <2>4 DEF Placed, Apart
  <2>7. WorkedOnce'
    BY <2>1, <2>3, <2>4, <2>5 DEF Placed, WorkedOnce
  <2>8. Kept'
    <3>1. InCall' => InCall
      BY <2>1, Roles DEF InCall, ProcessLabels
    <3>2. pc'[Producer] # "alloc" \/ pc[Producer] = "alloc"
      BY <2>1, Roles
    <3> QED BY <2>1, <2>2, <2>3, <2>4, <3>1, <3>2 DEF Placed, Kept, CollectLabels
  <2>9. Released' /\ Unmarked'
    BY <2>1, <2>5 DEF Placed, Released, Unmarked, CollectLabels
  <2> QED BY <2>6, <2>7, <2>8, <2>9 DEF Placed
<1>6. CASE JoinAndFree
  <2>1. /\ pc[Producer] = "join" /\ pc'[Producer] = "freed"
        /\ \A a \in Agents : a # Producer => pc'[a] = pc[a]
        /\ \A w \in Workers : pc[w] = "gone"
        /\ fresh' = (fresh \cup ToSet(free)) \cup ToSet(list)
        /\ free' = <<>> /\ list' = <<>> /\ batch' = batch /\ held' = held
    BY <1>6, Roles DEF Shape, TypeOK, JoinAndFree, FreeUnchanged, Goto, replyVars
  <2>2. pc'[Collector] \notin CollectLabels
    BY <2>1, Roles DEF Shape, Control, ExitLabels, CollectLabels
  <2>3. \A a \in Agents : ~Working(a)'
    BY <2>1, Roles DEF Shape, Control, Working, CollectLabels
  <2>4. batch' = <<>>
    BY <2>1 DEF Shape, Control
  <2>5. Apart'
    BY <2>1, <2>4, EmptyFacts DEF Apart
  <2>6. Kept'
    BY <2>1, <2>2 DEF Placed, Kept, InCall, ProcessLabels, CollectLabels
  <2>7. WorkedOnce' /\ Released'
    BY <2>2, <2>3 DEF WorkedOnce, Released
  <2>8. Unmarked'
    BY <2>1, <2>3, <2>4, EmptyFacts DEF Unmarked
  <2> QED BY <2>5, <2>6, <2>7, <2>8 DEF Placed
<1>7. ASSUME NEW i \in Items, NEW release \in BOOLEAN, BeginCollect(i, release) PROVE Placed'
  <2>1. /\ i \in held /\ (release => IF Patient THEN done[i] ELSE CallbackOver(i))
        /\ pc[Collector] = "idle" /\ releasing' = release
        /\ listVars' = listVars /\ batch' = batch /\ held' = held /\ done' = done /\ last' = last
        /\ \A a \in Agents : a # Collector => pc'[a] = pc[a] /\ at'[a] = at[a]
        /\ pc'[Collector] = IF ~done[i] THEN "prime" ELSE IF release THEN "push" ELSE "idle"
        /\ at'[Collector] = IF done[i] /\ ~release THEN NoItem ELSE i
    BY <1>7, Roles
    DEF Shape, TypeOK, BeginCollect, CollectUnchanged, Goto, itemVars, callVars, listVars
  <2>2. \A a \in Agents : Working(a)' => Working(a) /\ at'[a] = at[a] /\ a # Collector
    BY <2>1 DEF Working
  <2>3. Apart' /\ Free' = Free /\ list' = list
    BY <2>1 DEF Placed, Apart, Free, listVars
  <2>4. WorkedOnce' /\ Unmarked'
    BY <2>1, <2>2, <2>3 DEF Placed, WorkedOnce, Unmarked
  <2>5. ~AutoRelease
    BY <2>1 DEF Placed, Kept
  <2>6. release => i \notin ToSet(list) /\ \A a \in Agents : Working(a) => at[a] # i
    <3>1. CASE Patient
      BY <2>1, <2>5, <3>1 DEF Placed, Unmarked
    <3>2. CASE ~Patient
      <4>1. \A a \in Agents : Working(a) => pc[a] = "run"
        BY <2>5, <3>2 DEF Working, Tracked
      <4> QED BY <2>1, <3>2, <4>1 DEF CallbackOver
    <3> QED BY <3>1, <3>2
  <2>7. Released'
    <3>1. ASSUME pc'[Collector] \in CollectLabels, releasing' PROVE at'[Collector] = i /\ release
      BY <2>1, <3>1 DEF CollectLabels
    <3>2. ASSUME pc'[Collector] \in CollectLabels, releasing'
          PROVE  /\ at'[Collector] \notin ToSet(list')
                 /\ \A a \in Agents : Working(a)' => at'[a] # at'[Collector]
      BY <3>1, <3>2, <2>2, <2>3, <2>6
    <3> QED BY <3>2 DEF Released
  <2>8. Kept'
    <3>1. pc'[Collector] \in CollectLabels => at'[Collector] = i
      BY <2>1 DEF CollectLabels
    <3>2. pc'[Collector] = "push" => release
      BY <2>1
    <3>3. /\ InCall' => InCall
          /\ pc'[Producer] = "alloc" => pc[Producer] = "alloc"
          /\ pc[Producer] = "freed" => pc'[Producer] = "freed"
      BY <2>1, Roles DEF InCall, ProcessLabels
    <3> QED BY <2>1, <2>3, <3>1, <3>2, <3>3 DEF Placed, Kept
  <2> QED BY <2>3, <2>4, <2>7, <2>8 DEF Placed
<1>8. ASSUME NEW a \in Workers \cup {Producer}, TakeItem(a), list = <<>> PROVE Placed'
  <2>1. Placid
    BY <1>0, <1>8, Roles
    DEF Shape, TypeOK, TakeItem, Goto, Placid, Working, InCall, CollectLabels, ProcessLabels,
        listVars, itemVars, callVars, replyVars
  <2> QED BY <2>1, PlacidKeeps
<1>9. ASSUME NEW a \in Workers \cup {Producer}, TakeItem(a), list # <<>> PROVE Placed'
  <2>1. PICK h \in Items :
           /\ h \in ToSet(list) /\ ToSet(list') = ToSet(list) \ {h} /\ IsInjective(list')
           /\ at' = [at EXCEPT ![a] = h] /\ pc[a] = "take" /\ pc' = [pc EXCEPT ![a] = "run"]
    BY <1>9, TakeMoves DEF Placed
  <2>2. /\ free' = free /\ fresh' = fresh /\ batch' = batch /\ held' = held
        /\ done' = done /\ last' = last /\ releasing' = releasing
    BY <1>9 DEF TakeItem, itemVars, callVars, replyVars
  <2>3. /\ a \in Agents /\ pc'[a] = "run" /\ at'[a] = h
        /\ \A b \in Agents : b # a => pc'[b] = pc[b] /\ at'[b] = at[b]
    BY <1>0, <2>1 DEF Shape, TypeOK
  <2>4. \A b \in Agents : b # a => (Working(b)' <=> Working(b))
    BY <2>3 DEF Working
  <2>5. Apart' /\ Free' = Free
    BY <2>1, <2>2 DEF Placed, Apart, Free
  <2>6. WorkedOnce'
    BY <2>1, <2>2, <2>3, <2>4, <2>5 DEF Placed, WorkedOnce, Apart
  <2>7. pc'[Collector] \in CollectLabels => Collector # a
    BY <2>3 DEF CollectLabels
  <2>8. Kept'
    <3>1. InCall' => InCall
      BY <2>1, <2>3, Roles DEF InCall, ProcessLabels
    <3>2. /\ pc'[Producer] = "alloc" => pc[Producer] = "alloc"
          /\ pc[Producer] = "freed" => pc'[Producer] = "freed"
          /\ pc'[Collector] = "push" => pc[Collector] = "push"
      BY <2>1, <2>3, Roles
    <3>3. pc'[Collector] \in CollectLabels => pc[Collector] \in CollectLabels /\ at'[Collector] = at[Collector]
      BY <2>3, <2>7, Roles
    <3> QED BY <2>2, <2>5, <3>1, <3>2, <3>3 DEF Placed, Kept
  <2>9. Released'
    <3>1. ASSUME pc'[Collector] \in CollectLabels, releasing'
          PROVE  /\ at'[Collector] = at[Collector] /\ at[Collector] \notin ToSet(list)
                 /\ \A b \in Agents : Working(b) => at[b] # at[Collector]
      BY <2>2, <2>3, <2>7, <3>1, Roles DEF Placed, Released
    <3> QED BY <2>1, <2>3, <2>4, <3>1 DEF Released
  <2>10. Unmarked'
    BY <2>1, <2>2, <2>3, <2>4 DEF Placed, Unmarked
  <2> QED BY <2>5, <2>6, <2>8, <2>9, <2>10 DEF Placed
<1>10. ASSUME NEW a \in Workers \cup {Producer}, FinishItem(a) PROVE Placed'
  <2>1. Placid
    BY <1>0, <1>10, Roles
    DEF Shape, TypeOK, FinishItem, Goto, Placid, Working, InCall, CollectLabels, ProcessLabels,
        listVars, itemVars, callVars, replyVars
  <2> QED BY <2>1, PlacidKeeps
<1>11. ASSUME NEW a \in Workers \cup {Producer}, MarkDone(a) PROVE Placed'
  <2>1. /\ listVars' = listVars /\ batch' = batch /\ held' = held /\ last' = last
        /\ releasing' = releasing /\ at' = at /\ done' = [done EXCEPT ![at[a]] = TRUE]
        /\ a \in Agents /\ pc[a] = "mark" /\ pc'[a] = "settle"
        /\ \A b \in Agents : b # a => pc'[b] = pc[b]
    BY <1>0, <1>11 DEF Shape, TypeOK, MarkDone, Goto, callVars, replyVars
  <2>2. \A b \in Agents : Working(b)' => Working(b)
    BY <2>1 DEF Working, Tracked
  <2>3. Apart' /\ Free' = Free /\ list' = list
    BY <2>1 DEF Placed, Apart, Free, listVars
  <2>4. WorkedOnce'
    BY <2>1, <2>2, <2>3 DEF Placed, WorkedOnce
  <2>5. pc'[Collector] \in CollectLabels => pc'[Collector] = pc[Collector]
    BY <2>1, Roles DEF CollectLabels
  <2>6. Kept'
    <3>1. InCall' => InCall
      BY <2>1, Roles DEF InCall, ProcessLabels
    <3>2. /\ pc'[Producer] = "alloc" => pc[Producer] = "alloc"
          /\ pc[Producer] = "freed" => pc'[Producer] = "freed"
          /\ pc'[Collector] = "push" => pc[Collector] = "push"
      BY <2>1, Roles
    <3> QED BY <2>1, <2>3, <2>5, <3>1, <3>2 DEF Placed, Kept
  <2>7. Released'
    BY <2>1, <2>2, <2>3, <2>5 DEF Placed, Released
  <2>8. Unmarked'
    <3> SUFFICES ASSUME Patient, ~AutoRelease PROVE Unmarked'
      BY DEF Unmarked
    <3>1. Working(a) /\ ~Working(a)'
      BY <2>1 DEF Working, Tracked
    <3>2. /\ at[a] \notin ToSet(list) \cup ToSet(batch)
          /\ \A b \in Agents : Working(b)' => Working(b) /\ at[b] # at[a]
      BY <2>1, <2>2, <3>1 DEF Placed, WorkedOnce
    <3>3. \A j \in Items : j # at[a] => done'[j] = done[j]
      BY <2>1 DEF Shape, TypeOK
    <3>4. \A b \in Agents : Working(b) => at[b] \in Items
      BY DEF Shape, Control, Working
    <3> QED BY <2>1, <2>3, <3>2, <3>3, <3>4, SetsOfItems DEF Placed, Unmarked
  <2> QED BY <2>3, <2>4, <2>6, <2>7, <2>8 DEF Placed
<1>12. ASSUME NEW a \in Workers \cup {Producer}, SettleItem(a), ~AutoRelease PROVE Placed'
  <2>1. Placid
    BY <1>0, <1>12, Roles
    DEF Shape, TypeOK, SettleItem, Goto, Placid, Working, InCall, CollectLabels, ProcessLabels,
        listVars, itemVars, callVars, replyVars
  <2> QED BY <2>1, PlacidKeeps
<1>13. ASSUME NEW a \in Workers \cup {Producer}, SettleItem(a), AutoRelease PROVE Placed'
  <2> DEFINE i == at[a]
  <2>1. /\ list' = list /\ fresh' = fresh /\ free' = <<i>> \o free /\ batch' = batch /\ held' = held
        /\ last' = last /\ a \in Agents /\ pc[a] = "settle" /\ pc'[a] = "take"
        /\ \A b \in Agents : b # a => pc'[b] = pc[b] /\ at'[b] = at[b]
    BY <1>0, <1>13 DEF Shape, TypeOK, SettleItem, Goto, callVars, replyVars
  <2>2. i \in Items /\ Working(a)
    BY <1>13, <2>1 DEF Shape, Control, Working
  <2>3. /\ i \notin Free /\ i \notin ToSet(batch) /\ i \notin ToSet(list)
        /\ \A b \in Agents : b # a /\ Working(b) => at[b] # i
    BY <2>1, <2>2 DEF Placed, WorkedOnce
  <2> HIDE DEF i
  <2>4. Free' = Free \cup {i} /\ IsInjective(free') /\ ToSet(free') \cap fresh' = {}
    BY <2>1, <2>2, <2>3, FreeMoves DEF Placed
  <2>5. \A b \in Agents : Working(b)' => Working(b) /\ at'[b] = at[b] /\ b # a
    BY <2>1 DEF Working
  <2>6. Apart'
    BY <2>1, <2>3, <2>4 DEF Placed, Apart
  <2>7. WorkedOnce'
    BY <2>1, <2>3, <2>4, <2>5 DEF Placed, WorkedOnce
  <2>8. held = {} /\ pc'[Collector] \notin CollectLabels
    <3>1. held = {} /\ pc[Collector] \notin CollectLabels
      BY <1>13 DEF Placed, Kept
    <3>2. pc'[Collector] = pc[Collector] \/ pc'[Collector] = "take"
      BY <2>1, Roles
    <3> QED BY <3>1, <3>2 DEF CollectLabels
  <2>9. Kept'
    <3>1. pc'[Producer] = "alloc" => pc[Producer] = "alloc"
      BY <2>1, Roles
    <3> QED BY <1>13, <2>1, <2>8, <3>1 DEF Placed, Kept, CollectLabels
  <2>10. Released' /\ Unmarked'
    BY <1>13, <2>8 DEF Released, Unmarked
  <2> QED BY <2>6, <2>7, <2>9, <2>10 DEF Placed
<1>14. CASE Still
  BY <1>14, StillPlacid, PlacidKeeps
<1> QED
  BY <1>1, <1>2, <1>3, <1>4, <1>5, <1>6, <1>7, <1>8, <1>9, <1>10, <1>11, <1>12, <1>13, <1>14,
     Lively, StillOrMoves
  DEF Moves

LEMMA PlacedAlways == Spec => []Placed
<1>1. Init => Placed  BY PlacedInit
<1>2. Shape /\ Lively /\ Placed /\ [Next]_vars => Placed'  BY PlacedStep
<1> QED BY <1>1, <1>2, ShapeAlways, LivelyAlways, PTL DEF Spec

\* A work item is in one place: on the list once, on the free list once, in the
\* batch, or in the hands of one thread; and when the thread is to release it, it
\* has it to itself until it has released it.
THEOREM OnePlaceEach == Spec => []OnePlace
<1>1. Placed => OnePlace
  <2> SUFFICES ASSUME Placed PROVE OnePlace
    OBVIOUS
  <2>1. \A a \in Agents : pc[a] = "run" => Working(a)
    BY DEF Working
  <2>2. AutoRelease => \A a \in Agents : pc[a] \in {"run", "mark", "settle"} => Working(a)
    BY DEF Working, Tracked
  <2>3. Running \cap (ToSet(list) \cup ToSet(batch) \cup Free) = {}
    BY <2>1 DEF Placed, WorkedOnce, Running
  <2>4. AutoRelease => InHand \cap (ToSet(list) \cup ToSet(batch) \cup Free) = {}
    BY <2>2 DEF Placed, WorkedOnce, InHand
  <2> QED BY <2>1, <2>3, <2>4 DEF Placed, Apart, WorkedOnce, OnePlace
<1> QED BY <1>1, PlacedAlways, PTL

-----------------------------------------------------------------------------
(* The promise.                                                            *)

\* What the mapping needs besides: without threads a call that queued items leaves
\* none behind, and no answer of a wait outlives the next call to queue.
Fresh ==
  /\ Threads = 0 /\ list # <<>> => pc[Producer] \in Emptying
  /\ pc[Producer] = "alloc" => answer[Producer] # "empty"

LEMMA FreshInit == Init => Fresh
BY Roles DEF Init, Fresh

LEMMA FreshStep == ASSUME Shape, Lively, Fresh, [Next]_vars PROVE Fresh'
<1> USE Shape, Fresh
<1>1. CASE Still
  BY <1>1 DEF Still, Fresh, listVars
<1>2. CASE AllocItem
  BY <1>2, Roles DEF Shape, TypeOK, AllocItem, Goto, Fresh, Emptying, replyVars
<1>3. CASE LinkBatch
  BY <1>3, Roles DEF Shape, TypeOK, LinkBatch, Goto, Fresh, Emptying
<1>4. CASE CountBatch
  BY <1>4, Roles DEF Shape, TypeOK, CountBatch, Goto, Fresh, Emptying, listVars
<1>5. CASE QueueReturn
  BY <1>5, Roles DEF Shape, TypeOK, QueueReturn, Goto, Fresh, Emptying, listVars
<1>6. CASE PushFree
  BY <1>6, Roles DEF Shape, TypeOK, PushFree, CollectUnchanged, Goto, Fresh, Emptying
<1>7. CASE JoinAndFree
  BY <1>7, Roles DEF Shape, TypeOK, JoinAndFree, FreeUnchanged, Goto, Fresh
<1>8. ASSUME NEW i \in Items, NEW release \in BOOLEAN, BeginCollect(i, release) PROVE Fresh'
  <2>1. /\ pc[Collector] = "idle" /\ list' = list
        /\ \A a \in Agents : a # Collector => pc'[a] = pc[a]
        /\ pc'[Collector] \in {"prime", "push", "idle"}
    BY <1>8, Roles DEF Shape, TypeOK, BeginCollect, CollectUnchanged, Goto
  <2>2. Collector # Producer => answer'[Producer] = answer[Producer]
    BY <1>8 DEF Shape, TypeOK, BeginCollect, Clients
  <2> QED BY <2>1, <2>2, Roles DEF Fresh, Emptying
<1>9. ASSUME NEW a \in Workers \cup {Producer},
             TakeItem(a) \/ FinishItem(a) \/ MarkDone(a) \/ SettleItem(a)
      PROVE  Fresh'
  <2>1. a \in Agents /\ (Threads = 0 => a = Producer)
    BY Roles, WorkQueueAssumption DEF Workers
  <2>2. pc'[Producer] = "alloc" => pc[Producer] = "alloc" /\ answer' = answer
    BY <1>9, <2>1, Roles
    DEF Shape, TypeOK, TakeItem, FinishItem, MarkDone, SettleItem, Goto, replyVars
  <2>3. CASE TakeItem(a)
    BY <1>9, <2>1, <2>2, <2>3 DEF Shape, TypeOK, TakeItem, Goto, Fresh, Emptying
  <2>4. CASE FinishItem(a) \/ MarkDone(a) \/ SettleItem(a)
    BY <2>1, <2>2, <2>4
    DEF Shape, TypeOK, FinishItem, MarkDone, SettleItem, Goto, Fresh, Emptying, listVars
  <2> QED BY <1>9, <2>3, <2>4
<1> QED
  BY <1>1, <1>2, <1>3, <1>4, <1>5, <1>6, <1>7, <1>8, <1>9, Lively, StillOrMoves DEF Moves

\* Stages that change, or do not, as the items do that the definition looks at.
LEMMA MoveFacts ==
  ASSUME NEW S \in SUBSET Items, NEW from, NEW to,
         \A i \in S : StageOf(i) = from /\ StageOf(i)' = to,
         \A i \in Items \ S : StageOf(i)' = StageOf(i)
  PROVE  Promise!Move(S, from, to)
BY DEF Promise!Move

LEMMA SameStages ==
  ASSUME Running' = Running, ToSet(list') = ToSet(list), ToSet(batch') = ToSet(batch), Free' = Free
  PROVE  /\ \A i \in Items : StageOf(i)' = StageOf(i)
         /\ [i \in Items |-> StageOf(i)]' = [i \in Items |-> StageOf(i)]
<1>1. \A i \in Items : StageOf(i)' = StageOf(i)
  BY DEF StageOf
<1> QED BY <1>1

\* When the counter is zero between two calls, nothing is listed or running.
LEMMA NothingLeft ==
  ASSUME Shape, Counted, Fresh, pc[Producer] \in {"idle", "reply"},
         items = 0 \/ (Threads = 0 /\ pc[Producer] = "idle")
  PROVE  Promise!Outstanding = {}
<1>1. list = <<>> /\ Runners = {}
  <2>1. CASE items = 0
    <3>1. Len(list) + Cardinality(Runners) = 0 /\ Len(list) \in Nat /\ Cardinality(Runners) \in Nat
      BY <2>1, RunnersFinite, FS_CardinalityType, LenProperties DEF Counted, Ahead, Shape, TypeOK
    <3>2. Len(list) = 0 /\ Cardinality(Runners) = 0
      BY <3>1
    <3> QED BY <3>2, RunnersFinite, FS_EmptySet, EmptySeq DEF Shape, TypeOK
  <2>2. CASE Threads = 0 /\ pc[Producer] = "idle"
    <3>1. list = <<>>
      BY <2>2 DEF Fresh, Emptying
    <3>2. \A a \in Agents : a = Producer \/ (a = Collector /\ Collector # Producer)
      BY <2>2, Roles DEF Workers
    <3> QED BY <2>2, <3>1, <3>2 DEF Shape, Control, CollectLabels, Runners
  <2> QED BY <2>1, <2>2
<1>2. Running = {} /\ ToSet(list) = {}
  BY <1>1, EmptyFacts DEF Runners, Running
<1>3. \A i \in Items : StageOf(i) \notin {"queued", "running"}
  BY <1>2 DEF StageOf
<1> QED BY <1>3 DEF Promise!Outstanding

LEMMA PromiseInit == Init => Promise!Init
<1> SUFFICES ASSUME Init PROVE Promise!Init
  OBVIOUS
<1>1. \A a \in Agents : pc[a] # "run"
  BY DEF Init
<1>2. Running = {} /\ ToSet(list) = {} /\ ToSet(batch) = {} /\ Free = Items
  BY <1>1, EmptyFacts DEF Running, Free, Init
<1>3. \A i \in Items : StageOf(i) = "free"
  BY <1>2 DEF StageOf
<1>4. answer[Producer] = "none"
  BY DEF Init, Clients
<1> QED BY <1>3, <1>4 DEF Promise!Init

LEMMA PromiseStep ==
  ASSUME Shape, Lively, Counted, Placed, Fresh, [Next]_vars
  PROVE  [Promise!Next]_<<[i \in Items |-> StageOf(i)], answer[Producer] = "empty">>
<1> USE Shape, Placed
<1>0. ASSUME NEW a \in Workers \cup {Producer} PROVE a \in Agents
  BY Roles
<1>r. ASSUME NEW a \in Agents, pc[a] = "run"
      PROVE  at[a] \in Items /\ at[a] \notin ToSet(list) \cup ToSet(batch) \cup Free
  BY <1>r DEF Shape, Control, Placed, WorkedOnce, Working
<1>1. CASE Still
  <2>1. Running' = Running
    BY <1>1 DEF Still, Running, Busy
  <2>2. [i \in Items |-> StageOf(i)]' = [i \in Items |-> StageOf(i)]
    BY <1>1, <2>1, SameStages DEF Still, listVars, Free
  <2>3. CASE answer'[Producer] # "empty"
    BY <2>2, <2>3 DEF Promise!Next, Promise!Forget
  <2>4. CASE answer'[Producer] = "empty" /\ answer[Producer] = "empty"
    BY <2>2, <2>4
  <2>5. CASE answer'[Producer] = "empty" /\ answer[Producer] # "empty"
    <3>1. Promise!Outstanding = {}
      BY <1>1, <2>5, Counted, Fresh, NothingLeft DEF Still
    <3> QED BY <2>2, <2>5, <3>1 DEF Promise!Next, Promise!Answer
  <2> QED BY <2>3, <2>4, <2>5
<1>2. CASE AllocItem
  <2>1. PICK i \in Items :
           /\ i \in Free /\ Free' = Free \ {i} /\ ToSet(batch') = ToSet(batch) \cup {i}
           /\ list' = list
    BY <1>2, AllocMoves DEF Placed
  <2>2. at' = at /\ answer' = answer /\ \A a \in Agents : pc'[a] = pc[a]
    BY <1>2, Roles DEF Shape, TypeOK, AllocItem, Goto, replyVars
  <2>3. Running' = Running /\ i \notin Running /\ i \notin ToSet(list) /\ i \notin ToSet(batch)
    BY <1>r, <2>1, <2>2 DEF Running, Placed, Apart
  <2>4. StageOf(i) = "free" /\ StageOf(i)' = "prepared"
    BY <2>1, <2>3 DEF StageOf
  <2>5. \A j \in Items \ {i} : StageOf(j)' = StageOf(j)
    BY <2>1, <2>3 DEF StageOf
  <2>6. Promise!Move({i}, "free", "prepared")
    BY <2>4, <2>5, MoveFacts
  <2> QED BY <2>2, <2>6 DEF Promise!Next, Promise!Prepare
<1>3. CASE LinkBatch
  <2> DEFINE S == ToSet(batch)
  <2>1. ToSet(list') = ToSet(list) \cup S /\ batch # <<>> /\ ToSet(batch') = {}
    BY <1>3, LinkMoves DEF Placed
  <2>2. /\ at' = at /\ answer' = answer /\ free' = free /\ fresh' = fresh
        /\ \A a \in Agents : pc'[a] = "run" <=> pc[a] = "run"
        /\ pc[Producer] = "alloc"
    BY <1>3, Roles DEF Shape, TypeOK, LinkBatch, Goto, replyVars
  <2>3. Running' = Running /\ Free' = Free
    BY <2>2 DEF Running, Free
  <2>4. \A i \in S : i \notin Running /\ i \notin ToSet(list)
    BY <1>r DEF Running, Placed, Apart
  <2>5. last \in S /\ S \subseteq Items
    BY <2>1, <2>2, SetsOfItems DEF Placed, Kept
  <2> HIDE DEF S
  <2>6. \A i \in S : StageOf(i) = "prepared" /\ StageOf(i)' = "queued"
    BY <2>1, <2>3, <2>4 DEF StageOf, S
  <2>7. \A i \in Items \ S : StageOf(i)' = StageOf(i)
    BY <2>1, <2>3 DEF StageOf, S
  <2>8. Promise!Move(S, "prepared", "queued")
    BY <2>5, <2>6, <2>7, MoveFacts
  <2>9. answer'[Producer] # "empty"
    BY <2>2, Fresh DEF Fresh
  <2> QED BY <2>5, <2>8, <2>9 DEF Promise!Next, Promise!Submit
<1>4. CASE CountBatch \/ QueueReturn
  <2>1. Running' = Running
    BY <1>4, Roles DEF Shape, TypeOK, CountBatch, QueueReturn, Goto, Running
  <2>2. list' = list /\ batch' = batch /\ answer' = answer /\ Free' = Free
    BY <1>4 DEF CountBatch, QueueReturn, listVars, callVars, replyVars, Free
  <2> QED BY <2>1, <2>2, SameStages
<1>5. CASE PushFree
  <2>0. PICK i \in Items : i = at[Collector]
    BY <1>5 DEF Shape, Control, CollectLabels, PushFree, Goto
  <2>1. /\ pc[Collector] = "push" /\ free' = <<i>> \o free /\ fresh' = fresh
        /\ list' = list /\ batch' = batch /\ answer' = answer
        /\ \A a \in Agents : a # Collector => pc'[a] = pc[a] /\ at'[a] = at[a]
        /\ pc'[Collector] = "idle"
    BY <1>5, <2>0, Roles DEF Shape, TypeOK, PushFree, CollectUnchanged, Goto, callVars
  <2>2. i \in Items /\ i \in held /\ releasing /\ pc[Producer] # "freed"
    BY <2>0, <2>1 DEF Shape, Control, Placed, Kept, CollectLabels, ExitLabels
  <2>3. /\ i \notin Free /\ i \notin ToSet(batch) /\ i \notin ToSet(list)
        /\ \A a \in Agents : pc[a] = "run" => at[a] # i
    BY <2>0, <2>1, <2>2 DEF Placed, Kept, Released, CollectLabels, Working
  <2>4. Free' = Free \cup {i}
    BY <2>1, <2>2, <2>3, FreeMoves DEF Placed
  <2>5. Running' = Running /\ i \notin Running
    BY <2>0, <2>1, <2>3 DEF Running
  <2>6. StageOf(i) = "finished" /\ StageOf(i)' = "free"
    BY <2>1, <2>3, <2>4, <2>5 DEF StageOf
  <2>7. \A j \in Items \ {i} : StageOf(j)' = StageOf(j)
    BY <2>1, <2>4, <2>5 DEF StageOf
  <2>8. Promise!Move({i}, "finished", "free")
    BY <2>2, <2>6, <2>7, MoveFacts
  <2> QED BY <2>1, <2>2, <2>8 DEF Promise!Next, Promise!Recycle
<1>6. CASE JoinAndFree
  <2> DEFINE S == ToSet(list)
  <2>1. /\ fresh' = (fresh \cup ToSet(free)) \cup S
        /\ free' = <<>> /\ list' = <<>> /\ batch' = batch /\ answer' = answer /\ at' = at
        /\ \A a \in Agents : pc'[a] = "run" <=> pc[a] = "run"
    BY <1>6, Roles DEF Shape, TypeOK, JoinAndFree, FreeUnchanged, Goto, replyVars
  <2>2. Running' = Running /\ Free' = Free \cup S /\ ToSet(list') = {}
    BY <2>1, EmptyFacts DEF Running, Free
  <2>3. \A i \in S : i \notin Running /\ i \notin ToSet(batch)
    BY <1>r DEF Running, Placed, Apart
  <2>4. S \in SUBSET Items
    BY SetsOfItems
  <2> HIDE DEF S
  <2>5. \A i \in S : StageOf(i) = "queued" /\ StageOf(i)' = "free"
    BY <2>1, <2>2, <2>3 DEF StageOf, S
  <2>6. \A i \in Items \ S : StageOf(i)' = StageOf(i)
    BY <2>1, <2>2 DEF StageOf, S
  <2>7. Promise!Move(S, "queued", "free")
    BY <2>4, <2>5, <2>6, MoveFacts
  <2> QED BY <2>1, <2>4, <2>7 DEF Promise!Next, Promise!Discard
<1>7. ASSUME NEW i \in Items, NEW release \in BOOLEAN, BeginCollect(i, release)
      PROVE  [Promise!Next]_<<[j \in Items |-> StageOf(j)], answer[Producer] = "empty">>
  <2>1. /\ \A a \in Agents : pc'[a] = "run" <=> pc[a] = "run"
        /\ \A a \in Agents : pc[a] = "run" => at'[a] = at[a]
    BY <1>7, Roles DEF Shape, TypeOK, BeginCollect, Goto
  <2>2. Running' = Running
    BY <2>1 DEF Running
  <2>3. list' = list /\ batch' = batch /\ Free' = Free
    BY <1>7 DEF BeginCollect, CollectUnchanged, callVars, Free
  <2>4. [j \in Items |-> StageOf(j)]' = [j \in Items |-> StageOf(j)]
    BY <2>2, <2>3, SameStages
  <2>5. answer'[Producer] = answer[Producer] \/ answer'[Producer] # "empty"
    BY <1>7 DEF Shape, TypeOK, BeginCollect, Clients
  <2> QED BY <2>4, <2>5 DEF Promise!Next, Promise!Forget
<1>8. ASSUME NEW a \in Workers \cup {Producer}, TakeItem(a)
      PROVE  [Promise!Next]_<<[j \in Items |-> StageOf(j)], answer[Producer] = "empty">>
  <2>1. free' = free /\ fresh' = fresh /\ batch' = batch /\ answer' = answer
    BY <1>8 DEF TakeItem, callVars, replyVars
  <2>2. CASE list = <<>>
    <3>1. Running' = Running /\ list' = list
      BY <1>0, <1>8, <2>2 DEF Shape, TypeOK, TakeItem, Goto, Running
    <3> QED BY <2>1, <3>1, SameStages DEF Free
  <2>3. CASE list # <<>>
    <3>1. PICK h \in Items :
             /\ h \in ToSet(list) /\ ToSet(list') = ToSet(list) \ {h}
             /\ at' = [at EXCEPT ![a] = h] /\ pc[a] = "take" /\ pc' = [pc EXCEPT ![a] = "run"]
      BY <1>8, <2>3, TakeMoves DEF Placed
    <3>2. /\ a \in Agents /\ pc'[a] = "run" /\ at'[a] = h
          /\ \A b \in Agents : b # a => pc'[b] = pc[b] /\ at'[b] = at[b]
      BY <1>0, <3>1 DEF Shape, TypeOK
    <3>3. Running' = Running \cup {h} /\ h \notin Running
      BY <1>r, <3>1, <3>2 DEF Running
    <3>4. StageOf(h) = "queued" /\ StageOf(h)' = "running"
      BY <3>1, <3>3 DEF StageOf
    <3>5. \A j \in Items \ {h} : StageOf(j)' = StageOf(j)
      BY <2>1, <3>1, <3>3 DEF StageOf, Free
    <3>6. Promise!Move({h}, "queued", "running")
      BY <3>4, <3>5, MoveFacts
    <3> QED BY <2>1, <3>6 DEF Promise!Next, Promise!Start
  <2> QED BY <2>2, <2>3
<1>9. ASSUME NEW a \in Workers \cup {Producer}, FinishItem(a)
      PROVE  [Promise!Next]_<<[j \in Items |-> StageOf(j)], answer[Producer] = "empty">>
  <2>0. PICK i \in Items : i = at[a]
    BY <1>0, <1>9 DEF Shape, Control, FinishItem, Goto
  <2>1. /\ a \in Agents /\ pc[a] = "run" /\ pc'[a] = "mark" /\ at' = at
        /\ \A b \in Agents : b # a => pc'[b] = pc[b]
        /\ list' = list /\ free' = free /\ fresh' = fresh /\ batch' = batch /\ answer' = answer
    BY <1>0, <1>9, <2>0 DEF Shape, TypeOK, FinishItem, Goto, listVars, callVars, replyVars
  <2>2. i \in Items /\ i \notin ToSet(list) \cup ToSet(batch) \cup Free
    BY <1>r, <2>0, <2>1
  <2>3. \A b \in Agents : pc[b] = "run" /\ b # a => at[b] # i
    BY <2>0, <2>1 DEF Placed, WorkedOnce, Working
  <2>4. Running' = Running \ {i} /\ i \in Running
    BY <2>0, <2>1, <2>3 DEF Running
  <2>5. StageOf(i) = "running" /\ StageOf(i)' = "finished"
    BY <2>1, <2>2, <2>4 DEF StageOf, Free
  <2>6. \A j \in Items \ {i} : StageOf(j)' = StageOf(j)
    BY <2>1, <2>4 DEF StageOf, Free
  <2>7. Promise!Move({i}, "running", "finished")
    BY <2>2, <2>5, <2>6, MoveFacts
  <2> QED BY <2>1, <2>2, <2>7 DEF Promise!Next, Promise!Finish
<1>10. ASSUME NEW a \in Workers \cup {Producer},
              MarkDone(a) \/ (SettleItem(a) /\ ~AutoRelease)
       PROVE  [Promise!Next]_<<[j \in Items |-> StageOf(j)], answer[Producer] = "empty">>
  <2>1. Running' = Running
    BY <1>0, <1>10 DEF Shape, TypeOK, MarkDone, SettleItem, Goto, Running
  <2>2. list' = list /\ batch' = batch /\ answer' = answer /\ Free' = Free
    BY <1>10 DEF MarkDone, SettleItem, listVars, callVars, replyVars, Free
  <2> QED BY <2>1, <2>2, SameStages
<1>11. ASSUME NEW a \in Workers \cup {Producer}, SettleItem(a), AutoRelease
       PROVE  [Promise!Next]_<<[j \in Items |-> StageOf(j)], answer[Producer] = "empty">>
  <2>0. PICK i \in Items : i = at[a]
    BY <1>0, <1>11 DEF Shape, Control, SettleItem, Goto
  <2>1. /\ a \in Agents /\ pc[a] = "settle" /\ pc'[a] = "take"
        /\ \A b \in Agents : b # a => pc'[b] = pc[b] /\ at'[b] = at[b]
        /\ list' = list /\ free' = <<i>> \o free /\ fresh' = fresh /\ batch' = batch
        /\ answer' = answer
    BY <1>0, <1>11, <2>0 DEF Shape, TypeOK, SettleItem, Goto, callVars, replyVars
  <2>2. i \in Items /\ Working(a)
    BY <1>11, <2>0, <2>1 DEF Shape, Control, Working
  <2>3. /\ i \notin Free /\ i \notin ToSet(batch) /\ i \notin ToSet(list)
        /\ \A b \in Agents : b # a /\ pc[b] = "run" => at[b] # i
    BY <2>0, <2>1, <2>2 DEF Placed, WorkedOnce, Working
  <2>4. Free' = Free \cup {i}
    BY <2>1, <2>2, <2>3, FreeMoves DEF Placed
  <2>5. Running' = Running /\ i \notin Running
    BY <2>0, <2>1, <2>3 DEF Running
  <2>6. StageOf(i) = "finished" /\ StageOf(i)' = "free"
    BY <2>1, <2>3, <2>4, <2>5 DEF StageOf
  <2>7. \A j \in Items \ {i} : StageOf(j)' = StageOf(j)
    BY <2>1, <2>4, <2>5 DEF StageOf
  <2>8. Promise!Move({i}, "finished", "free")
    BY <2>2, <2>6, <2>7, MoveFacts
  <2> QED BY <2>1, <2>2, <2>8 DEF Promise!Next, Promise!Recycle
<1> QED
  BY <1>1, <1>2, <1>3, <1>4, <1>5, <1>6, <1>7, <1>8, <1>9, <1>10, <1>11, Lively, StillOrMoves
  DEF Moves

\* The work queue implements WorkItems: every item is run once, by one thread, and
\* is not recycled before; and a wait that says the queue is empty is right.
THEOREM PromiseKept == Spec => KeepsPromise
<1>1. Init => Promise!Init  BY PromiseInit
<1>2. Shape /\ Lively /\ Counted /\ Placed /\ Fresh /\ [Next]_vars
      => [Promise!Next]_<<[i \in Items |-> StageOf(i)], answer[Producer] = "empty">>
  BY PromiseStep
<1>3. Init => Counted /\ Fresh  BY CountedInit, FreshInit
<1>4. Shape /\ Lively /\ Counted /\ [Next]_vars => Counted'  BY CountedStep
<1>5. Shape /\ Lively /\ Fresh /\ [Next]_vars => Fresh'  BY FreshStep
<1> QED
  BY <1>1, <1>2, <1>3, <1>4, <1>5, ShapeAlways, LivelyAlways, PlacedAlways, PTL
  DEF Spec, KeepsPromise, Promise!Spec

-----------------------------------------------------------------------------
(* Answers to a wait.                                                      *)

\* Where a wait is past its spinning and helping.
Waits == {"arm", "flag", "recheck", "block", "unflag", "reply"}

\* A wait for a high frequency queue with several threads comes here with the
\* counter at zero, which nobody raises but itself, or out of time.
Candid ==
  HighFreq /\ Multi =>
    /\ pc[Producer] \in Waits => items = 0 \/ gaveUp[Producer]
    /\ WaitHonest

\* A step that is of no concern to a wait.
Aside ==
  /\ items' = items /\ gaveUp' = gaveUp /\ answer' = answer
  /\ pc'[Producer] \in Waits => pc[Producer] \in Waits

LEMMA AsideKeeps == ASSUME Candid, Aside PROVE Candid'
BY DEF Candid, Aside, WaitHonest

LEMMA CandidInit == Init => Candid
BY Roles DEF Init, Candid, WaitHonest, Waits, Clients

LEMMA CandidStep == ASSUME Shape, Counted, Candid, [Next]_vars PROVE Candid'
<1> USE Shape, Candid
<1>1. AllocItem => Aside
  BY Roles
     DEF Shape, TypeOK, Aside, Waits, Goto, AllocItem, listVars, flagVars, threadVars, itemVars, callVars,
         replyVars, vars
<1>2. LinkBatch => Aside
  BY Roles
     DEF Shape, TypeOK, Aside, Waits, Goto, LinkBatch, listVars, flagVars, threadVars, itemVars, callVars,
         replyVars, vars
<1>3. LookForThreads => Aside
  BY Roles
     DEF Shape, TypeOK, Aside, Waits, Goto, LookForThreads, listVars, flagVars, threadVars, itemVars, callVars,
         replyVars, vars
<1>4. WakeThread => Aside
  BY Roles
     DEF Shape, TypeOK, Aside, Waits, Goto, WakeThread, listVars, flagVars, threadVars, itemVars, callVars,
         replyVars, vars
<1>5. QueueReturn => Aside
  BY Roles
     DEF Shape, TypeOK, Aside, Waits, Goto, QueueReturn, listVars, flagVars, threadVars, itemVars, callVars,
         replyVars, vars
<1>6. ResetDone => Aside
  BY Roles
     DEF Shape, TypeOK, Aside, Waits, Goto, ResetDone, WaitUnchanged, listVars, flagVars, threadVars, itemVars, callVars,
         replyVars, vars
<1>7. SetWaiting => Aside
  BY Roles
     DEF Shape, TypeOK, Aside, Waits, Goto, SetWaiting, WaitUnchanged, listVars, flagVars, threadVars, itemVars, callVars,
         replyVars, vars
<1>8. RecheckItems => Aside
  BY Roles
     DEF Shape, TypeOK, Aside, Waits, Goto, RecheckItems, WaitUnchanged, listVars, flagVars, threadVars, itemVars, callVars,
         replyVars, vars
<1>9. ClearWaiting => Aside
  BY Roles
     DEF Shape, TypeOK, Aside, Waits, Goto, ClearWaiting, WaitUnchanged, listVars, flagVars, threadVars, itemVars, callVars,
         replyVars, vars
<1>10. PrimeEvent => Aside
  BY Roles
     DEF Shape, TypeOK, Aside, Waits, Goto, PrimeEvent, CollectUnchanged, listVars, flagVars, threadVars, itemVars, callVars,
         replyVars, vars
<1>11. CheckDone => Aside
  BY Roles
     DEF Shape, TypeOK, Aside, Waits, Goto, CheckDone, CollectUnchanged, listVars, flagVars, threadVars, itemVars, callVars,
         replyVars, vars
<1>12. PushFree => Aside
  BY Roles
     DEF Shape, TypeOK, Aside, Waits, Goto, PushFree, CollectUnchanged, listVars, flagVars, threadVars, itemVars, callVars,
         replyVars, vars
<1>13. FreeQueue => Aside
  BY Roles
     DEF Shape, TypeOK, Aside, Waits, Goto, FreeQueue, FreeUnchanged, listVars, flagVars, threadVars, itemVars, callVars,
         replyVars, vars
<1>14. WakeToExit => Aside
  BY Roles
     DEF Shape, TypeOK, Aside, Waits, Goto, WakeToExit, FreeUnchanged, listVars, flagVars, threadVars, itemVars, callVars,
         replyVars, vars
<1>15. JoinAndFree => Aside
  BY Roles
     DEF Shape, TypeOK, Aside, Waits, Goto, JoinAndFree, FreeUnchanged, listVars, flagVars, threadVars, itemVars, callVars,
         replyVars, vars
<1>16. ASSUME NEW w \in Workers, CheckExit(w) PROVE Aside
  BY <1>16, Roles
     DEF Shape, TypeOK, Aside, Waits, Goto, CheckExit, WorkerUnchanged, listVars, flagVars, threadVars, itemVars, callVars,
         replyVars, vars
<1>17. ASSUME NEW w \in Workers, CheckList(w) PROVE Aside
  BY <1>17, Roles
     DEF Shape, TypeOK, Aside, Waits, Goto, CheckList, WorkerUnchanged, listVars, flagVars, threadVars, itemVars, callVars,
         replyVars, vars
<1>18. ASSUME NEW w \in Workers, WakeUp(w) PROVE Aside
  BY <1>18, Roles
     DEF Shape, TypeOK, Aside, Waits, Goto, WakeUp, WorkerUnchanged, listVars, flagVars, threadVars, itemVars, callVars,
         replyVars, vars
<1>19. ASSUME NEW w \in Workers, GoActive(w) PROVE Aside
  BY <1>19, Roles
     DEF Shape, TypeOK, Aside, Waits, Goto, GoActive, WorkerUnchanged, listVars, flagVars, threadVars, itemVars, callVars,
         replyVars, vars
<1>20. ASSUME NEW w \in Workers, CountLive(w) PROVE Aside
  BY <1>20, Roles
     DEF Shape, TypeOK, Aside, Waits, Goto, CountLive, WorkerUnchanged, listVars, flagVars, threadVars, itemVars, callVars,
         replyVars, vars
<1>21. ASSUME NEW w \in Workers, LookForMore(w) PROVE Aside
  BY <1>21, Roles
     DEF Shape, TypeOK, Aside, Waits, Goto, LookForMore, WorkerUnchanged, listVars, flagVars, threadVars, itemVars, callVars,
         replyVars, vars
<1>22. ASSUME NEW w \in Workers, GoInactive(w) PROVE Aside
  BY <1>22, Roles
     DEF Shape, TypeOK, Aside, Waits, Goto, GoInactive, WorkerUnchanged, listVars, flagVars, threadVars, itemVars, callVars,
         replyVars, vars
<1>23. ASSUME NEW w \in Workers, Discount(w) PROVE Aside
  BY <1>23, Roles
     DEF Shape, TypeOK, Aside, Waits, Goto, Discount, WorkerUnchanged, listVars, flagVars, threadVars, itemVars, callVars,
         replyVars, vars
<1>24. ASSUME NEW a \in Workers \cup {Producer}, TakeItem(a) PROVE Aside
  BY <1>24, Roles
     DEF Shape, TypeOK, Aside, Waits, Goto, TakeItem, listVars, flagVars, threadVars, itemVars, callVars,
         replyVars, vars
<1>25. ASSUME NEW a \in Workers \cup {Producer}, MarkDone(a) PROVE Aside
  BY <1>25, Roles
     DEF Shape, TypeOK, Aside, Waits, Goto, MarkDone, listVars, flagVars, threadVars, itemVars, callVars,
         replyVars, vars
<1>26. ASSUME NEW a \in Workers \cup {Producer}, SettleItem(a) PROVE Aside
  BY <1>26, Roles
     DEF Shape, TypeOK, Aside, Waits, Goto, SettleItem, listVars, flagVars, threadVars, itemVars, callVars,
         replyVars, vars
<1>27. ASSUME NEW a \in Workers \cup {Producer}, ReadWaiting(a) PROVE Aside
  BY <1>27, Roles
     DEF Shape, TypeOK, Aside, Waits, Goto, ReadWaiting, After, listVars, flagVars, threadVars, itemVars, callVars,
         replyVars, vars
<1>28. ASSUME NEW a \in Workers \cup {Producer}, Announce(a) PROVE Aside
  BY <1>28, Roles
     DEF Shape, TypeOK, Aside, Waits, Goto, Announce, After, listVars, flagVars, threadVars, itemVars, callVars,
         replyVars, vars
<1>29. CASE UNCHANGED vars
  BY <1>29 DEF Candid, WaitHonest, vars, replyVars
<1>30. CASE CountBatch
  BY <1>30, Roles
     DEF Shape, TypeOK, Candid, WaitHonest, Waits, Clients, Goto, CountBatch, listVars, flagVars, threadVars,
         itemVars, callVars, replyVars
<1>31. CASE WaitQueue
  BY <1>31, Roles
     DEF Shape, TypeOK, Candid, WaitHonest, Waits, Clients, Goto, WaitQueue, WaitUnchanged, listVars, flagVars, threadVars,
         itemVars, callVars, replyVars
<1>32. CASE Helped
  BY <1>32, Roles
     DEF Shape, TypeOK, Candid, WaitHonest, Waits, Clients, Goto, Helped, WaitUnchanged, listVars, flagVars, threadVars,
         itemVars, callVars, replyVars
<1>33. CASE SpinForItems
  BY <1>33, Roles
     DEF Shape, TypeOK, Candid, WaitHonest, Waits, Clients, Goto, SpinForItems, WaitUnchanged, listVars, flagVars, threadVars,
         itemVars, callVars, replyVars
<1>34. CASE BlockOnDone
  BY <1>34, Roles
     DEF Shape, TypeOK, Candid, WaitHonest, Waits, Clients, Goto, BlockOnDone, WaitUnchanged, listVars, flagVars, threadVars,
         itemVars, callVars, replyVars
<1>35. CASE WaitReply
  BY <1>35, Roles
     DEF Shape, TypeOK, Candid, WaitHonest, Waits, Clients, Goto, WaitReply, WaitUnchanged, listVars, flagVars, threadVars,
         itemVars, callVars, replyVars
<1>36. CASE BlockOnItem
  BY <1>36, Roles
     DEF Shape, TypeOK, Candid, WaitHonest, Waits, Clients, Goto, BlockOnItem, CollectUnchanged, listVars, flagVars, threadVars,
         itemVars, callVars, replyVars
<1>37. CASE ItemReply
  BY <1>37, Roles
     DEF Shape, TypeOK, Candid, WaitHonest, Waits, Clients, Goto, ItemReply, CollectUnchanged, listVars, flagVars, threadVars,
         itemVars, callVars, replyVars
<1>38. ASSUME NEW m \in Batches, Queue(m) PROVE Candid'
  BY <1>38, Roles
     DEF Shape, TypeOK, Candid, WaitHonest, Waits, Clients, Goto, Queue, listVars, flagVars, threadVars,
         itemVars, callVars, replyVars
<1>39. ASSUME NEW i \in Items, NEW release \in BOOLEAN, BeginCollect(i, release) PROVE Candid'
  BY <1>39, Roles
     DEF Shape, TypeOK, Candid, WaitHonest, Waits, Clients, Goto, BeginCollect, CollectUnchanged, listVars, flagVars, threadVars,
         itemVars, callVars, replyVars
<1>40. ASSUME NEW a \in Workers \cup {Producer}, FinishItem(a) PROVE Candid'
  <2>1. /\ a \in Agents /\ pc[a] = "run" /\ gaveUp' = gaveUp /\ answer' = answer
        /\ pc'[Producer] \in Waits => pc'[Producer] = pc[Producer]
    BY <1>40, Roles DEF Shape, TypeOK, FinishItem, Goto, Waits, replyVars
  <2>2. pc[Producer] \in Waits => items # 0
    <3>1. a \in Runners
      BY <2>1 DEF Runners
    <3>2. Cardinality(Runners) \in Nat \ {0}
      BY <3>1, RunnersFinite, FS_EmptySet, FS_CardinalityType
    <3>3. Len(list) \in Nat
      BY LenProperties DEF Shape, TypeOK
    <3> QED BY <3>2, <3>3, Counted DEF Counted, Ahead, Waits
  <2> QED BY <2>1, <2>2 DEF Candid, WaitHonest
<1> QED
  BY <1>1, <1>2, <1>3, <1>4, <1>5, <1>6, <1>7, <1>8, <1>9, <1>10, <1>11, <1>12, <1>13, <1>14, <1>15, <1>16, <1>17, <1>18, <1>19, <1>20, <1>21, <1>22, <1>23, <1>24, <1>25, <1>26, <1>27, <1>28, <1>29, <1>30, <1>31, <1>32, <1>33, <1>34, <1>35, <1>36, <1>37, <1>38, <1>39, <1>40,
     AsideKeeps
  DEF Next, Call, ProducerSteps, QueueSteps, WaitSteps, CollectSteps, Process, Worker, Freed

\* A wait for a queue as the renderer of polygons has it (poly.h:308 makes it high
\* frequency and for several threads) returns FALSE only when it has timed out.
THEOREM HonestWaits == Spec => [](HighFreq /\ Multi => WaitHonest)
<1>1. Init => Counted /\ Candid  BY CountedInit, CandidInit
<1>2. Shape /\ Lively /\ Counted /\ [Next]_vars => Counted'  BY CountedStep
<1>3. Shape /\ Counted /\ Candid /\ [Next]_vars => Candid'  BY CandidStep
<1>4. Candid => (HighFreq /\ Multi => WaitHonest)
  BY DEF Candid
<1> QED BY <1>1, <1>2, <1>3, <1>4, ShapeAlways, LivelyAlways, PTL DEF Spec

=============================================================================
