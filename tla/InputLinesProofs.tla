--------------------------- MODULE InputLinesProofs ---------------------------
(***************************************************************************)
(* What holds of input lines whatever the device, its lines and the size   *)
(* of the queues: events that are queued have a timer, and when callbacks  *)
(* do not come back to a line whose queue is being emptied, the events of  *)
(* a line reach the device in order and once.                              *)
(***************************************************************************)
EXTENDS InputLines, SequenceTheorems, TLAPS

-----------------------------------------------------------------------------
(* Types. *)

\* What a call of empty_event_queue has to queue at its end, and such a call.
Then == {Nothing} \cup [state : States, vector : Vectors \cup {Stored}]
Frame == [line : Lines, next : 1..(QueueSize + 1), giving : States \cup {"none"}, then : Then]

Typed == TypeOK /\ frames \in Seq(Frame)

\* Queues have room for an event.
LEMMA SizeIsNat == QueueSize \in Nat \ {0}
BY LinesAssumption

\* The innermost call is a call, and the others stay where they are.
LEMMA TopFacts ==
  ASSUME NEW S, frames \in Seq(S), frames # <<>>
  PROVE  /\ Len(frames) \in Nat \ {0} /\ Top \in S /\ Top = frames[Len(frames)]
         /\ Below \in Seq(S) /\ Len(Below) = Len(frames) - 1
         /\ \A n \in 1..(Len(frames) - 1) : Below[n] = frames[n]
<1> DEFINE k == Len(frames)
<1>1. k \in Nat \ {0}
  OBVIOUS
<1>2. \A n \in 1..k : frames[n] \in S
  BY ElementOfSeq
<1>3. Below = SubSeq(frames, 1, k - 1)
  BY DEF Below
<1>. HIDE DEF k
<1>4. /\ Below \in Seq(S)
      /\ Len(Below) = IF 1 <= k - 1 THEN k - 1 - 1 + 1 ELSE 0
      /\ \A n \in 1..(k - 1 - 1 + 1) : Below[n] = frames[1 + n - 1]
  <2>1. \A n \in 1..(k - 1) : frames[n] \in S
    BY <1>1, <1>2
  <2>2. 1 \in Int /\ k - 1 \in Int
    BY <1>1
  <2>. QED  BY <1>3, <2>1, <2>2, SubSeqProperties
<1>5. Len(Below) = k - 1 /\ \A n \in 1..(k - 1) : Below[n] = frames[n]
  BY <1>1, <1>4
<1>. QED  BY <1>1, <1>2, <1>4, <1>5 DEF Top, k

\* A call that has moved on: the fields of it.
LEMMA CallMoved ==
  ASSUME NEW A, NEW B, NEW C, NEW D,
         NEW t \in [line : A, next : B, giving : C, then : D], NEW n \in B, NEW g \in C
  PROVE  LET u == [t EXCEPT !.next = n, !.giving = g] IN
         /\ u \in [line : A, next : B, giving : C, then : D]
         /\ u.line = t.line /\ u.next = n /\ u.then = t.then
<1> DEFINE w == [t EXCEPT !.next = n]
<1>1. /\ w \in [line : A, next : B, giving : C, then : D]
      /\ w.line = t.line /\ w.next = n /\ w.then = t.then
  OBVIOUS
<1>2. [t EXCEPT !.next = n, !.giving = g] = [w EXCEPT !.giving = g]
  OBVIOUS
<1>. HIDE DEF w
<1>. QED  BY <1>1, <1>2

\* An event is applied, whatever of it is given to the core.
Applies == \E giving \in States \cup {"none"} : Apply(giving)

\* Applying an event moves the innermost call on, and no other.
LEMMA AppliesFacts ==
  ASSUME frames \in Seq(Frame), frames # <<>>, Top.next <= QueueSize, Applies, QueueSize \in Nat
  PROVE  /\ frames' \in Seq(Frame) /\ Len(frames') = Len(frames) /\ Len(frames) \in Nat \ {0}
         /\ \A n \in 1..(Len(frames) - 1) : frames'[n] = frames[n]
         /\ frames'[Len(frames)].line = Top.line /\ frames'[Len(frames)].then = Top.then
         /\ frames'[Len(frames)].next = Top.next + 1
         /\ applied' = 1 - applied
<1>0. PICK giving \in States \cup {"none"} : Apply(giving)
  BY DEF Applies
<1>1. /\ Len(frames) \in Nat \ {0} /\ Top \in Frame
      /\ Below \in Seq(Frame) /\ Len(Below) = Len(frames) - 1
      /\ \A n \in 1..(Len(frames) - 1) : Below[n] = frames[n]
  BY TopFacts
<1> DEFINE f == [Top EXCEPT !.next = @ + 1, !.giving = giving]
<1>2. f \in Frame /\ f.line = Top.line /\ f.then = Top.then /\ f.next = Top.next + 1
  <2>1. Top.next + 1 \in 1..(QueueSize + 1)
    BY <1>1 DEF Frame
  <2>. QED  BY <1>1, <2>1, CallMoved DEF Frame
<1>3. frames' = Append(Below, f) /\ applied' = 1 - applied
  BY <1>0 DEF Apply
<1>. HIDE DEF f
<1>4. /\ Append(Below, f) \in Seq(Frame) /\ Len(Append(Below, f)) = Len(Below) + 1
      /\ \A i \in 1..Len(Below) : Append(Below, f)[i] = Below[i]
      /\ Append(Below, f)[Len(Below) + 1] = f
  BY <1>1, <1>2, AppendProperties
<1>. QED  BY <1>1, <1>2, <1>3, <1>4

\* The core has been given an event: the innermost call goes on.
LEMMA CallReturnsFacts ==
  ASSUME frames \in Seq(Frame), frames # <<>>, CallReturns
  PROVE  /\ frames' \in Seq(Frame) /\ Len(frames') = Len(frames) /\ Len(frames) \in Nat \ {0}
         /\ \A n \in 1..Len(frames) :
              /\ frames'[n].line = frames[n].line /\ frames'[n].next = frames[n].next
              /\ frames'[n].then = frames[n].then
<1>1. /\ Len(frames) \in Nat \ {0} /\ Top \in Frame /\ Top = frames[Len(frames)]
      /\ Below \in Seq(Frame) /\ Len(Below) = Len(frames) - 1
      /\ \A n \in 1..(Len(frames) - 1) : Below[n] = frames[n]
  BY TopFacts
<1> DEFINE f == [Top EXCEPT !.giving = "none"]
<1>2. f \in Frame /\ f.line = Top.line /\ f.then = Top.then /\ f.next = Top.next
  <2>1. \A t \in Frame :
          LET u == [t EXCEPT !.giving = "none"]
          IN u \in Frame /\ u.line = t.line /\ u.then = t.then /\ u.next = t.next
    BY DEF Frame
  <2>. QED  BY <1>1, <2>1
<1>3. frames' = Append(Below, f)
  BY DEF CallReturns
<1>. HIDE DEF f
<1>4. /\ Append(Below, f) \in Seq(Frame) /\ Len(Append(Below, f)) = Len(Below) + 1
      /\ \A i \in 1..Len(Below) : Append(Below, f)[i] = Below[i]
      /\ Append(Below, f)[Len(Below) + 1] = f
  BY <1>1, <1>2, AppendProperties
<1>. QED  BY <1>1, <1>2, <1>3, <1>4

\* An event as it is queued.
LEMMA EventType ==
  ASSUME TypeOK, NEW l \in Lines, NEW s \in States, NEW v \in Vectors \cup {Stored}
  PROVE  Event(l, s, v) \in Events /\ Event(l, s, v).state = s
BY DEF TypeOK, Event, Events

\* Queueing an event: the line's queue is longer, and the line has a timer if the
\* queue was empty; no timer is lost.
LEMMA EnqueueFacts ==
  ASSUME NEW q \in [Lines -> Seq(Events)], NEW l \in Lines, NEW e \in Events,
         timers \in Seq(Lines), Enqueue(q, l, e)
  PROVE  /\ queue' \in [Lines -> Seq(Events)] /\ timers' \in Seq(Lines)
         /\ \A m \in Lines \ {l} : queue'[m] = q[m]
         /\ queue'[l] = Append(q[l], e) /\ Len(queue'[l]) = Len(q[l]) + 1
         /\ \A n \in 1..Len(timers) : n \in 1..Len(timers') /\ timers'[n] = timers[n]
         /\ q[l] = <<>> => \E n \in 1..Len(timers') : timers'[n] = l
<1>1. /\ queue' = [q EXCEPT ![l] = Append(q[l], e)]
      /\ timers' = IF q[l] = <<>> THEN Append(timers, l) ELSE timers
  BY DEF Enqueue
<1>2. q[l] \in Seq(Events) /\ Append(q[l], e) \in Seq(Events) /\ Len(Append(q[l], e)) = Len(q[l]) + 1
  BY AppendProperties
<1>3. /\ Append(timers, l) \in Seq(Lines) /\ Len(Append(timers, l)) = Len(timers) + 1
      /\ \A i \in 1..Len(timers) : Append(timers, l)[i] = timers[i]
      /\ Append(timers, l)[Len(timers) + 1] = l /\ Len(timers) \in Nat
  BY AppendProperties, LenProperties
<1>4. CASE q[l] = <<>>
  <2>1. Len(timers') = Len(timers) + 1 /\ timers'[Len(timers) + 1] = l
        /\ Len(timers) + 1 \in 1..Len(timers')
    BY <1>1, <1>3, <1>4
  <2>. QED  BY <1>1, <1>2, <1>3, <1>4, <2>1
<1>5. CASE q[l] # <<>>
  BY <1>1, <1>2, <1>3, <1>5
<1>. QED  BY <1>4, <1>5

\* A reset of the device.
LEMMA ResetTypes ==
  ASSUME NEW states \in [Lines -> States], ResetInputs(states)
  PROVE  /\ queue' \in [Lines -> Seq(Events)] /\ \A l \in Lines : queue'[l] = <<>>
         /\ curstate' = states
         /\ curvector' \in [Lines -> Vectors] /\ storedVector' \in [Lines -> Vectors]
         /\ \A l \in Lines : curvector'[l] = DefaultVector /\ storedVector'[l] = DefaultVector
         /\ suspended' = {} /\ resets' = 1 - resets
BY LinesAssumption DEF ResetInputs

LEMMA TypedInit == Init => Typed
<1> SUFFICES ASSUME Init PROVE Typed
  OBVIOUS
<1>1. queue \in [Lines -> Seq(Events)] /\ \A l \in Lines : Len(queue[l]) = 0
  BY DEF Init
<1>2. timers \in Seq(Lines) /\ frames \in Seq(Frame) /\ Len(frames) = 0
  BY DEF Init
<1>. QED  BY <1>1, <1>2, LinesAssumption DEF Init, Typed, TypeOK, States

\* What TypeOK says of the calls follows from their type.
LEMMA FramesTyped ==
  ASSUME NEW fs \in Seq(Frame)
  PROVE  \A n \in 1..Len(fs) :
           /\ fs[n].line \in Lines /\ fs[n].next \in 1..(QueueSize + 1)
           /\ fs[n].giving \in States \cup {"none"}
           /\ fs[n].then # Nothing =>
                fs[n].then \in [state : States, vector : Vectors \cup {Stored}]
<1> SUFFICES ASSUME NEW n \in 1..Len(fs)
             PROVE  /\ fs[n].line \in Lines /\ fs[n].next \in 1..(QueueSize + 1)
                    /\ fs[n].giving \in States \cup {"none"}
                    /\ fs[n].then # Nothing =>
                         fs[n].then \in [state : States, vector : Vectors \cup {Stored}]
  OBVIOUS
<1>1. fs[n] \in Frame
  BY ElementOfSeq
<1>. QED  BY <1>1 DEF Frame, Then

\* The fields of the innermost call and the event it is about to apply.
LEMMA CurrentFacts ==
  ASSUME Typed, NEW l \in Lines, Applying(l)
  PROVE  /\ Top \in Frame /\ Top.line = l /\ Top.next \in 1..Len(queue[l])
         /\ Top.next <= QueueSize
         /\ Current = queue[l][Top.next] /\ Current \in Events
         /\ Current.state \in States /\ Current.vector \in Vectors
<1>1. Top \in Frame
  BY TopFacts DEF Typed, Applying
<1>2. queue[l] \in Seq(Events) /\ Len(queue[l]) \in Nat /\ Len(queue[l]) <= QueueSize
  BY LenProperties DEF Typed, TypeOK
<1>3. Top.line = l /\ Top.next <= Len(queue[l]) /\ frames # <<>>
  BY DEF Applying
<1>4. Top.next \in 1..Len(queue[l])
  BY <1>1, <1>2, <1>3, LinesAssumption DEF Frame
<1>5. queue[l][Top.next] \in Events
  BY <1>2, <1>4, ElementOfSeq
<1>. QED  BY <1>1, <1>2, <1>3, <1>4, <1>5, LinesAssumption DEF Current, Events

\* The types after a step, from those of the parts.
TypedNext ==
  /\ queue' \in [Lines -> Seq(Events)] /\ \A l \in Lines : Len(queue'[l]) <= QueueSize
  /\ curstate' \in [Lines -> States]
  /\ curvector' \in [Lines -> Vectors] /\ storedVector' \in [Lines -> Vectors]
  /\ suspended' \subseteq {"RESET", "HALT", "TRIGGER"}
  /\ timers' \in Seq(Lines) /\ writes' \in Nat /\ applied' \in {0, 1} /\ resets' \in {0, 1}
  /\ frames' \in Seq(Frame)

LEMMA TypedByParts == TypedNext => Typed'
BY FramesTyped DEF TypedNext, Typed, TypeOK

\* Writing a state, whether it is queued or empties the queue first.
LEMMA WriteTyped ==
  ASSUME Typed, NEW l \in Lines, NEW s \in States, NEW v \in Given,
         SetLine(l, s, v) \/ SetFullLine(l, s, v)
  PROVE  Typed'
<1>. USE LinesAssumption DEF inputs, history
<1>1. v \in Vectors \cup {Stored} /\ TypeOK /\ frames \in Seq(Frame)
  BY DEF Typed
<1>2. CASE SetLine(l, s, v)
  <2>1. Event(l, s, v) \in Events
    BY <1>1, EventType
  <2>2. /\ queue' \in [Lines -> Seq(Events)] /\ timers' \in Seq(Lines)
        /\ \A m \in Lines \ {l} : queue'[m] = queue[m]
        /\ Len(queue'[l]) = Len(queue[l]) + 1
    BY <1>1, <1>2, <2>1, EnqueueFacts, SMTT(20) DEF SetLine, TypeOK
  <2>3. \A m \in Lines : Len(queue[m]) \in Nat
    BY LenProperties, <1>1 DEF TypeOK
  <2>4. ASSUME NEW m \in Lines PROVE Len(queue'[m]) <= QueueSize
    <3>1. Len(queue[m]) <= QueueSize /\ Len(queue[l]) < QueueSize
      BY <1>1, <1>2 DEF SetLine, TypeOK
    <3>. QED  BY <2>2, <2>3, <3>1, SMTT(20)
  <2>5. writes' \in Nat
    BY <1>1, <1>2 DEF SetLine, Written, TypeOK
  <2>. QED  BY <1>1, <1>2, <2>2, <2>4, <2>5, TypedByParts DEF SetLine, TypeOK, TypedNext
<1>3. CASE SetFullLine(l, s, v)
  <2> DEFINE f == [line |-> l, next |-> 1, giving |-> "none", then |-> [state |-> s, vector |-> v]]
  <2>1. f \in Frame
    BY <1>1 DEF Frame, Then
  <2>2. frames' = Append(frames, f)
    BY <1>3 DEF SetFullLine
  <2>. HIDE DEF f
  <2>3. frames' \in Seq(Frame)
    BY <1>1, <2>1, <2>2, AppendProperties
  <2>5. writes' \in Nat
    BY <1>1, <1>3 DEF SetFullLine, Written, TypeOK
  <2>. QED  BY <1>1, <1>3, <2>3, <2>5, TypedByParts DEF SetFullLine, TypeOK, TypedNext
<1>. QED  BY <1>2, <1>3

\* An event of RESET that clears it: the device is reset, and every queue is empty.
ResetsDevice == Current.state # "assert" /\ "RESET" \in suspended

\* Applying an event leaves the queues as they are, except when it resets the device.
LEMMA ApplyTyped ==
  ASSUME Typed, NEW l \in Lines, Applying(l),
         \/ l = Reset /\ ApplyReset
         \/ l = Halt /\ ApplyHalt
         \/ l \in Irqs /\ ApplyIrq(l)
  PROVE  /\ Typed' /\ Applies /\ UNCHANGED <<timers, writes>>
         /\ curstate' = [curstate EXCEPT ![l] = Current.state]
         /\ \/ /\ UNCHANGED <<queue, storedVector, resets>>
               /\ curvector' = [curvector EXCEPT ![l] = Current.vector]
            \/ l = Reset /\ Current.state # "assert" /\ ResetInputs(curstate')
<1>. USE LinesAssumption DEF inputs, history
<1>1. /\ TypeOK /\ frames \in Seq(Frame) /\ frames # <<>> /\ Top.next <= QueueSize
      /\ Current.state \in States /\ Current.vector \in Vectors
  BY CurrentFacts DEF Typed, Applying
<1>2. Applies /\ UNCHANGED <<timers, writes>>
  BY <1>1 DEF ApplyReset, ApplyHalt, ApplyIrq, Applies
<1>3. frames' \in Seq(Frame) /\ applied' \in {0, 1}
  <2>1. frames' \in Seq(Frame) /\ applied' = 1 - applied
    BY <1>1, <1>2, AppliesFacts
  <2>. QED  BY <1>1, <2>1 DEF TypeOK
<1> DEFINE states == [curstate EXCEPT ![l] = Current.state]
           vectors == [curvector EXCEPT ![l] = Current.vector]
<1>4. states \in [Lines -> States] /\ vectors \in [Lines -> Vectors]
  BY <1>1 DEF TypeOK
<1>5. CASE l = Reset /\ ApplyReset /\ ResetsDevice
  <2>1. ResetInputs(states)
    BY <1>5 DEF ApplyReset, ResetsDevice
  <2>. HIDE DEF states
  <2>2. /\ queue' \in [Lines -> Seq(Events)] /\ \A m \in Lines : queue'[m] = <<>>
        /\ curstate' = states
        /\ curvector' \in [Lines -> Vectors] /\ storedVector' \in [Lines -> Vectors]
        /\ suspended' = {} /\ resets' = 1 - resets
    BY <1>4, <2>1, ResetTypes
  <2>3. \A m \in Lines : Len(queue'[m]) <= QueueSize
    BY <2>2
  <2>4. Typed'
    BY <1>1, <1>2, <1>3, <1>4, <2>2, <2>3, TypedByParts DEF TypedNext, TypeOK
  <2>. QED  BY <1>2, <1>5, <2>1, <2>2, <2>4 DEF states, ResetsDevice
<1>6. CASE /\ UNCHANGED <<queue, storedVector, resets>>
           /\ curstate' = states /\ curvector' = vectors
           /\ suspended' \subseteq suspended \cup {"RESET", "HALT"}
  <2>. HIDE DEF states, vectors
  <2>1. Typed'
    BY <1>1, <1>2, <1>3, <1>4, <1>6, TypedByParts DEF TypedNext, TypeOK
  <2>. QED  BY <1>2, <1>6, <2>1 DEF states, vectors
<1>7. CASE l = Reset /\ ApplyReset /\ ~ResetsDevice
  BY <1>6, <1>7 DEF ApplyReset, ResetsDevice
<1>8. CASE l = Halt /\ ApplyHalt
  BY <1>6, <1>8 DEF ApplyHalt
<1>9. CASE l \in Irqs /\ ApplyIrq(l)
  BY <1>6, <1>9 DEF ApplyIrq
<1>. QED  BY <1>5, <1>7, <1>8, <1>9

\* The fields of the innermost call, and what it may have to queue.
LEMMA LeftFacts ==
  ASSUME Typed, Left
  PROVE  /\ Top \in Frame /\ Top.line \in Lines /\ Below \in Seq(Frame)
         /\ Len(queue[Top.line]) < Top.next
         /\ Top.then # Nothing =>
              /\ Event(Top.line, Top.then.state, Top.then.vector) \in Events
              /\ Event(Top.line, Top.then.state, Top.then.vector).state = Top.then.state
<1>1. Top \in Frame /\ Below \in Seq(Frame)
  BY TopFacts DEF Typed, Left
<1>2. Top.line \in Lines /\ Top.then \in Then /\ Top.next \in Nat
  BY <1>1 DEF Frame
<1>3. Len(queue[Top.line]) < Top.next
  BY <1>2, LenProperties DEF Left, Typed, TypeOK
<1>4. ASSUME Top.then # Nothing
      PROVE  Top.then.state \in States /\ Top.then.vector \in Vectors \cup {Stored}
  BY <1>2, <1>4 DEF Then
<1>. QED  BY <1>1, <1>2, <1>3, <1>4, EventType DEF Typed

\* The end of empty_event_queue: the line's queue has the writer's event or none.
LEMMA ReturnFacts ==
  ASSUME Typed, Return, NEW l \in Lines, l = Top.line
  PROVE  /\ Typed' /\ frames' = Below
         /\ \A m \in Lines \ {l} : queue'[m] = queue[m]
         /\ queue'[l] = IF Top.then = Nothing THEN <<>>
                        ELSE <<Event(l, Top.then.state, Top.then.vector)>>
         /\ \A n \in 1..Len(timers) : n \in 1..Len(timers') /\ timers'[n] = timers[n]
         /\ Top.then # Nothing => \E n \in 1..Len(timers') : timers'[n] = l
<1>. USE SizeIsNat DEF inputs, history
<1> DEFINE emptied == [queue EXCEPT ![l] = <<>>]
           e == Event(l, Top.then.state, Top.then.vector)
<1>1. TypeOK /\ Left /\ frames' = Below /\ UNCHANGED <<inputs, suspended, writes, history>>
  BY DEF Typed, Return
<1>2. frames' \in Seq(Frame) /\ (Top.then # Nothing => e \in Events)
  BY <1>1, LeftFacts
<1>3. /\ emptied \in [Lines -> Seq(Events)] /\ emptied[l] = <<>>
      /\ \A m \in Lines \ {l} : emptied[m] = queue[m]
  BY <1>1 DEF TypeOK
<1>4. timers \in Seq(Lines) /\ \A m \in Lines : Len(queue[m]) <= QueueSize
  BY <1>1 DEF TypeOK
<1>5. CASE Top.then = Nothing
  <2>1. queue' = emptied /\ UNCHANGED timers
    BY <1>5 DEF Return
  <2>. HIDE DEF emptied
  <2>2. ASSUME NEW m \in Lines PROVE Len(queue'[m]) <= QueueSize
    <3>1. queue'[m] = <<>> \/ queue'[m] = queue[m]
      BY <1>3, <2>1
    <3>2. Len(queue[m]) <= QueueSize /\ Len(<<>>) <= QueueSize
      BY <1>4
    <3>. QED  BY <3>1, <3>2
  <2>. QED  BY <1>1, <1>2, <1>3, <1>4, <1>5, <2>1, <2>2, TypedByParts DEF TypedNext, TypeOK
<1>6. CASE Top.then # Nothing
  <2>1. Enqueue(emptied, l, e)
    BY <1>6 DEF Return
  <2>. HIDE DEF emptied, e
  <2>2. /\ queue' \in [Lines -> Seq(Events)] /\ timers' \in Seq(Lines)
        /\ \A m \in Lines \ {l} : queue'[m] = emptied[m]
        /\ queue'[l] = Append(emptied[l], e)
        /\ \A n \in 1..Len(timers) : n \in 1..Len(timers') /\ timers'[n] = timers[n]
        /\ \E n \in 1..Len(timers') : timers'[n] = l
    <3>1. e \in Events /\ timers \in Seq(Lines) /\ emptied[l] = <<>> /\ emptied \in [Lines -> Seq(Events)]
      BY <1>2, <1>3, <1>4, <1>6
    <3>2. queue'[l] = Append(emptied[l], e)
      BY <2>1, <3>1 DEF Enqueue
    <3>3. queue' \in [Lines -> Seq(Events)] /\ timers' \in Seq(Lines)
      BY <2>1, <3>1, EnqueueFacts
    <3>4. \A m \in Lines \ {l} : queue'[m] = emptied[m]
      BY <2>1, <3>1, EnqueueFacts
    <3>5. \A n \in 1..Len(timers) : n \in 1..Len(timers') /\ timers'[n] = timers[n]
      BY <2>1, <3>1, EnqueueFacts
    <3>6. \E n \in 1..Len(timers') : timers'[n] = l
      BY <2>1, <3>1, EnqueueFacts
    <3>. QED  BY <3>2, <3>3, <3>4, <3>5, <3>6
  <2>3. queue'[l] = <<e>> /\ Len(queue'[l]) = 1
    BY <1>3, <2>2
  <2>4. ASSUME NEW m \in Lines PROVE Len(queue'[m]) <= QueueSize
    <3>1. m = l \/ queue'[m] = queue[m]
      BY <1>3, <2>2
    <3>2. Len(queue[m]) <= QueueSize /\ Len(queue'[l]) <= QueueSize
      BY <1>4, <2>3
    <3>. QED  BY <3>1, <3>2
  <2>5. Typed'
    BY <1>1, <1>2, <2>2, <2>4, TypedByParts DEF TypedNext, TypeOK
  <2>. QED  BY <1>1, <1>3, <1>6, <2>2, <2>3, <2>5 DEF e
<1>. QED  BY <1>5, <1>6

\* The core has been given an event: queues and inputs are as they were.
LEMMA InputGivenFacts ==
  ASSUME Typed, InputGiven
  PROVE  /\ Typed' /\ UNCHANGED <<queue, inputs, timers, writes, history>>
         /\ Len(frames') = Len(frames) /\ Len(frames) \in Nat \ {0}
         /\ \A n \in 1..Len(frames) :
              /\ frames'[n].line = frames[n].line /\ frames'[n].next = frames[n].next
              /\ frames'[n].then = frames[n].then
<1>. USE DEF inputs, history
<1>1. /\ TypeOK /\ frames \in Seq(Frame) /\ frames # <<>> /\ CallReturns
      /\ UNCHANGED <<queue, inputs, timers, writes, history>> /\ suspended' \subseteq suspended
  BY DEF Typed, InputGiven, Giving
<1>2. /\ frames' \in Seq(Frame) /\ Len(frames') = Len(frames) /\ Len(frames) \in Nat \ {0}
      /\ \A n \in 1..Len(frames) :
           /\ frames'[n].line = frames[n].line /\ frames'[n].next = frames[n].next
           /\ frames'[n].then = frames[n].then
  BY <1>1, CallReturnsFacts
<1>3. Typed'
  BY <1>1, <1>2, TypedByParts DEF TypedNext, TypeOK
<1>. QED  BY <1>1, <1>2, <1>3

\* A timer fires: it is no longer set, and empty_event_queue begins.
LEMMA FireFacts ==
  ASSUME Typed, Fire
  PROVE  /\ Typed' /\ timers # <<>> /\ Head(timers) \in Lines /\ timers' = Tail(timers)
         /\ frames' = <<[line |-> Head(timers), next |-> 1, giving |-> "none", then |-> Nothing]>>
         /\ UNCHANGED <<queue, inputs, suspended, writes, history>>
<1>. USE LinesAssumption DEF inputs, history
<1> DEFINE f == [line |-> Head(timers), next |-> 1, giving |-> "none", then |-> Nothing]
<1>1. TypeOK /\ timers # <<>> /\ timers' = Tail(timers) /\ frames' = <<f>>
      /\ UNCHANGED <<queue, inputs, suspended, writes, history>>
  BY DEF Typed, Fire
<1>2. Head(timers) \in Lines /\ Tail(timers) \in Seq(Lines)
  BY <1>1, HeadTailProperties DEF TypeOK
<1>3. f \in Frame
  BY <1>2 DEF Frame, Then
<1>. HIDE DEF f
<1>4. frames' \in Seq(Frame)
  BY <1>1, <1>3
<1>5. Typed'
  BY <1>1, <1>2, <1>4, TypedByParts DEF TypedNext, TypeOK
<1>. QED  BY <1>1, <1>2, <1>5 DEF f

LEMMA TypedStep == Typed /\ [Next]_vars => Typed'
<1> SUFFICES ASSUME Typed, [Next]_vars PROVE Typed'
  OBVIOUS
<1>. USE LinesAssumption DEF inputs, history
<1>0. TypeOK /\ frames \in Seq(Frame)
  BY DEF Typed
<1>1. ASSUME NEW l \in Lines, NEW s \in States, NEW v \in Given, SetLine(l, s, v) \/ SetFullLine(l, s, v)
      PROVE  Typed'
  BY <1>1, WriteTyped
<1>2. ASSUME NEW l \in Irqs, Acknowledge(l) PROVE Typed'
  <2>0. l \in Lines /\ "clear" \in States
    BY DEF Lines, States
  <2>1. curstate' \in [Lines -> States]
    BY <1>0, <1>2, <2>0 DEF Acknowledge, TypeOK
  <2>. QED  BY <1>0, <1>2, <2>1, TypedByParts DEF Acknowledge, TypedNext, TypeOK
<1>3. ASSUME NEW l \in Irqs, NEW v \in Vectors, SetVector(l, v) PROVE Typed'
  <2>1. storedVector' \in [Lines -> Vectors]
    BY <1>0, <1>3 DEF SetVector, TypeOK
  <2>. QED  BY <1>0, <1>3, <2>1, TypedByParts DEF SetVector, TypedNext, TypeOK
<1>4. ASSUME Fire PROVE Typed'
  BY <1>4, FireFacts
<1>5. ASSUME EmptyQueue PROVE Typed'
  <2>0. Reset \in Lines /\ Halt \in Lines /\ Irqs \subseteq Lines
    BY DEF Lines
  <2>1. ASSUME ApplyReset PROVE Typed'
    <3>1. Applying(Reset)
      BY <2>1 DEF ApplyReset
    <3>. QED  BY <2>0, <2>1, <3>1, ApplyTyped
  <2>2. ASSUME ApplyHalt PROVE Typed'
    <3>1. Applying(Halt)
      BY <2>2 DEF ApplyHalt
    <3>. QED  BY <2>0, <2>2, <3>1, ApplyTyped
  <2>3. ASSUME NEW l \in Irqs, ApplyIrq(l) PROVE Typed'
    <3>1. Applying(l) /\ l \in Lines
      BY <2>0, <2>3 DEF ApplyIrq
    <3>. QED  BY <2>3, <3>1, ApplyTyped
  <2>4. ASSUME Return PROVE Typed'
    BY <2>4, ReturnFacts, LeftFacts DEF Return
  <2>5. ASSUME InputGiven PROVE Typed'
    BY <2>5, InputGivenFacts
  <2>. QED  BY <1>5, <2>1, <2>2, <2>3, <2>4, <2>5 DEF EmptyQueue
<1>6. ASSUME SpinUntilInterrupt PROVE Typed'
  BY <1>0, <1>6, TypedByParts DEF SpinUntilInterrupt, TypedNext, TypeOK
<1>7. ASSUME ResetDevice PROVE Typed'
  <2>1. /\ queue' \in [Lines -> Seq(Events)] /\ \A m \in Lines : queue'[m] = <<>>
        /\ curstate' = curstate
        /\ curvector' \in [Lines -> Vectors] /\ storedVector' \in [Lines -> Vectors]
        /\ suspended' = {} /\ resets' = 1 - resets
    BY <1>0, <1>7, ResetTypes DEF ResetDevice, TypeOK
  <2>2. \A m \in Lines : Len(queue'[m]) <= QueueSize
    BY <2>1
  <2>3. writes' \in Nat
    BY <1>0, <1>7 DEF ResetDevice, TypeOK
  <2>. QED  BY <1>0, <1>7, <2>1, <2>2, <2>3, TypedByParts DEF ResetDevice, TypedNext, TypeOK
<1>8. CASE UNCHANGED vars
  BY <1>0, <1>8, TypedByParts DEF vars, TypedNext, TypeOK
<1>. QED  BY <1>1, <1>2, <1>3, <1>4, <1>5, <1>6, <1>7, <1>8 DEF Next

\* The state has its type: device_input's fields, with m_qindex within m_queue, also
\* when callbacks come back to a line whose queue is being emptied.
THEOREM TypesKept == Spec => []TypeOK
<1>1. Spec => []Typed
  BY TypedInit, TypedStep, PTL DEF Spec
<1>2. Typed => TypeOK
  BY DEF Typed
<1>. QED  BY <1>1, <1>2, PTL

-----------------------------------------------------------------------------
(* Timers of queued events. *)

HasTimer(l) == \E n \in 1..Len(timers) : timers[n] = l
HasFrame(l) == \E n \in 1..Len(frames) : frames[n].line = l

\* A queue that has events has a timer, or a call in progress that will empty it.
Cared == \A l \in Lines : queue[l] # <<>> => HasTimer(l) \/ HasFrame(l)

\* Timers and calls that are not lost.
LEMMA TimerStays ==
  ASSUME NEW l, HasTimer(l),
         \A n \in 1..Len(timers) : n \in 1..Len(timers') /\ timers'[n] = timers[n]
  PROVE  HasTimer(l)'
BY DEF HasTimer

LEMMA FrameStays ==
  ASSUME NEW l, HasFrame(l),
         \A n \in 1..Len(frames) : n \in 1..Len(frames') /\ frames'[n].line = frames[n].line
  PROVE  HasFrame(l)'
BY DEF HasFrame

\* A step that adds no event to a queue and loses neither timer nor call.
LEMMA CaredKept ==
  ASSUME Cared, UNCHANGED timers, \A l \in Lines : queue'[l] \in {queue[l], <<>>},
         \A n \in 1..Len(frames) : n \in 1..Len(frames') /\ frames'[n].line = frames[n].line
  PROVE  Cared'
<1> SUFFICES ASSUME NEW l \in Lines, queue'[l] # <<>> PROVE HasTimer(l)' \/ HasFrame(l)'
  BY DEF Cared
<1>1. queue[l] # <<>>
  OBVIOUS
<1>2. CASE HasTimer(l)
  BY <1>2 DEF HasTimer
<1>3. CASE HasFrame(l)
  BY <1>3, FrameStays
<1>. QED  BY <1>1, <1>2, <1>3 DEF Cared

LEMMA CaredInit == Init => Cared
BY DEF Init, Cared

LEMMA CaredStep == Typed /\ Cared /\ [Next]_vars => Cared'
<1> SUFFICES ASSUME Typed, Cared, [Next]_vars PROVE Cared'
  OBVIOUS
<1>. USE LinesAssumption DEF inputs, history
<1>0. TypeOK /\ frames \in Seq(Frame) /\ timers \in Seq(Lines)
      /\ queue \in [Lines -> Seq(Events)]
  BY DEF Typed, TypeOK
<1>1. ASSUME NEW l \in Lines, NEW s \in States, NEW v \in Given, SetLine(l, s, v)
      PROVE  Cared'
  <2>1. Event(l, s, v) \in Events
    BY <1>0, EventType
  <2>2. /\ \A m \in Lines \ {l} : queue'[m] = queue[m]
        /\ \A n \in 1..Len(timers) : n \in 1..Len(timers') /\ timers'[n] = timers[n]
        /\ queue[l] = <<>> => \E n \in 1..Len(timers') : timers'[n] = l
        /\ UNCHANGED frames
    BY <1>0, <1>1, <2>1, EnqueueFacts DEF SetLine
  <2> SUFFICES ASSUME NEW m \in Lines, queue'[m] # <<>> PROVE HasTimer(m)' \/ HasFrame(m)'
    BY DEF Cared
  <2>3. CASE m = l /\ queue[l] = <<>>
    BY <2>2, <2>3 DEF HasTimer
  <2>4. CASE queue[m] # <<>>
    <3>1. HasTimer(m) => HasTimer(m)'
      BY <2>2, TimerStays
    <3>2. HasFrame(m) => HasFrame(m)'
      BY <2>2 DEF HasFrame
    <3>. QED  BY <2>4, <3>1, <3>2 DEF Cared
  <2>. QED  BY <2>2, <2>3, <2>4
<1>2. ASSUME NEW l \in Lines, NEW s \in States, NEW v \in Given, SetFullLine(l, s, v)
      PROVE  Cared'
  <2> DEFINE f == [line |-> l, next |-> 1, giving |-> "none", then |-> [state |-> s, vector |-> v]]
  <2>1. f \in Frame
    BY DEF Frame, Then
  <2>2. frames' = Append(frames, f) /\ UNCHANGED <<queue, timers>>
    BY <1>2 DEF SetFullLine
  <2>. HIDE DEF f
  <2>3. \A n \in 1..Len(frames) : n \in 1..Len(frames') /\ frames'[n].line = frames[n].line
    BY <1>0, <2>1, <2>2, AppendProperties
  <2>. QED  BY <2>2, <2>3, CaredKept
<1>4. ASSUME Fire PROVE Cared'
  <2>1. /\ timers # <<>> /\ timers' = Tail(timers) /\ Len(timers) \in Nat \ {0}
        /\ frames = <<>> /\ frames' = <<[line |-> Head(timers), next |-> 1, giving |-> "none", then |-> Nothing]>>
        /\ UNCHANGED queue /\ Head(timers) = timers[1]
    BY <1>0, <1>4 DEF Fire, Outside
  <2>2. Len(timers') = Len(timers) - 1 /\ \A n \in 1..(Len(timers) - 1) : timers'[n] = timers[n + 1]
    BY <1>0, <2>1, HeadTailProperties
  <2> SUFFICES ASSUME NEW m \in Lines, queue'[m] # <<>> PROVE HasTimer(m)' \/ HasFrame(m)'
    BY DEF Cared
  <2>3. PICK n \in 1..Len(timers) : timers[n] = m
    BY <2>1 DEF Cared, HasTimer, HasFrame
  <2>4. CASE n = 1
    BY <2>1, <2>3, <2>4 DEF HasFrame
  <2>5. CASE n # 1
    <3>1. n - 1 \in 1..Len(timers') /\ timers'[n - 1] = m
      BY <2>1, <2>2, <2>3, <2>5
    <3>. QED  BY <3>1 DEF HasTimer
  <2>. QED  BY <2>4, <2>5
<1>5. ASSUME NEW l \in Lines, Applying(l),
             \/ l = Reset /\ ApplyReset
             \/ l = Halt /\ ApplyHalt
             \/ l \in Irqs /\ ApplyIrq(l)
      PROVE  Cared'
  <2>1. Applies /\ UNCHANGED timers /\ \A m \in Lines : queue'[m] \in {queue[m], <<>>}
    BY <1>5, ApplyTyped DEF ResetInputs
  <2>2. frames # <<>> /\ Top.next <= QueueSize
    BY <1>5, CurrentFacts DEF Applying
  <2>3. /\ Len(frames') = Len(frames) /\ Len(frames) \in Nat \ {0} /\ Top = frames[Len(frames)]
        /\ \A n \in 1..(Len(frames) - 1) : frames'[n] = frames[n]
        /\ frames'[Len(frames)].line = Top.line
    BY <1>0, <2>1, <2>2, AppliesFacts DEF Top
  <2>4. \A n \in 1..Len(frames) : n \in 1..Len(frames') /\ frames'[n].line = frames[n].line
    BY <2>3
  <2>. QED  BY <2>1, <2>4, CaredKept
<1>6. ASSUME Return PROVE Cared'
  <2>1. Left /\ frames # <<>>
    BY <1>6 DEF Return, Left
  <2>2. PICK l \in Lines : l = Top.line
    BY <2>1, LeftFacts
  <2>3. /\ frames' = Below
        /\ \A m \in Lines \ {l} : queue'[m] = queue[m]
        /\ queue'[l] # <<>> => \E n \in 1..Len(timers') : timers'[n] = l
        /\ \A n \in 1..Len(timers) : n \in 1..Len(timers') /\ timers'[n] = timers[n]
    BY <1>6, <2>2, ReturnFacts
  <2>4. /\ Len(frames) \in Nat \ {0} /\ Len(Below) = Len(frames) - 1
        /\ \A n \in 1..(Len(frames) - 1) : Below[n] = frames[n]
        /\ frames[Len(frames)].line = l
    BY <1>0, <2>1, <2>2, TopFacts
  <2> SUFFICES ASSUME NEW m \in Lines, queue'[m] # <<>> PROVE HasTimer(m)' \/ HasFrame(m)'
    BY DEF Cared
  <2>5. CASE m = l
    BY <2>3, <2>5 DEF HasTimer
  <2>6. CASE m # l
    <3>1. HasTimer(m) \/ HasFrame(m)
      BY <2>3, <2>6 DEF Cared
    <3>2. HasTimer(m) => HasTimer(m)'
      BY <2>3, TimerStays
    <3>3. ASSUME HasFrame(m) PROVE HasFrame(m)'
      <4>1. PICK n \in 1..Len(frames) : frames[n].line = m
        BY <3>3 DEF HasFrame
      <4>2. n \in 1..Len(frames') /\ frames'[n].line = m
        BY <2>3, <2>4, <2>6, <4>1
      <4>. QED  BY <4>2 DEF HasFrame
    <3>. QED  BY <3>1, <3>2, <3>3
  <2>. QED  BY <2>5, <2>6
<1>7. ASSUME ResetDevice PROVE Cared'
  BY <1>7 DEF ResetDevice, ResetInputs, Cared
<1>8. ASSUME UNCHANGED <<queue, timers, frames>> PROVE Cared'
  BY <1>8 DEF Cared, HasTimer, HasFrame
<1>9. ASSUME NEW l \in Irqs, Acknowledge(l) \/ \E v \in Vectors : SetVector(l, v) PROVE Cared'
  BY <1>8, <1>9 DEF Acknowledge, SetVector
<1>10. ASSUME SpinUntilInterrupt \/ UNCHANGED vars PROVE Cared'
  BY <1>8, <1>10 DEF SpinUntilInterrupt, vars
<1>11. ASSUME EmptyQueue PROVE Cared'
  <2>0. Reset \in Lines /\ Halt \in Lines /\ Irqs \subseteq Lines
    BY DEF Lines
  <2>1. ASSUME ApplyReset PROVE Cared'
    BY <1>5, <2>0, <2>1 DEF ApplyReset
  <2>2. ASSUME ApplyHalt PROVE Cared'
    BY <1>5, <2>0, <2>2 DEF ApplyHalt
  <2>3. ASSUME NEW l \in Irqs, ApplyIrq(l) PROVE Cared'
    <3>1. Applying(l) /\ l \in Lines
      BY <2>0, <2>3 DEF ApplyIrq
    <3>. QED  BY <1>5, <2>3, <3>1
  <2>4. ASSUME InputGiven PROVE Cared'
    <3>1. UNCHANGED <<queue, timers>>
      BY <2>4 DEF InputGiven
    <3>2. \A n \in 1..Len(frames) : n \in 1..Len(frames') /\ frames'[n].line = frames[n].line
      BY <2>4, InputGivenFacts
    <3>. QED  BY <3>1, <3>2, CaredKept
  <2>. QED  BY <1>6, <1>11, <2>1, <2>2, <2>3, <2>4 DEF EmptyQueue
<1>. QED  BY <1>1, <1>2, <1>4, <1>7, <1>9, <1>10, <1>11 DEF Next

\* Events that are queued have a timer that will apply them, also when a writer that
\* found the queue full, or a reset, has emptied it meanwhile, and when callbacks come
\* back to the line: the one who queues the first event sets a timer (diexec.cpp:787-791).
THEOREM QueuedHasTimer == Spec => []QueueHasTimer
<1>1. Cared => QueueHasTimer
  BY DEF Cared, HasTimer, HasFrame, QueueHasTimer, Outside
<1>. QED  BY <1>1, TypedInit, TypedStep, CaredInit, CaredStep, PTL DEF Spec

-----------------------------------------------------------------------------
(* The order of events. *)

\* What is left of a queue, and behind it r: its first event and the rest.
LEMMA SuffixFacts ==
  ASSUME NEW S, NEW q \in Seq(S), NEW n \in 1..Len(q), NEW r \in Seq(S)
  PROVE  /\ SubSeq(q, n, Len(q)) \o r # <<>>
         /\ Head(SubSeq(q, n, Len(q)) \o r) = q[n]
         /\ Tail(SubSeq(q, n, Len(q)) \o r) = SubSeq(q, n + 1, Len(q)) \o r
<1> DEFINE a == SubSeq(q, n, Len(q))
           b == SubSeq(q, n + 1, Len(q))
<1>1. Len(q) \in Nat /\ n \in Int /\ n + 1 \in Int /\ \A i \in 1..Len(q) : q[i] \in S
  BY LenProperties, ElementOfSeq
<1>2. /\ a \in Seq(S) /\ Len(a) = Len(q) - n + 1
      /\ \A i \in 1..(Len(q) - n + 1) : a[i] = q[n + i - 1]
  <2>1. \A i \in n..Len(q) : q[i] \in S
    BY <1>1
  <2>2. /\ a \in Seq(S) /\ Len(a) = IF n <= Len(q) THEN Len(q) - n + 1 ELSE 0
        /\ \A i \in 1..(Len(q) - n + 1) : a[i] = q[n + i - 1]
    BY <1>1, <2>1, SubSeqProperties
  <2>. QED  BY <1>1, <2>2
<1>3. /\ b \in Seq(S) /\ Len(b) = Len(q) - n
      /\ \A i \in 1..(Len(q) - n) : b[i] = q[n + i]
  <2>1. \A i \in (n + 1)..Len(q) : q[i] \in S
    BY <1>1
  <2>2. /\ b \in Seq(S) /\ Len(b) = IF n + 1 <= Len(q) THEN Len(q) - (n + 1) + 1 ELSE 0
        /\ \A i \in 1..(Len(q) - (n + 1) + 1) : b[i] = q[n + 1 + i - 1]
    BY <1>1, <2>1, SubSeqProperties
  <2>3. Len(b) = Len(q) - n
    BY <1>1, <2>2
  <2>4. ASSUME NEW i \in 1..(Len(q) - n) PROVE b[i] = q[n + i]
    <3>1. i \in 1..(Len(q) - (n + 1) + 1) /\ n + 1 + i - 1 = n + i
      BY <1>1
    <3>. QED  BY <2>2, <3>1
  <2>. QED  BY <2>2, <2>3, <2>4
<1>. HIDE DEF a, b
<1>4. Len(r) \in Nat
  BY LenProperties
<1> DEFINE ar == a \o r
           br == b \o r
<1>5. /\ ar \in Seq(S) /\ Len(ar) = Len(a) + Len(r)
      /\ \A i \in 1..(Len(a) + Len(r)) : ar[i] = IF i <= Len(a) THEN a[i] ELSE r[i - Len(a)]
  BY <1>2, ConcatProperties
<1>6. /\ br \in Seq(S) /\ Len(br) = Len(b) + Len(r)
      /\ \A i \in 1..(Len(b) + Len(r)) : br[i] = IF i <= Len(b) THEN b[i] ELSE r[i - Len(b)]
  BY <1>3, ConcatProperties
<1>. HIDE DEF ar, br
<1>7. ar # <<>> /\ Len(ar) \in Nat \ {0}
  BY <1>1, <1>2, <1>4, <1>5
<1>8. Head(ar) = ar[1] /\ ar[1] = q[n]
  <2>1. ar[1] = a[1] /\ a[1] = q[n + 1 - 1]
    BY <1>1, <1>2, <1>4, <1>5, SMTT(30)
  <2>. QED  BY <1>1, <1>5, <1>7, <2>1
<1>9. /\ Tail(ar) \in Seq(S) /\ Len(Tail(ar)) = Len(ar) - 1
      /\ \A i \in 1..Len(Tail(ar)) : Tail(ar)[i] = ar[i + 1]
  BY <1>5, <1>7, HeadTailProperties
<1>10. Len(Tail(ar)) = Len(br)
  BY <1>1, <1>2, <1>3, <1>4, <1>5, <1>6, <1>9
<1>11. ASSUME NEW i \in 1..Len(br) PROVE Tail(ar)[i] = br[i]
  <2>1. Tail(ar)[i] = ar[i + 1] /\ i + 1 \in 1..(Len(a) + Len(r)) /\ i \in 1..(Len(b) + Len(r))
    BY <1>1, <1>2, <1>3, <1>4, <1>5, <1>6, <1>9, <1>10
  <2>2. CASE i <= Len(b)
    <3>0. i + 1 <= Len(a) /\ i \in 1..(Len(q) - n)
      BY <1>1, <1>2, <1>3, <2>1, <2>2
    <3>1. ar[i + 1] = a[i + 1] /\ br[i] = b[i] /\ b[i] = q[n + i]
      <4>1. ar[i + 1] = a[i + 1]
        BY <1>5, <2>1, <3>0
      <4>2. br[i] = b[i]
        BY <1>6, <2>1, <2>2
      <4>3. b[i] = q[n + i]
        BY <1>3, <3>0
      <4>. QED  BY <4>1, <4>2, <4>3
    <3>2. i + 1 \in 1..(Len(q) - n + 1) /\ n + (i + 1) - 1 = n + i
      BY <1>1, <1>3, <2>2
    <3>3. a[i + 1] = q[n + (i + 1) - 1]
      BY <1>2, <3>2
    <3>. QED  BY <2>1, <3>1, <3>2, <3>3
  <2>3. CASE i > Len(b)
    <3> DEFINE j == i - Len(b)
    <3>1. ~(i + 1 <= Len(a)) /\ i + 1 - Len(a) = j /\ ~(i <= Len(b))
      BY <1>1, <1>2, <1>3, <2>3
    <3>2. ar[i + 1] = r[j]
      <4> DEFINE k == i + 1 - Len(a)
      <4>1. ar[i + 1] = r[k]
        BY <1>5, <2>1, <3>1
      <4>2. k = j
        BY <3>1
      <4>. HIDE DEF j, k
      <4>. QED  BY <4>1, <4>2
    <3>3. br[i] = r[j]
      BY <1>6, <2>1, <3>1
    <3>4. Tail(ar)[i] = ar[i + 1]
      BY <2>1
    <3>. HIDE DEF j
    <3>. QED  BY <3>2, <3>3, <3>4
  <2>4. i <= Len(b) \/ i > Len(b)
    BY <1>1, <1>3, <2>1
  <2>. QED  BY <2>2, <2>3, <2>4
<1>12. Tail(ar) = br
  BY <1>6, <1>9, <1>10, <1>11, SeqEqual
<1>. QED  BY <1>7, <1>8, <1>12 DEF a, b, ar, br

\* What a writer that found the queue of l full has still to queue.
Rest(l, t) == IF t = Nothing THEN <<>> ELSE <<Event(l, t.state, t.vector)>>

\* No two calls in progress empty the queue of one line.
Distinct ==
  \A m, n \in 1..Len(frames) : frames[m].line = frames[n].line => m = n

\* What a line owes, by whether a call that empties its queue is in progress.
OwedRight ==
  \A l \in Lines :
    /\ ~HasFrame(l) => Owed(l) = queue[l]
    /\ \A k \in 1..Len(frames) : frames[k].line = l =>
         Owed(l) = SubSeq(queue[l], frames[k].next, Len(queue[l])) \o Rest(l, frames[k].then)

LEMMA OwedIsRight == Typed /\ Distinct => OwedRight
<1> SUFFICES ASSUME Typed, Distinct, NEW l \in Lines
             PROVE  /\ ~HasFrame(l) => Owed(l) = queue[l]
                    /\ \A k \in 1..Len(frames) : frames[k].line = l =>
                         Owed(l) = SubSeq(queue[l], frames[k].next, Len(queue[l]))
                                   \o Rest(l, frames[k].then)
  BY DEF OwedRight
<1> DEFINE mine == {n \in 1..Len(frames) : frames[n].line = l}
<1>1. ~HasFrame(l) => Owed(l) = queue[l]
  <2>1. ~HasFrame(l) => mine = {}
    BY DEF HasFrame
  <2>. QED  BY <2>1 DEF Owed
<1>2. ASSUME NEW k \in 1..Len(frames), frames[k].line = l
      PROVE  Owed(l) = SubSeq(queue[l], frames[k].next, Len(queue[l])) \o Rest(l, frames[k].then)
  <2>1. mine = {k} /\ k \in Int
    BY <1>2, LenProperties DEF Distinct, Typed
  <2> DEFINE last == CHOOSE n \in mine : \A m \in mine : m <= n
  <2>2. last = k
    BY <2>1
  <2>3. mine # {}
    BY <2>1
  <2>. HIDE DEF mine
  <2>4. Owed(l) = IF mine = {} THEN queue[l]
                  ELSE SubSeq(queue[l], frames[last].next, Len(queue[l]))
                       \o (IF frames[last].then = Nothing THEN <<>>
                           ELSE <<Event(l, frames[last].then.state, frames[last].then.vector)>>)
    BY DEF Owed, mine
  <2>. HIDE DEF last
  <2>. QED  BY <2>2, <2>3, <2>4 DEF Rest
<1>. QED  BY <1>1, <1>2

\* The lines whose queues are being emptied, each by a callback of the one before, go
\* down in an order of the lines in which callbacks do.
Ordered(rank) ==
  rank \in [Lines -> Nat] /\ \A l \in Lines : \A m \in Answers(l) : rank[m] < rank[l]

Descends(rank) ==
  \A m, n \in 1..Len(frames) : m < n => rank[frames[n].line] < rank[frames[m].line]

LEMMA LinesOfFrames ==
  ASSUME NEW fs \in Seq(Frame), NEW rank, Ordered(rank), NEW n \in 1..Len(fs)
  PROVE  fs[n].line \in Lines /\ rank[fs[n].line] \in Nat
BY FramesTyped DEF Ordered

\* A line that is written is below the lines whose queues are being emptied.
LEMMA WrittenIsBelow ==
  ASSUME NEW rank, Ordered(rank), Typed, Descends(rank), NEW l \in Lines,
         Outside \/ Inside(l)
  PROVE  \A n \in 1..Len(frames) : rank[l] < rank[frames[n].line]
<1> SUFFICES ASSUME NEW n \in 1..Len(frames) PROVE rank[l] < rank[frames[n].line]
  OBVIOUS
<1>1. frames \in Seq(Frame) /\ Len(frames) \in Nat
  BY LenProperties DEF Typed
<1>2. frames # <<>> /\ Inside(l)
  BY <1>1 DEF Outside
<1>3. Len(frames) \in 1..Len(frames)
  BY <1>1
<1>4. l \in Answers(frames[Len(frames)].line)
  BY <1>2 DEF Inside, Top
<1>5. frames[Len(frames)].line \in Lines /\ rank[frames[Len(frames)].line] \in Nat
      /\ rank[frames[n].line] \in Nat /\ rank[l] \in Nat
  BY <1>1, <1>3, LinesOfFrames DEF Ordered
<1>6. rank[l] < rank[frames[Len(frames)].line]
  BY <1>4, <1>5 DEF Ordered
<1>7. CASE n = Len(frames)
  BY <1>6, <1>7
<1>8. CASE n < Len(frames)
  <2>1. rank[frames[Len(frames)].line] < rank[frames[n].line]
    BY <1>3, <1>8 DEF Descends
  <2>. QED  BY <1>5, <1>6, <2>1
<1>. QED  BY <1>1, <1>7, <1>8

LEMMA DescendsIsDistinct ==
  ASSUME NEW rank, Ordered(rank), Typed, Descends(rank) PROVE Distinct
<1> SUFFICES ASSUME NEW m \in 1..Len(frames), NEW n \in 1..Len(frames),
                    frames[m].line = frames[n].line, m # n
             PROVE  FALSE
  BY DEF Distinct
<1>1. frames \in Seq(Frame)
  BY DEF Typed
<1>2. rank[frames[m].line] \in Nat /\ m \in Int /\ n \in Int
  BY <1>1, LinesOfFrames, LenProperties
<1>3. m < n \/ n < m
  BY <1>2
<1>4. rank[frames[m].line] < rank[frames[m].line]
  BY <1>3 DEF Descends
<1>. QED  BY <1>2, <1>4

LEMMA DescendsInit == ASSUME NEW rank PROVE Init => Descends(rank)
BY DEF Init, Descends

\* Calls that were in progress and still are, of the same lines.
LEMMA DescendsKept ==
  ASSUME NEW rank, Descends(rank), Len(frames) \in Nat, Len(frames') \in Nat, Len(frames') <= Len(frames),
         \A n \in 1..Len(frames') : frames'[n].line = frames[n].line
  PROVE  Descends(rank)'
<1> SUFFICES ASSUME NEW m \in 1..Len(frames'), NEW n \in 1..Len(frames'), m < n
             PROVE  rank[frames'[n].line] < rank[frames'[m].line]
  BY DEF Descends
<1>1. m \in 1..Len(frames) /\ n \in 1..Len(frames)
  OBVIOUS
<1>. QED  BY <1>1 DEF Descends

\* What each action of empty_event_queue does to the calls in progress.
LEMMA EmptyQueueCalls ==
  ASSUME Typed, EmptyQueue
  PROVE  /\ Len(frames) \in Nat /\ Len(frames') \in Nat /\ Len(frames') <= Len(frames)
         /\ \A n \in 1..Len(frames') : frames'[n].line = frames[n].line
<1>. USE LinesAssumption
<1>0. frames \in Seq(Frame)
  BY DEF Typed
<1>1. ASSUME NEW l \in Lines, Applying(l), Applies
      PROVE  /\ Len(frames) \in Nat /\ Len(frames') \in Nat /\ Len(frames') <= Len(frames)
             /\ \A n \in 1..Len(frames') : frames'[n].line = frames[n].line
  <2>1. frames # <<>> /\ Top.next <= QueueSize
    BY <1>1, CurrentFacts DEF Applying
  <2>2. /\ Len(frames') = Len(frames) /\ Len(frames) \in Nat \ {0} /\ Top = frames[Len(frames)]
        /\ \A n \in 1..(Len(frames) - 1) : frames'[n] = frames[n]
        /\ frames'[Len(frames)].line = Top.line
    BY <1>0, <1>1, <2>1, AppliesFacts DEF Top
  <2>. QED  BY <2>2
<1>2. ASSUME Return
      PROVE  /\ Len(frames) \in Nat /\ Len(frames') \in Nat /\ Len(frames') <= Len(frames)
             /\ \A n \in 1..Len(frames') : frames'[n].line = frames[n].line
  <2>1. frames # <<>> /\ frames' = Below
    BY <1>2 DEF Return, Left
  <2>2. /\ Len(frames) \in Nat \ {0} /\ Len(Below) = Len(frames) - 1
        /\ \A n \in 1..(Len(frames) - 1) : Below[n] = frames[n]
    BY <1>0, <2>1, TopFacts
  <2>. QED  BY <2>1, <2>2
<1>3. Reset \in Lines /\ Halt \in Lines /\ Irqs \subseteq Lines
  BY DEF Lines
<1>4. CASE ApplyReset
  BY <1>1, <1>3, <1>4 DEF ApplyReset, Applies
<1>5. CASE ApplyHalt
  BY <1>1, <1>3, <1>5 DEF ApplyHalt, Applies
<1>6. ASSUME NEW l \in Irqs, ApplyIrq(l)
      PROVE  /\ Len(frames) \in Nat /\ Len(frames') \in Nat /\ Len(frames') <= Len(frames)
             /\ \A n \in 1..Len(frames') : frames'[n].line = frames[n].line
  <2>1. Applying(l) /\ l \in Lines /\ Apply(Current.state)
    BY <1>3, <1>6 DEF ApplyIrq
  <2>2. Current.state \in States
    BY <2>1, CurrentFacts
  <2>. QED  BY <1>1, <2>1, <2>2 DEF Applies
<1>7. CASE InputGiven
  BY <1>7, InputGivenFacts
<1>. QED  BY <1>2, <1>4, <1>5, <1>6, <1>7 DEF EmptyQueue

LEMMA DescendsStep ==
  ASSUME NEW rank, Ordered(rank)
  PROVE  Typed /\ Descends(rank) /\ [Next]_vars => Descends(rank)'
<1> SUFFICES ASSUME Typed, Descends(rank), [Next]_vars PROVE Descends(rank)'
  OBVIOUS
<1>0. frames \in Seq(Frame) /\ Len(frames) \in Nat
  BY LenProperties DEF Typed
<1>1. ASSUME UNCHANGED frames PROVE Descends(rank)'
  BY <1>1 DEF Descends
<1>2. ASSUME NEW l \in Lines, NEW s \in States, NEW v \in Given, SetFullLine(l, s, v)
      PROVE  Descends(rank)'
  <2> DEFINE f == [line |-> l, next |-> 1, giving |-> "none", then |-> [state |-> s, vector |-> v]]
  <2>1. f \in Frame /\ f.line = l
    BY LinesAssumption DEF Frame, Then
  <2>2. frames' = Append(frames, f) /\ (Outside \/ Inside(l))
    BY <1>2 DEF SetFullLine, Written
  <2>. HIDE DEF f
  <2>3. /\ Len(frames') = Len(frames) + 1 /\ frames'[Len(frames) + 1] = f
        /\ \A n \in 1..Len(frames) : frames'[n] = frames[n]
    BY <1>0, <2>1, <2>2, AppendProperties
  <2>4. \A n \in 1..Len(frames) : rank[l] < rank[frames[n].line]
    BY <2>2, WrittenIsBelow
  <2> SUFFICES ASSUME NEW m \in 1..Len(frames'), NEW n \in 1..Len(frames'), m < n
               PROVE  rank[frames'[n].line] < rank[frames'[m].line]
    BY DEF Descends
  <2>5. m \in 1..Len(frames) /\ frames'[m] = frames[m]
    BY <1>0, <2>3
  <2>6. CASE n = Len(frames) + 1
    BY <2>1, <2>3, <2>4, <2>5, <2>6
  <2>7. CASE n # Len(frames) + 1
    <3>1. n \in 1..Len(frames) /\ frames'[n] = frames[n]
      BY <1>0, <2>3, <2>7
    <3>. QED  BY <2>5, <3>1 DEF Descends
  <2>. QED  BY <2>6, <2>7
<1>3. ASSUME Fire PROVE Descends(rank)'
  <2>1. Len(frames') = 1
    BY <1>3 DEF Fire
  <2>. QED  BY <2>1 DEF Descends
<1>4. ASSUME EmptyQueue PROVE Descends(rank)'
  BY <1>4, EmptyQueueCalls, DescendsKept
<1>5. ASSUME NEW l \in Lines, NEW s \in States, NEW v \in Given, SetLine(l, s, v)
      PROVE  Descends(rank)'
  BY <1>1, <1>5 DEF SetLine
<1>6. ASSUME NEW l \in Irqs, Acknowledge(l) \/ \E v \in Vectors : SetVector(l, v)
      PROVE  Descends(rank)'
  BY <1>1, <1>6 DEF Acknowledge, SetVector
<1>7. ASSUME SpinUntilInterrupt \/ ResetDevice \/ UNCHANGED vars PROVE Descends(rank)'
  BY <1>1, <1>7 DEF SpinUntilInterrupt, ResetDevice, vars
<1>. QED  BY <1>2, <1>3, <1>4, <1>5, <1>6, <1>7 DEF Next

-----------------------------------------------------------------------------
(* Every step is one of LineEvents, or none. *)

\* What LineEvents is told of the state.
owed == [l \in Lines |-> Owed(l)]
seen == [l \in Lines |-> [state |-> curstate[l], vector |-> curvector[l]]]

\* A line whose queue is the same and whose call, if there is one, has not gone on.
LEMMA OwedSame ==
  ASSUME OwedRight, OwedRight', NEW m \in Lines, queue'[m] = queue[m], UNCHANGED storedVector,
         \A k \in 1..Len(frames) : frames[k].line = m =>
           /\ k \in 1..Len(frames') /\ frames'[k].line = frames[k].line
           /\ frames'[k].next = frames[k].next /\ frames'[k].then = frames[k].then,
         HasFrame(m)' => HasFrame(m)
  PROVE  Owed(m)' = Owed(m)
<1>1. CASE HasFrame(m)
  <2>1. PICK k \in 1..Len(frames) : frames[k].line = m
    BY <1>1 DEF HasFrame
  <2>2. /\ k \in 1..Len(frames') /\ frames'[k].line = frames[k].line
        /\ frames'[k].next = frames[k].next /\ frames'[k].then = frames[k].then
    BY <2>1
  <2>3. Owed(m) = SubSeq(queue[m], frames[k].next, Len(queue[m])) \o Rest(m, frames[k].then)
    BY <2>1 DEF OwedRight
  <2>4. Owed(m)' = SubSeq(queue'[m], frames'[k].next, Len(queue'[m])) \o Rest(m, frames[k].then)'
    BY <2>1, <2>2 DEF OwedRight
  <2>5. Rest(m, frames[k].then)' = Rest(m, frames[k].then)
    BY <2>2 DEF Rest, Event
  <2>. QED  BY <2>2, <2>3, <2>4, <2>5
<1>2. CASE ~HasFrame(m)
  BY <1>2 DEF OwedRight
<1>. QED  BY <1>1, <1>2

\* What is to be queued is an event or nothing.
LEMMA RestType ==
  ASSUME Typed, NEW k \in 1..Len(frames), NEW l \in Lines
  PROVE  Rest(l, frames[k].then) \in Seq(Events)
<1>1. frames[k].then # Nothing =>
        frames[k].then.state \in States /\ frames[k].then.vector \in Vectors \cup {Stored}
  BY FramesTyped DEF Typed
<1>2. frames[k].then # Nothing =>
        Event(l, frames[k].then.state, frames[k].then.vector) \in Events
  BY <1>1, EventType DEF Typed
<1>. QED  BY <1>2 DEF Rest

LEMMA OwedType ==
  ASSUME Typed, OwedRight, NEW l \in Lines PROVE Owed(l) \in Seq(Events)
<1>1. queue[l] \in Seq(Events) /\ Len(queue[l]) \in Nat
  BY LenProperties DEF Typed, TypeOK
<1>2. ASSUME NEW k \in 1..Len(frames), frames[k].line = l PROVE Owed(l) \in Seq(Events)
  <2>1. frames[k].next \in Nat \ {0}
    BY FramesTyped, LinesAssumption DEF Typed
  <2> DEFINE a == SubSeq(queue[l], frames[k].next, Len(queue[l]))
             b == Rest(l, frames[k].then)
  <2>2. \A i \in frames[k].next..Len(queue[l]) : queue[l][i] \in Events
    BY <1>1, <2>1, ElementOfSeq
  <2>3. a \in Seq(Events)
    BY <1>1, <2>1, <2>2, SubSeqProperties
  <2>4. b \in Seq(Events)
    BY RestType
  <2>5. Owed(l) = a \o b
    BY <1>2 DEF OwedRight
  <2>. HIDE DEF a, b
  <2>. QED  BY <2>3, <2>4, <2>5, ConcatProperties
<1>. QED  BY <1>1, <1>2 DEF OwedRight, HasFrame

\* Applying an event that does not reset the device delivers it.
LEMMA Delivers ==
  ASSUME Typed, OwedRight, OwedRight', Distinct, NEW l \in Lines, Applying(l), Applies,
         UNCHANGED <<queue, storedVector, resets>>,
         curstate' = [curstate EXCEPT ![l] = Current.state],
         curvector' = [curvector EXCEPT ![l] = Current.vector]
  PROVE  LineOrder!Deliver(l)
<1>1. /\ Top.line = l /\ Top.next \in 1..Len(queue[l]) /\ Top.next <= QueueSize
      /\ Current = queue[l][Top.next] /\ Current \in Events /\ frames # <<>>
  BY CurrentFacts DEF Applying
<1>2. /\ frames \in Seq(Frame) /\ queue[l] \in Seq(Events)
      /\ curstate \in [Lines -> States] /\ curvector \in [Lines -> Vectors]
  BY DEF Typed, TypeOK
<1> DEFINE k == Len(frames)
           q == queue[l]
           n == Top.next
           r == Rest(l, frames[k].then)
<1>3. /\ k \in Nat \ {0} /\ Len(frames') = k /\ Top = frames[k]
      /\ \A i \in 1..(k - 1) : frames'[i] = frames[i]
      /\ frames'[k].line = l /\ frames'[k].then = frames[k].then /\ frames'[k].next = n + 1
      /\ applied' = 1 - applied
  BY <1>1, <1>2, LinesAssumption, AppliesFacts DEF Top
<1>4. k \in 1..Len(frames) /\ k \in 1..Len(frames') /\ frames[k].line = l /\ frames[k].next = n
  BY <1>1, <1>3
<1>5. Owed(l) = SubSeq(q, n, Len(q)) \o r
  BY <1>4 DEF OwedRight
<1>6. Owed(l)' = SubSeq(q, n + 1, Len(q)) \o r
  <2>1. PICK i \in 1..Len(frames') : i = k
    BY <1>4
  <2>2. frames'[i].line = l
    BY <1>3, <2>1
  <2>3. Owed(l)' = SubSeq(queue'[l], frames'[i].next, Len(queue'[l])) \o Rest(l, frames[i].then)'
    BY <2>2 DEF OwedRight
  <2>4. Rest(l, frames[i].then)' = r
    BY <1>3, <2>1 DEF Rest, Event
  <2>. QED  BY <1>3, <2>1, <2>3, <2>4
<1>7. r \in Seq(Events)
  BY <1>4, RestType
<1>8. Owed(l) # <<>> /\ Head(Owed(l)) = q[n] /\ Tail(Owed(l)) = Owed(l)'
  <2>1. q \in Seq(Events) /\ n \in 1..Len(q)
    BY <1>1, <1>2
  <2>. HIDE DEF q, n, r
  <2>2. /\ SubSeq(q, n, Len(q)) \o r # <<>>
        /\ Head(SubSeq(q, n, Len(q)) \o r) = q[n]
        /\ Tail(SubSeq(q, n, Len(q)) \o r) = SubSeq(q, n + 1, Len(q)) \o r
    BY <1>7, <2>1, SuffixFacts
  <2>. QED  BY <1>5, <1>6, <2>2
<1>9. ASSUME NEW m \in Lines, m # l PROVE Owed(m)' = Owed(m)
  <2>1. \A j \in 1..Len(frames) :
          frames[j].line = m => j \in 1..Len(frames') /\ frames'[j] = frames[j]
    BY <1>3, <1>4, <1>9
  <2>2. HasFrame(m)' => HasFrame(m)
    BY <1>3, <1>4, <1>9, SMTT(20) DEF HasFrame
  <2>. QED  BY <2>1, <2>2, OwedSame
<1>10. owed' = [owed EXCEPT ![l] = Tail(@)] /\ owed[l] = Owed(l)
  BY <1>8, <1>9 DEF owed
<1>11. Current = [state |-> Current.state, vector |-> Current.vector]
  BY <1>1 DEF Events
<1>12. seen' = [seen EXCEPT ![l] = Current]
  BY <1>2, <1>11 DEF seen
<1>13. Head(owed[l]) = Current /\ owed[l] # <<>>
  BY <1>1, <1>8, <1>10
<1>. QED  BY <1>3, <1>10, <1>12, <1>13 DEF LineOrder!Deliver, owed, seen

\* What is behind a sequence is its last element.
LEMMA LastOfConcat ==
  ASSUME NEW S, NEW s \in Seq(S), NEW e \in S
  PROVE  s \o <<e>> # <<>> /\ (s \o <<e>>)[Len(s \o <<e>>)] = e
<1> DEFINE w == s \o <<e>>
<1>1. w = Append(s, e)
  BY AppendIsConcat
<1>. HIDE DEF w
<1>2. Len(w) = Len(s) + 1 /\ w # <<>> /\ w[Len(s) + 1] = e
  BY <1>1, AppendProperties
<1>. QED  BY <1>2 DEF w

\* A reset leaves of what a line owes at most the state that is being written to it.
LEMMA RestWithdrawn ==
  ASSUME Typed, NEW m \in Lines, NEW k \in 1..Len(frames), NEW a \in Seq(Events),
         Owed(m)' = Rest(m, frames[k].then)', frames'[k].then = frames[k].then,
         storedVector'[m] = DefaultVector
  PROVE  \A rest : rest = a \o Rest(m, frames[k].then) => LineOrder!Withdrawn(m, rest)
<1> SUFFICES ASSUME NEW rest, rest = a \o Rest(m, frames[k].then)
             PROVE  LineOrder!Withdrawn(m, rest)
  OBVIOUS
<1>1. owed'[m] = Owed(m)'
  BY DEF owed
<1>2. CASE frames[k].then = Nothing
  <2>1. Rest(m, frames[k].then)' = <<>>
    BY <1>2 DEF Rest
  <2>. QED  BY <1>1, <2>1 DEF LineOrder!Withdrawn, owed
<1>3. CASE frames[k].then # Nothing
  <2> DEFINE t == frames[k].then
             e == Event(m, t.state, t.vector)
  <2>1. t.state \in States /\ t.vector \in Vectors \cup {Stored}
    BY <1>3, FramesTyped DEF Typed
  <2>2. e \in Events
    BY <2>1, EventType DEF Typed
  <2>3. rest = a \o <<e>>
    BY <1>3 DEF Rest
  <2>4. PICK o : Rest(m, t)' = <<o>> /\ o \in {e, [e EXCEPT !.vector = DefaultVector]}
    <3>1. Rest(m, t)' = <<[state |-> t.state,
                          vector |-> IF t.vector = Stored THEN DefaultVector ELSE t.vector]>>
      BY <1>3 DEF Rest, Event
    <3>2. e = [state |-> t.state, vector |-> IF t.vector = Stored THEN storedVector[m] ELSE t.vector]
      BY DEF Event
    <3>. HIDE DEF e, t
    <3>. QED  BY <3>1, <3>2
  <2>. HIDE DEF e
  <2>5. rest # <<>> /\ rest[Len(rest)] = e
    BY <2>2, <2>3, LastOfConcat
  <2>6. owed'[m] = <<o>>
    BY <1>1, <2>4
  <2>7. Len(owed'[m]) = 1 /\ owed'[m][1] = o
    BY <2>6
  <2>. QED  BY <2>4, <2>5, <2>7 DEF LineOrder!Withdrawn, owed
<1>. QED  BY <1>2, <1>3

\* Applying the event that clears RESET of a halted device delivers it and withdraws
\* what is owed, but for the states that are being written.
LEMMA ApplyWithdraws ==
  ASSUME Typed, Typed', OwedRight, OwedRight', Distinct, Reset \in Lines, Applying(Reset), Applies,
         Current.state # "assert", curstate' = [curstate EXCEPT ![Reset] = Current.state],
         ResetInputs(curstate')
  PROVE  LineOrder!ResetByLine
<1>1. /\ frames # <<>> /\ Top.next <= QueueSize /\ Top.line = Reset
      /\ Top.next \in 1..Len(queue[Reset]) /\ Current = queue[Reset][Top.next]
  BY CurrentFacts DEF Applying
<1>2. /\ frames \in Seq(Frame) /\ frames' \in Seq(Frame) /\ queue \in [Lines -> Seq(Events)]
      /\ curstate \in [Lines -> States] /\ curstate' \in [Lines -> States]
  BY DEF Typed, TypeOK
<1>3. /\ \A m \in Lines : queue'[m] = <<>>
      /\ \A m \in Lines : curvector'[m] = DefaultVector /\ storedVector'[m] = DefaultVector
      /\ resets' = 1 - resets
  BY <1>2, ResetTypes
<1> DEFINE k == Len(frames)
<1>4. /\ k \in Nat \ {0} /\ Len(frames') = k /\ Top = frames[k]
      /\ \A i \in 1..(k - 1) : frames'[i] = frames[i]
      /\ frames'[k].line = Reset /\ frames'[k].then = frames[k].then
      /\ applied' = 1 - applied
  BY <1>1, <1>2, LinesAssumption, AppliesFacts DEF Top
<1>5. \A i \in 1..Len(frames') :
        i \in 1..Len(frames) /\ frames'[i].line = frames[i].line /\ frames'[i].then = frames[i].then
  BY <1>1, <1>4
<1>6. k \in 1..Len(frames) /\ frames[k].line = Reset
  BY <1>1, <1>4
<1>. HIDE DEF k
<1> DEFINE q == queue[Reset]
           n == Top.next
           r == Rest(Reset, frames[k].then)
<1>7. Owed(Reset) = SubSeq(q, n, Len(q)) \o r
  BY <1>4, <1>6 DEF OwedRight
<1>8. r \in Seq(Events) /\ q \in Seq(Events) /\ n \in 1..Len(q)
  BY <1>1, <1>2, <1>6, RestType
<1>9. /\ Owed(Reset) # <<>> /\ Head(Owed(Reset)) = Current
      /\ Tail(Owed(Reset)) = SubSeq(q, n + 1, Len(q)) \o r
  <2>1. Current = q[n]
    BY <1>1
  <2>. HIDE DEF q, n, r
  <2>2. /\ SubSeq(q, n, Len(q)) \o r # <<>> /\ Head(SubSeq(q, n, Len(q)) \o r) = q[n]
        /\ Tail(SubSeq(q, n, Len(q)) \o r) = SubSeq(q, n + 1, Len(q)) \o r
    BY <1>8, SuffixFacts, SMTT(20)
  <2>. QED  BY <1>7, <2>1, <2>2
\* what is owed once the event has been delivered
<1> DEFINE rests == [owed EXCEPT ![Reset] = Tail(@)]
<1>10. /\ rests[Reset] = Tail(Owed(Reset))
       /\ \A m \in Lines : m # Reset => rests[m] = Owed(m)
  BY DEF owed
<1>. HIDE DEF rests
<1>11. ASSUME NEW m \in Lines PROVE LineOrder!Withdrawn(m, rests[m])
  <2>1. CASE ~HasFrame(m)'
    <3>1. Owed(m)' = <<>>
      BY <1>3, <2>1 DEF OwedRight
    <3>. QED  BY <3>1 DEF LineOrder!Withdrawn, owed
  <2>2. CASE HasFrame(m)'
    <3>1. PICK i \in 1..Len(frames') : frames'[i].line = m
      BY <2>2 DEF HasFrame
    <3>2. i \in 1..Len(frames) /\ frames[i].line = m /\ frames'[i].then = frames[i].then
      BY <1>5, <3>1
    <3>3. frames'[i].next \in Nat \ {0} /\ frames[i].next \in Nat \ {0}
      BY <1>2, <3>2, FramesTyped, LinesAssumption
    <3>4. Owed(m)' = Rest(m, frames[i].then)'
      <4>1. Owed(m)' = SubSeq(queue'[m], frames'[i].next, Len(queue'[m])) \o Rest(m, frames[i].then)'
        BY <3>1 DEF OwedRight
      <4>2. SubSeq(queue'[m], frames'[i].next, Len(queue'[m])) = <<>>
        BY <1>3, <3>3, SubSeqEmpty
      <4>3. Rest(m, frames[i].then)' \in Seq(Events)
        <5>1. frames'[i].then # Nothing =>
                frames'[i].then.state \in States /\ frames'[i].then.vector \in Vectors \cup {Stored}
          BY <1>2, <3>1, FramesTyped
        <5>2. storedVector'[m] \in Vectors
          BY <1>3, LinesAssumption
        <5> DEFINE t == frames'[i].then
                   o == [state |-> t.state,
                         vector |-> IF t.vector = Stored THEN storedVector'[m] ELSE t.vector]
        <5>3. Rest(m, frames[i].then)' = IF t = Nothing THEN <<>> ELSE <<o>>
          BY DEF Rest, Event
        <5>4. t # Nothing => o \in Events
          BY <5>1, <5>2 DEF Events
        <5>. HIDE DEF t, o
        <5>. QED  BY <5>3, <5>4
      <4>4. <<>> \o Rest(m, frames[i].then)' = Rest(m, frames[i].then)'
        BY <4>3, ConcatEmptySeq
      <4>. QED  BY <4>1, <4>2, <4>4
    <3>5. PICK a \in Seq(Events) : rests[m] = a \o Rest(m, frames[i].then)
      <4>1. CASE m = Reset
        <5>1. i = k
          BY <1>6, <3>2, <4>1 DEF Distinct
        <5>2. SubSeq(q, n + 1, Len(q)) \in Seq(Events)
          <6>. HIDE DEF q, n
          <6>1. \A j \in (n + 1)..Len(q) : q[j] \in Events
            BY <1>8, ElementOfSeq
          <6>. QED  BY <1>8, <6>1, SubSeqProperties
        <5>. QED  BY <1>9, <1>10, <4>1, <5>1, <5>2
      <4>2. CASE m # Reset
        <5>1. SubSeq(queue[m], frames[i].next, Len(queue[m])) \in Seq(Events)
          <6>1. queue[m] \in Seq(Events) /\ Len(queue[m]) \in Nat
            BY <1>2, LenProperties
          <6>2. \A j \in frames[i].next..Len(queue[m]) : queue[m][j] \in Events
            BY <3>3, <6>1, ElementOfSeq
          <6>. QED  BY <3>3, <6>1, <6>2, SubSeqProperties
        <5>. QED  BY <1>10, <3>2, <4>2, <5>1 DEF OwedRight
      <4>. QED  BY <4>1, <4>2
    <3>. QED  BY <1>3, <3>2, <3>4, <3>5, RestWithdrawn
  <2>. QED  BY <2>1, <2>2
<1>12. seen' = [m \in Lines |-> [state |-> IF m = Reset THEN Current.state ELSE seen[m].state,
                                 vector |-> DefaultVector]]
  BY <1>2, <1>3 DEF seen
<1>13. LineOrder!Withdraw([m \in Lines |-> IF m = Reset THEN Head(owed[m]).state ELSE seen[m].state],
                         rests)
  <2>1. owed[Reset] = Owed(Reset)
    BY DEF owed
  <2>2. seen' = [m \in Lines |->
                  [state |-> [x \in Lines |-> IF x = Reset THEN Head(owed[x]).state
                                                          ELSE seen[x].state][m],
                   vector |-> DefaultVector]]
    BY <1>9, <1>12, <2>1
  <2>3. DOMAIN owed' = Lines
    BY DEF owed
  <2>. QED  BY <1>3, <1>11, <2>2, <2>3 DEF LineOrder!Withdraw, owed, seen
<1>14. owed[Reset] # <<>> /\ Head(owed[Reset]).state # "assert"
  BY <1>9 DEF owed
<1>. QED  BY <1>4, <1>13, <1>14 DEF LineOrder!ResetByLine, rests, owed, seen

\* A step after which one line owes one event more, and the others what they did.
LEMMA OwesOneMore ==
  ASSUME NEW l \in Lines, NEW e \in Events, Owed(l)' = Append(Owed(l), e),
         \A m \in Lines \ {l} : Owed(m)' = Owed(m), UNCHANGED <<curstate, curvector, history>>
  PROVE  LineOrder!Write(l)
<1>1. owed' = [owed EXCEPT ![l] = Append(@, e)]
  BY DEF owed
<1>2. seen' = seen
  BY DEF seen
<1>. QED  BY <1>1, <1>2 DEF LineOrder!Write, owed, seen, history

\* Writing a state to a line whose queue is not full.
LEMMA SetLineWrites ==
  ASSUME Typed, OwedRight, OwedRight', NEW l \in Lines, NEW s \in States, NEW v \in Given,
         SetLine(l, s, v), ~HasFrame(l)
  PROVE  LineOrder!Write(l)
<1> DEFINE e == Event(l, s, v)
<1>1. e \in Events
  BY EventType, LinesAssumption DEF Typed
<1>2. queue \in [Lines -> Seq(Events)] /\ timers \in Seq(Lines)
  BY DEF Typed, TypeOK
<1>3. /\ Enqueue(queue, l, e) /\ UNCHANGED <<frames, storedVector, curstate, curvector, history>>
  BY DEF SetLine, inputs
<1>4. queue'[l] = Append(queue[l], e) /\ \A m \in Lines \ {l} : queue'[m] = queue[m]
  BY <1>2, <1>3 DEF Enqueue
<1>5. \A m \in Lines : HasFrame(m)' <=> HasFrame(m)
  BY <1>3 DEF HasFrame
<1>6. Owed(l) = queue[l] /\ Owed(l)' = queue'[l]
  BY <1>5 DEF OwedRight
<1>7. ASSUME NEW m \in Lines \ {l} PROVE Owed(m)' = Owed(m)
  BY <1>3, <1>4, <1>5, OwedSame
<1>. HIDE DEF e
<1>. QED  BY <1>1, <1>3, <1>4, <1>6, <1>7, OwesOneMore

\* Writing a state to a line whose queue is full: it is owed behind the queue.
LEMMA SetFullLineWrites ==
  ASSUME Typed, OwedRight, OwedRight', NEW l \in Lines, NEW s \in States, NEW v \in Given,
         SetFullLine(l, s, v), ~HasFrame(l)
  PROVE  LineOrder!Write(l)
<1> DEFINE t == [state |-> s, vector |-> v]
           f == [line |-> l, next |-> 1, giving |-> "none", then |-> t]
           e == Event(l, s, v)
<1>1. e \in Events /\ v \in Vectors \cup {Stored}
  BY EventType, LinesAssumption DEF Typed
<1>2. frames \in Seq(Frame) /\ queue[l] \in Seq(Events) /\ Len(frames) \in Nat
  BY LenProperties DEF Typed, TypeOK
<1>3. /\ frames' = Append(frames, f)
      /\ UNCHANGED <<queue, storedVector, curstate, curvector, history>>
  BY DEF SetFullLine, inputs
<1>4. f \in Frame /\ f.line = l /\ f.next = 1 /\ f.then = t
  BY <1>1, LinesAssumption DEF Frame, Then
<1>5. t # Nothing
  BY <1>1, LinesAssumption
<1>. HIDE DEF f
<1>6. /\ Len(frames') = Len(frames) + 1 /\ frames'[Len(frames) + 1] = f
      /\ \A n \in 1..Len(frames) : frames'[n] = frames[n]
  BY <1>2, <1>3, <1>4, AppendProperties
<1>7. PICK k \in 1..Len(frames') : k = Len(frames) + 1
  BY <1>2, <1>6
<1>8. Owed(l) = queue[l]
  BY DEF OwedRight
<1>9. Owed(l)' = SubSeq(queue[l], 1, Len(queue[l])) \o Rest(l, frames[k].then)'
  <2>1. frames'[k].line = l /\ frames'[k].next = 1
    BY <1>4, <1>6, <1>7
  <2>2. Owed(l)' = SubSeq(queue'[l], frames'[k].next, Len(queue'[l])) \o Rest(l, frames[k].then)'
    BY <2>1 DEF OwedRight
  <2>. QED  BY <1>3, <2>1, <2>2
<1>10. Rest(l, frames[k].then)' = <<e>>
  BY <1>3, <1>4, <1>5, <1>6, <1>7 DEF Rest, Event
<1>11. Owed(l)' = Append(Owed(l), e)
  <2>. HIDE DEF e
  <2>1. SubSeq(queue[l], 1, Len(queue[l])) = queue[l]
    BY <1>2, SubSeqFull
  <2>2. Append(queue[l], e) = queue[l] \o <<e>>
    BY <1>1, <1>2, AppendIsConcat
  <2>. QED  BY <1>8, <1>9, <1>10, <2>1, <2>2
<1>12. ASSUME NEW m \in Lines \ {l} PROVE Owed(m)' = Owed(m)
  <2>1. \A n \in 1..Len(frames) :
          frames[n].line = m => n \in 1..Len(frames') /\ frames'[n] = frames[n]
    BY <1>2, <1>6
  <2>2. HasFrame(m)' => HasFrame(m)
    <3>1. ASSUME NEW n \in 1..Len(frames'), frames'[n].line = m PROVE HasFrame(m)
      <4>1. n # Len(frames) + 1
        BY <1>4, <1>6, <3>1
      <4>2. n \in 1..Len(frames) /\ frames[n].line = m
        BY <1>2, <1>6, <3>1, <4>1
      <4>. QED  BY <4>2 DEF HasFrame
    <3>. QED  BY <3>1 DEF HasFrame
  <2>. QED  BY <1>3, <2>1, <2>2, OwedSame
<1>. HIDE DEF e
<1>. QED  BY <1>1, <1>3, <1>11, <1>12, OwesOneMore

\* Steps that LineEvents does not see.
Unseen == UNCHANGED <<owed, seen, applied, resets>>

LEMMA UnseenByParts ==
  ASSUME \A m \in Lines : Owed(m)' = Owed(m), UNCHANGED <<curstate, curvector, history>>
  PROVE  Unseen
BY DEF Unseen, owed, seen, history

\* A timer that fires: the events are owed by the call instead of the queue.
LEMMA FireUnseen ==
  ASSUME Typed, OwedRight, OwedRight', Fire PROVE Unseen
<1>1. /\ frames = <<>> /\ UNCHANGED <<queue, storedVector, curstate, curvector, history>>
      /\ frames' = <<[line |-> Head(timers), next |-> 1, giving |-> "none", then |-> Nothing]>>
  BY DEF Fire, Outside, inputs
<1>2. queue \in [Lines -> Seq(Events)]
  BY DEF Typed, TypeOK
<1>3. ASSUME NEW m \in Lines PROVE Owed(m)' = Owed(m)
  <2>1. Owed(m) = queue[m]
    BY <1>1 DEF OwedRight, HasFrame
  <2>2. CASE m = Head(timers)
    <3>1. PICK k \in 1..Len(frames') : k = 1
      BY <1>1
    <3>2. frames'[k] = [line |-> m, next |-> 1, giving |-> "none", then |-> Nothing]
      BY <1>1, <2>2, <3>1
    <3>3. Owed(m)' = SubSeq(queue[m], 1, Len(queue[m])) \o Rest(m, frames[k].then)'
      <4>1. frames'[k].line = m /\ frames'[k].next = 1
        BY <3>2
      <4>2. Owed(m)' = SubSeq(queue'[m], frames'[k].next, Len(queue'[m])) \o Rest(m, frames[k].then)'
        BY <4>1 DEF OwedRight
      <4>. QED  BY <1>1, <4>1, <4>2
    <3>4. Rest(m, frames[k].then)' = <<>>
      BY <3>2 DEF Rest
    <3>5. SubSeq(queue[m], 1, Len(queue[m])) = queue[m] /\ queue[m] \o <<>> = queue[m]
      BY <1>2, SubSeqFull, ConcatEmptySeq
    <3>. QED  BY <2>1, <3>3, <3>4, <3>5
  <2>3. CASE m # Head(timers)
    <3>1. ~HasFrame(m)'
      BY <1>1, <2>3 DEF HasFrame
    <3>. QED  BY <1>1, <2>1, <3>1 DEF OwedRight
  <2>. QED  BY <2>2, <2>3
<1>. QED  BY <1>1, <1>3, UnseenByParts

\* The end of empty_event_queue: what the writer had to queue is in the queue.
LEMMA ReturnUnseen ==
  ASSUME Typed, OwedRight, OwedRight', Distinct, Return PROVE Unseen
<1>1. /\ Left /\ frames # <<>> /\ frames \in Seq(Frame)
      /\ UNCHANGED <<storedVector, curstate, curvector, history>>
  BY DEF Return, Left, Typed, inputs
<1>2. PICK l \in Lines : l = Top.line
  BY <1>1, LeftFacts
<1>3. /\ frames' = Below
      /\ \A m \in Lines \ {l} : queue'[m] = queue[m]
      /\ queue'[l] = Rest(l, Top.then)
  BY <1>2, ReturnFacts DEF Rest
<1>4. /\ Len(frames) \in Nat \ {0} /\ Len(Below) = Len(frames) - 1 /\ Top = frames[Len(frames)]
      /\ \A n \in 1..(Len(frames) - 1) : Below[n] = frames[n]
  BY <1>1, TopFacts
<1>5. PICK k \in 1..Len(frames) : k = Len(frames)
  BY <1>4
<1>6. ASSUME NEW n \in 1..Len(frames') PROVE n \in 1..Len(frames) /\ frames'[n] = frames[n] /\ n # k
  BY <1>3, <1>4, <1>5
<1>7. ~HasFrame(l)'
  <2>1. ASSUME NEW n \in 1..Len(frames'), frames'[n].line = l PROVE FALSE
    BY <1>2, <1>4, <1>5, <1>6, <2>1 DEF Distinct
  <2>. QED  BY <2>1 DEF HasFrame
<1>8. Owed(l)' = queue'[l]
  BY <1>7 DEF OwedRight
<1>9. Owed(l) = Rest(l, Top.then)
  <2>1. Len(queue[l]) < Top.next /\ Len(queue[l]) \in Nat /\ Top.next \in Int
    <3>1. Top.next \in Int
      BY <1>1, LeftFacts DEF Frame
    <3>2. Len(queue[l]) \in Nat
      BY LenProperties DEF Typed, TypeOK
    <3>. QED  BY <1>1, <1>2, <3>1, <3>2, LeftFacts
  <2>2. SubSeq(queue[l], Top.next, Len(queue[l])) = <<>>
    BY <2>1, SubSeqEmpty
  <2>3. Owed(l) = SubSeq(queue[l], frames[k].next, Len(queue[l])) \o Rest(l, frames[k].then)
    BY <1>2, <1>4, <1>5 DEF OwedRight
  <2>4. Rest(l, frames[k].then) \in Seq(Events)
    BY RestType
  <2>5. <<>> \o Rest(l, frames[k].then) = Rest(l, frames[k].then)
    BY <2>4, ConcatEmptySeq
  <2>. QED  BY <1>4, <1>5, <2>2, <2>3, <2>5
<1>10. ASSUME NEW m \in Lines, m # l PROVE Owed(m)' = Owed(m)
  <2>1. \A n \in 1..Len(frames) :
          frames[n].line = m => n \in 1..Len(frames') /\ frames'[n] = frames[n]
    BY <1>2, <1>3, <1>4, <1>10
  <2>2. HasFrame(m)' => HasFrame(m)
    BY <1>6 DEF HasFrame
  <2>. QED  BY <1>1, <1>3, <1>10, <2>1, <2>2, OwedSame
<1>. QED  BY <1>1, <1>3, <1>8, <1>9, <1>10, UnseenByParts

\* Steps that leave queues, calls and what the device sees as they are.
LEMMA StillUnseen ==
  ASSUME OwedRight, OwedRight', UNCHANGED <<queue, frames, curstate, curvector, history>>,
         Outside \/ UNCHANGED storedVector
  PROVE  Unseen
<1>1. ASSUME NEW m \in Lines PROVE Owed(m)' = Owed(m)
  <2>1. HasFrame(m)' <=> HasFrame(m)
    BY DEF HasFrame
  <2>2. CASE UNCHANGED storedVector
    BY <2>1, <2>2, OwedSame
  <2>3. CASE Outside
    <3>1. ~HasFrame(m)
      BY <2>3 DEF Outside, HasFrame
    <3>. QED  BY <2>1, <3>1 DEF OwedRight
  <2>. QED  BY <2>2, <2>3
<1>. QED  BY <1>1, UnseenByParts

\* The core has been given an event: what is owed is the same.
LEMMA InputGivenUnseen ==
  ASSUME Typed, OwedRight, OwedRight', InputGiven PROVE Unseen
<1>1. /\ UNCHANGED <<queue, storedVector, curstate, curvector, history>>
      /\ Len(frames') = Len(frames)
      /\ \A n \in 1..Len(frames) :
           /\ frames'[n].line = frames[n].line /\ frames'[n].next = frames[n].next
           /\ frames'[n].then = frames[n].then
  BY InputGivenFacts DEF inputs
<1>2. ASSUME NEW m \in Lines PROVE Owed(m)' = Owed(m)
  <2>1. HasFrame(m)' => HasFrame(m)
    BY <1>1 DEF HasFrame
  <2>. QED  BY <1>1, <2>1, OwedSame
<1>. QED  BY <1>1, <1>2, UnseenByParts

LEMMA AcknowledgeSeen ==
  ASSUME Typed, OwedRight, OwedRight', NEW l \in Lines, Acknowledge(l)
  PROVE  LineOrder!Acknowledge(l)
<1>1. /\ UNCHANGED <<queue, frames, storedVector, curvector, history>> /\ curstate[l] = "hold"
      /\ curstate' = [curstate EXCEPT ![l] = "clear"] /\ curstate \in [Lines -> States]
  BY DEF Acknowledge, Typed, TypeOK
<1>2. ASSUME NEW m \in Lines PROVE Owed(m)' = Owed(m)
  BY <1>1, OwedSame DEF HasFrame
<1>3. seen' = [seen EXCEPT ![l].state = "clear"] /\ owed' = owed /\ seen[l].state = "hold"
  BY <1>1, <1>2 DEF seen, owed
<1>. QED  BY <1>1, <1>3 DEF LineOrder!Acknowledge, owed, seen, history

LEMMA ResetDeviceWithdraws ==
  ASSUME Typed, OwedRight, OwedRight', ResetDevice
  PROVE  LineOrder!ResetAll
<1>1. curstate \in [Lines -> States] /\ ResetInputs(curstate) /\ UNCHANGED applied /\ frames' = <<>>
  BY DEF ResetDevice, Typed, TypeOK, Outside
<1>2. /\ \A m \in Lines : queue'[m] = <<>> /\ curvector'[m] = DefaultVector
      /\ curstate' = curstate /\ resets' = 1 - resets
  BY <1>1, ResetTypes
<1>3. ASSUME NEW m \in Lines PROVE owed'[m] = <<>>
  <2>1. ~HasFrame(m)'
    BY <1>1 DEF HasFrame
  <2>2. Owed(m)' = <<>>
    BY <1>2, <2>1 DEF OwedRight
  <2>. QED  BY <2>2 DEF owed
<1>4. seen' = [m \in Lines |-> [state |-> [x \in Lines |-> seen[x].state][m],
                                vector |-> DefaultVector]]
  BY <1>2 DEF seen
<1>5. DOMAIN owed' = Lines
  BY DEF owed
<1>6. \A m \in Lines : LineOrder!Withdrawn(m, owed[m])
  BY <1>3 DEF LineOrder!Withdrawn, owed
<1>7. LineOrder!Withdraw([m \in Lines |-> seen[m].state], owed)
  BY <1>2, <1>4, <1>5, <1>6 DEF LineOrder!Withdraw, owed, seen
<1>. QED  BY <1>1, <1>7 DEF LineOrder!ResetAll, owed, seen

LEMMA OrderInit == Init => LineOrder!Init
<1> SUFFICES ASSUME Init PROVE LineOrder!Init
  OBVIOUS
<1>1. ASSUME NEW l \in Lines PROVE Owed(l) = <<>>
  <2>1. {n \in 1..Len(frames) : frames[n].line = l} = {}
    BY DEF Init
  <2>. QED  BY <2>1 DEF Owed, Init
<1>2. owed = [l \in Lines |-> <<>>]
  BY <1>1 DEF owed
<1>3. seen = [l \in Lines |-> [state |-> "clear", vector |-> DefaultVector]]
  BY DEF seen, Init
<1>. QED  BY <1>2, <1>3 DEF LineOrder!Init, owed, seen, Init

LEMMA OrderStep ==
  ASSUME NEW rank, Ordered(rank)
  PROVE  Typed /\ Typed' /\ Descends(rank) /\ OwedRight /\ OwedRight' /\ [Next]_vars
           => [LineOrder!Next]_<<owed, seen, applied, resets>>
<1> SUFFICES ASSUME Typed, Typed', Descends(rank), OwedRight, OwedRight', [Next]_vars
             PROVE  LineOrder!Next \/ Unseen
  BY DEF Unseen
<1>0. Distinct
  BY DescendsIsDistinct
<1>1. ASSUME NEW l \in Lines, Outside \/ Inside(l) PROVE ~HasFrame(l)
  <2>1. \A n \in 1..Len(frames) : rank[l] < rank[frames[n].line]
    BY <1>1, WrittenIsBelow
  <2>. QED  BY <2>1 DEF HasFrame, Ordered
<1>2. ASSUME NEW l \in Lines, NEW s \in States, NEW v \in Given, SetLine(l, s, v)
      PROVE  LineOrder!Next
  BY <1>1, <1>2, SetLineWrites DEF SetLine, Written, LineOrder!Next
<1>3. ASSUME NEW l \in Lines, NEW s \in States, NEW v \in Given, SetFullLine(l, s, v)
      PROVE  LineOrder!Next
  BY <1>1, <1>3, SetFullLineWrites DEF SetFullLine, Written, LineOrder!Next
<1>4. Reset \in Lines /\ Halt \in Lines /\ Irqs \subseteq Lines
  BY DEF Lines
<1>5. ASSUME NEW l \in Irqs, Acknowledge(l) PROVE LineOrder!Next
  BY <1>4, <1>5, AcknowledgeSeen DEF LineOrder!Next
<1>6. ASSUME NEW l \in Irqs, NEW v \in Vectors, SetVector(l, v) PROVE Unseen
  BY <1>6, StillUnseen DEF SetVector
<1>7. ASSUME Fire PROVE Unseen
  BY <1>7, FireUnseen
<1>8. ASSUME NEW l \in Lines, Applying(l),
             \/ l = Reset /\ ApplyReset
             \/ l = Halt /\ ApplyHalt
             \/ l \in Irqs /\ ApplyIrq(l)
      PROVE  LineOrder!Next
  <2>1. /\ Applies /\ curstate' = [curstate EXCEPT ![l] = Current.state]
        /\ \/ /\ UNCHANGED <<queue, storedVector, resets>>
              /\ curvector' = [curvector EXCEPT ![l] = Current.vector]
           \/ l = Reset /\ Current.state # "assert" /\ ResetInputs(curstate')
    BY <1>8, ApplyTyped
  <2>2. CASE l = Reset /\ Current.state # "assert" /\ ResetInputs(curstate')
    BY <1>0, <1>8, <2>1, <2>2, ApplyWithdraws DEF LineOrder!Next
  <2>3. CASE /\ UNCHANGED <<queue, storedVector, resets>>
             /\ curvector' = [curvector EXCEPT ![l] = Current.vector]
    BY <1>0, <1>8, <2>1, <2>3, Delivers DEF LineOrder!Next
  <2>. QED  BY <2>1, <2>2, <2>3
<1>9. ASSUME EmptyQueue PROVE LineOrder!Next \/ Unseen
  <2>1. CASE ApplyReset
    BY <1>4, <1>8, <2>1 DEF ApplyReset
  <2>2. CASE ApplyHalt
    BY <1>4, <1>8, <2>2 DEF ApplyHalt
  <2>3. ASSUME NEW l \in Irqs, ApplyIrq(l) PROVE LineOrder!Next
    <3>1. Applying(l) /\ l \in Lines
      BY <1>4, <2>3 DEF ApplyIrq
    <3>. QED  BY <1>8, <2>3, <3>1
  <2>4. CASE Return
    BY <1>0, <2>4, ReturnUnseen
  <2>5. CASE InputGiven
    BY <2>5, InputGivenUnseen
  <2>. QED  BY <1>9, <2>1, <2>2, <2>3, <2>4, <2>5 DEF EmptyQueue
<1>10. ASSUME SpinUntilInterrupt PROVE Unseen
  BY <1>10, StillUnseen DEF SpinUntilInterrupt, inputs
<1>11. ASSUME ResetDevice PROVE LineOrder!Next
  BY <1>11, ResetDeviceWithdraws DEF LineOrder!Next
<1>12. ASSUME UNCHANGED vars PROVE Unseen
  BY <1>12, StillUnseen DEF vars, inputs
<1>. QED  BY <1>2, <1>3, <1>5, <1>6, <1>7, <1>9, <1>10, <1>11, <1>12 DEF Next

\* What is written to a line reaches the device in order and once, and only resets
\* withdraw any (set_state_synced and empty_event_queue, diexec.cpp:763-885), when no
\* chain of callbacks comes back to the line whose queue is being emptied.
THEOREM EventsKeepOrder ==
  ASSUME NEW rank, Ordered(rank) PROVE Spec => EventsInOrder
<1>1. Init => Descends(rank)
  BY DescendsInit
<1>2. Typed /\ Descends(rank) /\ [Next]_vars => Descends(rank)'
  BY DescendsStep
<1>3. Typed /\ Descends(rank) => OwedRight
  BY DescendsIsDistinct, OwedIsRight
<1>4. Typed /\ Typed' /\ Descends(rank) /\ OwedRight /\ OwedRight' /\ [Next]_vars
        => [LineOrder!Next]_<<owed, seen, applied, resets>>
  BY OrderStep
<1>5. [LineOrder!Next]_<<owed, seen, applied, resets>> =>
        [LineOrder!Next]_(LineOrder!vars)
  BY DEF owed, seen, LineOrder!vars
<1>. QED
  BY <1>1, <1>2, <1>3, <1>4, <1>5, OrderInit, TypedInit, TypedStep, PTL
  DEF Spec, EventsInOrder, LineOrder!Spec

================================================================================
