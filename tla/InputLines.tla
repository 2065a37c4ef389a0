------------------------------ MODULE InputLines ------------------------------
(***************************************************************************)
(* The input lines of an executing device (device_input in                 *)
(* src/emu/diexec.cpp): a state written to a line is queued, and a timer   *)
(* without delay applies the queue once all devices are at the same time.  *)
(*                                                                         *)
(* One thread runs all of it.  The calls of empty_event_queue that are in  *)
(* progress are a stack.  An event of an interrupt line is given to the    *)
(* core (execute_set_input), which may take the interrupt within that call *)
(* (sh2comn.cpp:836) and whose callbacks may write lines; a queue that is  *)
(* full is emptied by the one who writes.  PULSE_LINE is its two calls.    *)
(* The timers are those of Scheduler: they fire in the order in which they *)
(* were set.  Of the suspensions only the reasons asked for are kept.      *)
(***************************************************************************)
EXTENDS Integers, Sequences, FiniteSets

CONSTANTS Irqs,          \* the lines the device itself knows
          Reset, Halt,   \* INPUT_LINE_RESET, INPUT_LINE_HALT
          Vectors, DefaultVector,
          Given,         \* vectors written with a state: some, or the stored one
          Nothing,       \* what a call has that queues no event when it is done
          QueueSize,     \* ARRAY_LENGTH(m_queue)
          Answers(_),    \* the lines that may be written while a line's event is given
          MaxWrites      \* bound: states written and resets from outside in a behaviour

Lines == Irqs \cup {Reset, Halt}
States == {"clear", "assert", "hold"}
Events == [state : States, vector : Vectors]
Stored == "stored"       \* USE_STORED_VECTOR

ASSUME LinesAssumption ==
  /\ Reset # Halt /\ Irqs \cap {Reset, Halt} = {}
  /\ DefaultVector \in Vectors /\ Stored \notin Vectors /\ Given \subseteq Vectors \cup {Stored}
  /\ QueueSize \in Nat \ {0} /\ MaxWrites \in Nat
  /\ \A l \in Lines : Answers(l) \subseteq Lines
  /\ Nothing \notin [state : States, vector : Vectors \cup {Stored}]

VARIABLES
  queue,       \* of each line: m_queue up to m_qindex
  curstate, curvector, storedVector,   \* of each line
  suspended,   \* the reasons in m_nextsuspend: a subset of {"RESET", "HALT", "TRIGGER"}
  timers,      \* the lines whose timers are set, in the order of the timers
  frames,      \* the calls of empty_event_queue: line, next event, the state that is being
               \* given to the core, what to queue at the end
  writes,      \* what is left of the bound MaxWrites
  applied, resets   \* history: events applied and resets of the device, modulo 2

inputs == <<curstate, curvector, storedVector>>
history == <<applied, resets>>
vars == <<queue, inputs, suspended, timers, frames, writes, history>>

Init ==
  /\ queue = [l \in Lines |-> <<>>]
  /\ curstate = [l \in Lines |-> "clear"]
  /\ curvector = [l \in Lines |-> DefaultVector]
  /\ storedVector = [l \in Lines |-> DefaultVector]
  /\ suspended = {} /\ timers = <<>> /\ frames = <<>> /\ writes = MaxWrites
  /\ applied = 0 /\ resets = 0

Top == frames[Len(frames)]
Below == SubSeq(frames, 1, Len(frames) - 1)

\* the device and its timers' callbacks run between calls of empty_event_queue, or
\* within one, while an event is given to the core
Outside == frames = <<>>
Giving == frames # <<>> /\ Top.giving # "none"
Inside(l) == Giving /\ l \in Answers(Top.line)

-----------------------------------------------------------------------------
(* set_state_synced *)

Event(l, state, vector) ==
  [state |-> state, vector |-> IF vector = Stored THEN storedVector[l] ELSE vector]

\* mutant: the timer is set for the second event
EnqueueLate(q, l, e) ==
  /\ queue' = [q EXCEPT ![l] = Append(@, e)]
  /\ timers' = IF Len(q[l]) = 1 THEN Append(timers, l) ELSE timers

\* the first event of a queue sets the timer
Enqueue(q, l, e) ==
  /\ queue' = [q EXCEPT ![l] = Append(@, e)]
  /\ timers' = IF q[l] = <<>> THEN Append(timers, l) ELSE timers

Written(l) ==
  /\ Outside \/ Inside(l)
  /\ writes > 0 /\ writes' = writes - 1

SetLine(l, state, vector) ==
  /\ Written(l) /\ Len(queue[l]) < QueueSize
  /\ Enqueue(queue, l, Event(l, state, vector))
  /\ UNCHANGED <<inputs, suspended, frames, history>>

\* the queue is full: empty it, then queue the event
SetFullLine(l, state, vector) ==
  /\ Written(l) /\ Len(queue[l]) = QueueSize
  /\ frames' = Append(frames, [line |-> l, next |-> 1, giving |-> "none",
                               then |-> [state |-> state, vector |-> vector]])
  /\ UNCHANGED <<queue, inputs, suspended, timers, history>>

\* set_vector is not synchronized
SetVector(l, vector) ==
  /\ Outside /\ storedVector' = [storedVector EXCEPT ![l] = vector]
  /\ UNCHANGED <<queue, curstate, curvector, suspended, timers, frames, writes, history>>

-----------------------------------------------------------------------------
(* empty_event_queue *)

Fire ==
  /\ Outside /\ timers # <<>> /\ timers' = Tail(timers)
  /\ frames' = <<[line |-> Head(timers), next |-> 1, giving |-> "none", then |-> Nothing]>>
  /\ UNCHANGED <<queue, inputs, suspended, writes, history>>

Current == queue[Top.line][Top.next]

\* the next event is to be applied: the loop looks at m_qindex each time
Applying(l) ==
  frames # <<>> /\ Top.giving = "none" /\ Top.line = l /\ Top.next <= Len(queue[l])

\* the event is applied, and what of it is given to the core
Apply(giving) ==
  /\ frames' = Append(Below, [Top EXCEPT !.next = @ + 1, !.giving = giving])
  /\ applied' = 1 - applied

\* a reset of the device: interface_pre_reset and interface_post_reset
ResetInputs(states) ==
  /\ queue' = [l \in Lines |-> <<>>] /\ curstate' = states
  /\ curvector' = [l \in Lines |-> DefaultVector]
  /\ storedVector' = [l \in Lines |-> DefaultVector]
  /\ suspended' = {} /\ resets' = 1 - resets

\* asserting RESET halts the device, clearing it resets the device if it was halted
ApplyReset ==
  LET states == [curstate EXCEPT ![Reset] = Current.state] IN
  /\ Applying(Reset) /\ Apply("none")
  /\ IF Current.state # "assert" /\ "RESET" \in suspended THEN ResetInputs(states)
     ELSE /\ curstate' = states /\ curvector' = [curvector EXCEPT ![Reset] = Current.vector]
          /\ suspended' = IF Current.state = "assert" THEN suspended \cup {"RESET"} ELSE suspended
          /\ UNCHANGED <<queue, storedVector, resets>>
  /\ UNCHANGED <<timers, writes>>

ApplyHalt ==
  /\ Applying(Halt) /\ Apply("none")
  /\ curstate' = [curstate EXCEPT ![Halt] = Current.state]
  /\ curvector' = [curvector EXCEPT ![Halt] = Current.vector]
  /\ suspended' = CASE Current.state = "assert" -> suspended \cup {"HALT"}
                    [] Current.state = "clear"  -> suspended \ {"HALT"}
                    [] OTHER -> suspended
  /\ UNCHANGED <<queue, storedVector, timers, writes, resets>>

\* the core is given the state: execute_set_input begins
ApplyIrq(l) ==
  /\ Applying(l) /\ Apply(Current.state)
  /\ curstate' = [curstate EXCEPT ![l] = Current.state]
  /\ curvector' = [curvector EXCEPT ![l] = Current.vector]
  /\ UNCHANGED <<queue, storedVector, suspended, timers, writes, resets>>

CallReturns == frames' = Append(Below, [Top EXCEPT !.giving = "none"])

\* mutant: a device that waits for the interrupt is not told of a line that is held
InputGivenSilently ==
  /\ Giving /\ CallReturns
  /\ suspended' = IF curstate[Top.line] = "assert" THEN suspended \ {"TRIGGER"} ELSE suspended
  /\ UNCHANGED <<queue, inputs, timers, writes, history>>

\* execute_set_input returns: if the line is still set, the trigger for a device that
\* waits for the interrupt
InputGiven ==
  /\ Giving /\ CallReturns
  /\ suspended' = IF curstate[Top.line] # "clear" THEN suspended \ {"TRIGGER"} ELSE suspended
  /\ UNCHANGED <<queue, inputs, timers, writes, history>>

Left == frames # <<>> /\ Top.giving = "none" /\ Top.next > Len(queue[Top.line])

\* mutant: a writer that found the queue full queues after what was applied
ReturnKeeping ==
  LET l == Top.line IN
  /\ Left /\ frames' = Below
  /\ IF Top.then = Nothing THEN queue' = [queue EXCEPT ![l] = <<>>] /\ UNCHANGED timers
     ELSE Enqueue(queue, l, Event(l, Top.then.state, Top.then.vector))
  /\ UNCHANGED <<inputs, suspended, writes, history>>

\* the loop is over; a writer that found the queue full goes on
Return ==
  LET l == Top.line
      emptied == [queue EXCEPT ![l] = <<>>]
  IN
  /\ Left /\ frames' = Below
  /\ IF Top.then = Nothing THEN queue' = emptied /\ UNCHANGED timers
     ELSE Enqueue(emptied, l, Event(l, Top.then.state, Top.then.vector))
  /\ UNCHANGED <<inputs, suspended, writes, history>>

-----------------------------------------------------------------------------
(* the device *)

\* default_irq_callback, as the core takes an interrupt: while it runs, or at once when
\* it is given one
Acknowledge(l) ==
  /\ Outside \/ Giving
  /\ curstate[l] = "hold" /\ curstate' = [curstate EXCEPT ![l] = "clear"]
  /\ UNCHANGED <<queue, curvector, storedVector, suspended, timers, frames, writes, history>>

SpinUntilInterrupt ==
  /\ Outside /\ suspended = {} /\ suspended' = {"TRIGGER"}
  /\ UNCHANGED <<queue, inputs, timers, frames, writes, history>>

\* the whole machine, or a device that contains this one, is reset
ResetDevice ==
  /\ Outside /\ ResetInputs(curstate)
  /\ writes > 0 /\ writes' = writes - 1
  /\ UNCHANGED <<timers, frames, applied>>

EmptyQueue ==
  ApplyReset \/ ApplyHalt \/ (\E l \in Irqs : ApplyIrq(l)) \/ InputGiven \/ Return

Next ==
  \/ \E l \in Lines, s \in States, v \in Given :
       SetLine(l, s, v) \/ SetFullLine(l, s, v)
  \/ \E l \in Irqs : Acknowledge(l) \/ \E v \in Vectors : SetVector(l, v)
  \/ Fire \/ EmptyQueue \/ SpinUntilInterrupt \/ ResetDevice

Spec == Init /\ [][Next]_vars

\* timers fire (TimerAnswered of Scheduler), and calls return
FairSpec == Spec /\ WF_vars(Fire) /\ WF_vars(EmptyQueue)

-----------------------------------------------------------------------------
(* Properties. *)

\* The type of the state: device_input's fields, with m_qindex within m_queue.
TypeOK ==
  /\ queue \in [Lines -> Seq(Events)] /\ \A l \in Lines : Len(queue[l]) <= QueueSize
  /\ curstate \in [Lines -> States]
  /\ curvector \in [Lines -> Vectors] /\ storedVector \in [Lines -> Vectors]
  /\ suspended \subseteq {"RESET", "HALT", "TRIGGER"}
  /\ timers \in Seq(Lines) /\ writes \in Nat /\ applied \in {0, 1} /\ resets \in {0, 1}
  /\ \A n \in 1..Len(frames) :
       /\ frames[n].line \in Lines /\ frames[n].next \in 1..(QueueSize + 1)
       /\ frames[n].giving \in States \cup {"none"}
       /\ frames[n].then # Nothing =>
            frames[n].then \in [state : States, vector : Vectors \cup {Stored}]

\* Events that are queued have a timer that will apply them, although the queue is
\* also emptied by writers that find it full and by resets.  As the timer is
\* anonymous, no state is saved meanwhile (can_save): m_queue is not in the file.
QueueHasTimer ==
  Outside => \A l \in Lines : queue[l] # <<>> => \E n \in 1..Len(timers) : timers[n] = l

\* The events of a line that are still to reach the device.
Owed(l) ==
  LET mine == {n \in 1..Len(frames) : frames[n].line = l}
      last == CHOOSE n \in mine : \A m \in mine : m <= n
      f == frames[last]
  IN IF mine = {} THEN queue[l]
     ELSE SubSeq(queue[l], f.next, Len(queue[l]))
          \o (IF f.then = Nothing THEN <<>> ELSE <<Event(l, f.then.state, f.then.vector)>>)

LineOrder == INSTANCE LineEvents WITH
  Default <- [state |-> "clear", vector |-> DefaultVector],
  owed <- [l \in Lines |-> Owed(l)],
  seen <- [l \in Lines |-> [state |-> curstate[l], vector |-> curvector[l]]]

\* What is written to a line reaches the device in order and once, and only resets
\* withdraw any: set_state_synced "flushes the queue" when it is full (diexec.cpp:780).
\* What the device has seen changes otherwise only as a held line is acknowledged.
EventsInOrder == LineOrder!Spec

\* "HALT line set", "RESET line set" (diexec.h:26-27) is why a device is suspended:
\* when nothing is pending, a line that is set is in force.
HeldWhileSet ==
  Outside /\ timers = <<>> =>
    /\ curstate[Halt] = "assert" => "HALT" \in suspended
    /\ curstate[Reset] = "assert" => "RESET" \in suspended

\* The core took the interrupt as it was given it, and the line is clear again.
TakenAtOnce(l) ==
  Giving /\ Top.line = l /\ Top.giving = "hold" /\ curstate[l] = "clear"

\* A device that waits for an interrupt wakes up when one is on its way ("unsuspend
\* any devices waiting on the interrupt", diexec.cpp:875), but for one its core took
\* before execute_set_input returned: no trigger follows that one.
WakesUp ==
  \A l \in Irqs :
    ("TRIGGER" \in suspended /\ \E n \in 1..Len(Owed(l)) : Owed(l)[n].state # "clear")
      ~> ("TRIGGER" \notin suspended \/ TakenAtOnce(l))

================================================================================
