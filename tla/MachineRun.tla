------------------------------ MODULE MachineRun ------------------------------
(***************************************************************************)
(* The main loop of a machine (running_machine in src/emu/machine.cpp):    *)
(* pausing, resets, exit, and saves and loads that wait until no anonymous *)
(* timer is live.  Machines follow one another, and states stay on disk.   *)
(*                                                                         *)
(* A slice of the scheduler is one step that changes what the emulated     *)
(* machine can change.  Before it, and in the frame updates of a machine   *)
(* that is paused, come the calls of devices, debugger and user interface. *)
(***************************************************************************)
EXTENDS Integers

CONSTANTS Names, AutoSlot,   \* names of save states, with the one of -autosave
          Autosave,      \* the option, for a machine that supports it
          Games, Fresh,  \* what the emulated machine may be like, and is at first
          Nothing,       \* no request, no file
          Second,        \* how many slices a second is
          MaxAnonymous,  \* bound: anonymous timers that are live at a time
          Faults,        \* whether files, and the machine, may fail
          MaxCalls,      \* bound: calls in a behaviour
          MaxMachines    \* bound: machines after the first

ASSUME RunAssumption ==
  /\ AutoSlot \in Names /\ Fresh \in Games /\ Nothing \notin Games
  /\ {Autosave, Faults} \subseteq BOOLEAN
  /\ {Second, MaxAnonymous, MaxCalls, MaxMachines} \subseteq Nat

\* what a state file has: the machine, with the timer of a soft reset and the time
Memory == [game : Games, reset : BOOLEAN, ran : BOOLEAN]
Requests == [kind : {"save", "load"}, name : Names]

VARIABLES
  pc,        \* where run() is: "start", "first", "loop", "slice", "frame", "after", "exit"
  paused, hardReset, exit,   \* m_paused, m_hard_reset_pending, m_exit_pending
  request,   \* m_saveload_schedule and m_saveload_pending_file
  waited,    \* slices since m_saveload_schedule_time, up to one more than a second
  anonymous, \* how many anonymous timers are live
  memory, files,
  calls, machines,   \* what is left of the bounds
  autosave,  \* history: what became of the save that the exit asked for
  error      \* the machine ended by an exception

pending == <<request, waited, autosave>>
flags == <<paused, hardReset, exit>>
bounds == <<calls, machines>>
vars == <<pc, flags, pending, anonymous, memory, files, bounds, error>>

New ==
  [game |-> Fresh, reset |-> FALSE, ran |-> FALSE]

StartRequest == IF Autosave THEN [kind |-> "load", name |-> AutoSlot] ELSE Nothing

Init ==
  /\ pc = "start" /\ paused = FALSE /\ hardReset = FALSE /\ exit = FALSE
  /\ request = StartRequest /\ waited = 0 /\ anonymous = 0 /\ memory = New
  /\ files = [n \in Names |-> Nothing]
  /\ calls = MaxCalls /\ machines = MaxMachines /\ autosave = "none" /\ error = FALSE

-----------------------------------------------------------------------------
(* handle_saveload.  mark is what became of the autosave so far. *)

\* the request is no more: it was carried out, or given up
Unschedule(done, mark) ==
  /\ request' = Nothing /\ waited' = 0
  /\ autosave' = IF mark = "pending" THEN (IF done THEN "saved" ELSE "failed") ELSE mark

\* a file that was not written to its end is removed
Save(name, mark) ==
  /\ UNCHANGED memory
  /\ \/ Unschedule(TRUE, mark) /\ files' = [files EXCEPT ![name] = memory]
     \/ Faults /\ Unschedule(FALSE, mark) /\ files' \in {files, [files EXCEPT ![name] = Nothing]}

\* a file that is not read to its end has overwritten some of the machine
Load(name, mark) ==
  /\ UNCHANGED files
  /\ \/ Unschedule(TRUE, mark) /\ files[name] # Nothing /\ memory' = files[name]
     \/ Unschedule(FALSE, mark) /\ files[name] = Nothing /\ UNCHANGED memory
     \/ Faults /\ Unschedule(FALSE, mark) /\ memory' \in Memory

Perform(r, mark) == IF r.kind = "save" THEN Save(r.name, mark) ELSE Load(r.name, mark)

Wait(r, age, mark) ==
  request' = r /\ waited' = age /\ autosave' = mark /\ UNCHANGED <<memory, files>>

\* mutant: nobody looks at the clock
HandleOrWait(r, age, mark) == IF anonymous = 0 THEN Perform(r, mark) ELSE Wait(r, age, mark)

\* r was asked for age slices ago
Handle(r, age, mark) ==
  \/ anonymous = 0 /\ Perform(r, mark)
  \/ anonymous > 0 /\ age <= Second /\ Wait(r, age, mark)
  \/ anonymous > 0 /\ age > Second /\ Unschedule(FALSE, mark) /\ UNCHANGED <<memory, files>>

HandleIfScheduled ==
  IF request = Nothing THEN UNCHANGED <<pending, memory, files>>
  ELSE Handle(request, waited, autosave)

-----------------------------------------------------------------------------
(* The calls of devices and of the user interface, and those of the debugger. *)

Called == calls > 0 /\ calls' = calls - 1
Calling == pc \in {"start", "slice", "frame"} /\ Called
Debugging == pc \in {"slice", "frame"} /\ Called

Replaced == IF autosave = "pending" THEN "replaced" ELSE autosave

\* a new request takes the place of the one that waits, and the machine must not be paused
Schedule(r, mark) == request' = r /\ waited' = 0 /\ paused' = FALSE /\ autosave' = mark

\* schedule_save and schedule_load
ScheduleSaveLoad(r) ==
  /\ Calling /\ Schedule(r, Replaced)
  /\ UNCHANGED <<pc, hardReset, exit, anonymous, memory, files, machines, error>>

\* immediate_save and immediate_load
Immediate(r) ==
  /\ Debugging /\ Handle(r, 0, Replaced)
  /\ UNCHANGED <<pc, flags, anonymous, machines, error>>

\* mutant: the save does not wait for the end of the turn
ExitSavingNow ==
  /\ Calling /\ exit' = TRUE
  /\ IF Autosave /\ memory.ran
     THEN Handle([kind |-> "save", name |-> AutoSlot], 0, "pending") /\ paused' = FALSE
     ELSE UNCHANGED <<paused, pending, memory, files>>
  /\ UNCHANGED <<pc, hardReset, anonymous, machines, error>>

ScheduleExit ==
  /\ Calling /\ exit' = TRUE
  /\ IF Autosave /\ memory.ran THEN Schedule([kind |-> "save", name |-> AutoSlot], "pending")
     ELSE UNCHANGED <<paused, pending>>
  /\ UNCHANGED <<pc, hardReset, anonymous, memory, files, machines, error>>

ScheduleHardReset ==
  /\ Calling /\ hardReset' = TRUE
  /\ UNCHANGED <<pc, paused, exit, pending, anonymous, memory, files, machines, error>>

\* the timer is set, and needs a machine that is not paused
ScheduleSoftReset ==
  /\ Calling /\ memory' = [memory EXCEPT !.reset = TRUE] /\ paused' = FALSE
  /\ UNCHANGED <<pc, hardReset, exit, pending, anonymous, files, machines, error>>

Pause ==
  /\ Calling /\ ~paused /\ paused' = TRUE
  /\ UNCHANGED <<pc, hardReset, exit, pending, anonymous, memory, files, machines, error>>

Resume ==
  /\ pc \in {"slice", "frame"} /\ paused /\ paused' = FALSE
  /\ UNCHANGED <<pc, hardReset, exit, pending, anonymous, memory, files, bounds, error>>

-----------------------------------------------------------------------------
(* run *)

\* the devices and the user interface have started: the first soft reset
StartReset ==
  /\ pc = "start" /\ pc' = "first"
  /\ \E g \in Games : memory' = [memory EXCEPT !.game = g]
  /\ anonymous' \in 0..MaxAnonymous
  /\ UNCHANGED <<flags, pending, files, bounds, error>>

\* the first request, and what was asked for before the loop
EnterLoop ==
  /\ pc = "first" /\ pc' = "loop" /\ HandleIfScheduled /\ hardReset' = FALSE
  /\ UNCHANGED <<paused, exit, anonymous, bounds, error>>

Ending == hardReset \/ exit

\* mutant: a hard reset does not end the loop
RunningOn == ~exit \/ request # Nothing

Running == ~Ending \/ request # Nothing

\* the emulation runs unless it is paused
Turn ==
  /\ pc = "loop" /\ Running /\ pc' = IF paused THEN "frame" ELSE "slice"
  /\ UNCHANGED <<flags, pending, anonymous, memory, files, bounds, error>>

\* timeslice returns: timers that were due have fired, that of a soft reset among them
Emulate ==
  /\ pc = "slice" /\ pc' = "after"
  /\ \E g \in Games : memory' = [game |-> g, reset |-> FALSE, ran |-> TRUE]
  /\ anonymous' \in 0..MaxAnonymous
  /\ waited' = IF request # Nothing /\ waited <= Second THEN waited + 1 ELSE waited
  /\ UNCHANGED <<flags, request, autosave, files, bounds, error>>

\* it returns before time has passed, aborted by what was called in it
Abort ==
  /\ pc = "slice" /\ pc' = "after"
  /\ \E g \in Games : memory' = [memory EXCEPT !.game = g]
  /\ anonymous' \in 0..MaxAnonymous
  /\ UNCHANGED <<flags, pending, files, bounds, error>>

FrameUpdate ==
  /\ pc = "frame" /\ pc' = "after"
  /\ UNCHANGED <<flags, pending, anonymous, memory, files, bounds, error>>

AfterTurn ==
  /\ pc = "after" /\ pc' = "loop" /\ HandleIfScheduled
  /\ UNCHANGED <<flags, anonymous, bounds, error>>

LeaveLoop ==
  /\ pc = "loop" /\ ~Running /\ pc' = "exit"
  /\ UNCHANGED <<flags, pending, anonymous, memory, files, bounds, error>>

\* an exception ends the machine wherever it is
Fail ==
  /\ Faults /\ pc \notin {"exit", "loop"} /\ pc' = "exit" /\ error' = TRUE
  /\ UNCHANGED <<flags, pending, anonymous, memory, files, bounds>>

\* the next machine: after a hard reset, or when the program is started again
NewMachine ==
  /\ pc = "exit" /\ machines > 0 /\ machines' = machines - 1 /\ pc' = "start"
  /\ paused' = FALSE /\ hardReset' = FALSE /\ exit' = FALSE
  /\ request' = StartRequest /\ waited' = 0 /\ autosave' = "none"
  /\ anonymous' = 0 /\ memory' = New /\ error' = FALSE
  /\ UNCHANGED <<files, calls>>

Calls ==
  \/ \E r \in Requests : ScheduleSaveLoad(r) \/ Immediate(r)
  \/ ScheduleExit \/ ScheduleHardReset \/ ScheduleSoftReset \/ Pause \/ Resume

Run == StartReset \/ EnterLoop \/ Turn \/ Emulate \/ Abort \/ FrameUpdate \/ AfterTurn
         \/ LeaveLoop

Next == Calls \/ Run \/ Fail \/ NewMachine

Spec == Init /\ [][Next]_vars

\* The loop goes on and slices let time pass (TimeAdvances of SchedulerProperties);
\* nothing obliges a user who has paused the machine to resume it.
FairSpec == Spec /\ WF_vars(Run) /\ SF_vars(Emulate)

-----------------------------------------------------------------------------
(* Properties. *)

\* The type of the state: running_machine's fields and the files.
TypeOK ==
  /\ pc \in {"start", "first", "loop", "slice", "frame", "after", "exit"}
  /\ {paused, hardReset, exit, error} \subseteq BOOLEAN
  /\ request \in Requests \cup {Nothing} /\ waited \in 0..(Second + 1)
  /\ anonymous \in 0..MaxAnonymous /\ calls \in 0..MaxCalls /\ machines \in 0..MaxMachines
  /\ memory \in Memory /\ files \in [Names -> Memory \cup {Nothing}]
  /\ autosave \in {"none", "pending", "saved", "failed", "replaced"}

\* When the exit's save was carried out, the file has the machine as it was at its
\* end: nothing is emulated after the save.
EndsAsSaved == pc = "exit" /\ ~error /\ autosave = "saved" => files[AutoSlot] = memory

\* A machine that is paused lets no anonymous timer fire and no time pass: a request
\* that waits for either waits until somebody resumes the machine, and the loop goes
\* on for it (machine.cpp:377) although an exit may have been asked for.
Stuck == paused /\ request # Nothing /\ anonymous > 0

\* Every request is carried out, given up or replaced, or the machine is Stuck for ever:
\* there is no other way in which one is left, although calls, pauses, slices that are
\* aborted and failures come in any order.
RequestEnds == <>[]Stuck \/ ((request # Nothing) ~> (request = Nothing \/ pc = "exit"))

\* An exit or a hard reset that is asked for while the loop runs ends the loop, unless
\* the machine is Stuck for ever: a machine that is paused without such a request, or
\* whose user resumes it, ends.
LoopEnds == <>[]Stuck \/ ((Ending /\ pc \notin {"start", "first"}) ~> (pc = "exit"))

\* "we can't be paused since we need to clear out anonymous timers" (machine.cpp:638):
\* a machine whose request waits for anonymous timers is not paused.
WaitsUnpaused == request # Nothing /\ anonymous > 0 => ~paused

\* "jump right into the save, anonymous timers can't hurt us!" (machine.cpp:655):
\* immediate_save and immediate_load are done when they return.
ImmediateDone == [][\A r \in Requests : Immediate(r) => request' = Nothing]_vars

\* -autosave "automatically creates a save state file when exiting" (docs/config.txt:545):
\* when an exit has asked for a save that did not fail, the file has the machine's end.
AutosaveMade == pc = "exit" /\ ~error /\ autosave \notin {"none", "failed"} => files[AutoSlot] = memory

================================================================================
