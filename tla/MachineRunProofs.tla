--------------------------- MODULE MachineRunProofs ---------------------------
(***************************************************************************)
(* What holds in every run of MachineRun, whatever its bounds: the types,  *)
(* and that a machine whose exit saved it ends as it was saved.            *)
(***************************************************************************)
EXTENDS MachineRun, TLAPS

-----------------------------------------------------------------------------
(* The types. *)

\* The bounds are natural numbers.
LEMMA BoundsAreNat == Second \in Nat /\ MaxAnonymous \in Nat /\ MaxCalls \in Nat /\ MaxMachines \in Nat
BY RunAssumption

\* A machine that has just been made is one that a file may have.
LEMMA NewIsMemory == New \in Memory
BY RunAssumption DEF New, Memory

\* The option's request is one.
LEMMA StartRequestIsRequest == StartRequest \in Requests \cup {Nothing}
BY RunAssumption DEF StartRequest, Requests

\* What handle_saveload leaves has its types when what it is given has.
LEMMA HandleTypes ==
  ASSUME TypeOK, NEW r \in Requests, NEW age \in 0..(Second + 1),
         NEW mark \in {"none", "pending", "saved", "failed", "replaced"},
         Handle(r, age, mark)
  PROVE  /\ request' \in {r, Nothing} /\ waited' \in 0..(Second + 1)
         /\ memory' \in Memory /\ files' \in [Names -> Memory \cup {Nothing}]
         /\ autosave' \in {"none", "pending", "saved", "failed", "replaced"}
<1>. USE RunAssumption DEF TypeOK
<1>0. r.name \in Names
  BY DEF Requests
<1>1. CASE anonymous = 0 /\ Perform(r, mark)
  <2>1. CASE Save(r.name, mark)
    BY <1>0, <2>1 DEF Save, Unschedule
  <2>2. CASE Load(r.name, mark)
    <3>1. files[r.name] # Nothing => files[r.name] \in Memory
      BY <1>0
    <3>. QED  BY <1>0, <2>2, <3>1 DEF Load, Unschedule
  <2>. QED  BY <1>1, <2>1, <2>2 DEF Perform
<1>2. CASE Wait(r, age, mark)
  BY <1>2 DEF Wait
<1>3. CASE Unschedule(FALSE, mark) /\ UNCHANGED <<memory, files>>
  BY <1>3 DEF Unschedule
<1>. QED  BY <1>1, <1>2, <1>3 DEF Handle

\* The same for the calls of it in the loop.
LEMMA ScheduledTypes ==
  ASSUME TypeOK, HandleIfScheduled
  PROVE  /\ request' \in Requests \cup {Nothing} /\ waited' \in 0..(Second + 1)
         /\ memory' \in Memory /\ files' \in [Names -> Memory \cup {Nothing}]
         /\ autosave' \in {"none", "pending", "saved", "failed", "replaced"}
<1>1. CASE request = Nothing
  BY <1>1 DEF HandleIfScheduled, TypeOK, pending
<1>2. CASE request # Nothing
  <2>1. request \in Requests /\ waited \in 0..(Second + 1)
        /\ autosave \in {"none", "pending", "saved", "failed", "replaced"}
    BY <1>2 DEF TypeOK
  <2>2. Handle(request, waited, autosave)
    BY <1>2 DEF HandleIfScheduled
  <2>. QED  BY <2>1, <2>2, HandleTypes
<1>. QED  BY <1>1, <1>2

LEMMA TypeInit == Init => TypeOK
<1> SUFFICES ASSUME Init PROVE TypeOK
  OBVIOUS
<1>1. {paused, hardReset, exit, error} \subseteq BOOLEAN
  BY DEF Init
<1>2. files \in [Names -> Memory \cup {Nothing}]
  BY DEF Init
<1>. QED  BY <1>1, <1>2, BoundsAreNat, NewIsMemory, StartRequestIsRequest DEF Init, TypeOK

LEMMA TypeStep == TypeOK /\ [Next]_vars => TypeOK'
<1> SUFFICES ASSUME TypeOK, [Next]_vars PROVE TypeOK'
  OBVIOUS
<1>. USE RunAssumption, BoundsAreNat DEF TypeOK, pending, flags, bounds
<1>1. ASSUME NEW r \in Requests, ScheduleSaveLoad(r) PROVE TypeOK'
  <2>1. {paused', hardReset', exit', error'} \subseteq BOOLEAN
    BY <1>1 DEF ScheduleSaveLoad, Schedule
  <2>2. calls' \in 0..MaxCalls
    BY <1>1 DEF ScheduleSaveLoad, Calling, Called
  <2>. QED  BY <1>1, <2>1, <2>2 DEF ScheduleSaveLoad, Schedule, Replaced
<1>2. ASSUME NEW r \in Requests, Immediate(r) PROVE TypeOK'
  <2>1. Replaced \in {"none", "pending", "saved", "failed", "replaced"} /\ 0 \in 0..(Second + 1)
    BY DEF Replaced
  <2>2. Handle(r, 0, Replaced)
    BY <1>2 DEF Immediate
  <2>3. /\ request' \in {r, Nothing} /\ waited' \in 0..(Second + 1)
        /\ memory' \in Memory /\ files' \in [Names -> Memory \cup {Nothing}]
        /\ autosave' \in {"none", "pending", "saved", "failed", "replaced"}
    <3>. HIDE DEF TypeOK
    <3>. QED  BY <2>1, <2>2, HandleTypes
  <2>. QED  BY <1>2, <2>3 DEF Immediate, Debugging, Called
<1>3. ASSUME ScheduleExit PROVE TypeOK'
  <2>1. [kind |-> "save", name |-> AutoSlot] \in Requests
    BY DEF Requests
  <2>2. {paused', hardReset', exit', error'} \subseteq BOOLEAN
    BY <1>3 DEF ScheduleExit, Schedule
  <2>3. calls' \in 0..MaxCalls
    BY <1>3 DEF ScheduleExit, Calling, Called
  <2>4. CASE Autosave /\ memory.ran
    BY <1>3, <2>1, <2>2, <2>3, <2>4 DEF ScheduleExit, Schedule
  <2>5. CASE ~(Autosave /\ memory.ran)
    BY <1>3, <2>2, <2>3, <2>5 DEF ScheduleExit
  <2>. QED  BY <2>4, <2>5
<1>4. ASSUME ScheduleHardReset PROVE TypeOK'
  BY <1>4 DEF ScheduleHardReset, Calling, Called
<1>5. ASSUME ScheduleSoftReset PROVE TypeOK'
  <2>1. {paused', hardReset', exit', error'} \subseteq BOOLEAN
    BY <1>5 DEF ScheduleSoftReset
  <2>2. calls' \in 0..MaxCalls
    BY <1>5 DEF ScheduleSoftReset, Calling, Called
  <2>3. memory' \in Memory
    BY <1>5 DEF ScheduleSoftReset, Memory
  <2>. QED  BY <1>5, <2>1, <2>2, <2>3 DEF ScheduleSoftReset
<1>6. ASSUME Pause PROVE TypeOK'
  BY <1>6 DEF Pause, Calling, Called
<1>7. ASSUME Resume PROVE TypeOK'
  BY <1>7 DEF Resume
<1>8. ASSUME StartReset PROVE TypeOK'
  BY <1>8 DEF StartReset, Memory
<1>9. ASSUME EnterLoop PROVE TypeOK'
  <2>1. HandleIfScheduled
    BY <1>9 DEF EnterLoop
  <2>. QED  BY <1>9, <2>1, ScheduledTypes DEF EnterLoop
<1>10. ASSUME Turn PROVE TypeOK'
  BY <1>10 DEF Turn
<1>11. ASSUME Emulate PROVE TypeOK'
  BY <1>11 DEF Emulate, Memory
<1>12. ASSUME Abort PROVE TypeOK'
  BY <1>12 DEF Abort, Memory
<1>13. ASSUME FrameUpdate PROVE TypeOK'
  BY <1>13 DEF FrameUpdate
<1>14. ASSUME AfterTurn PROVE TypeOK'
  <2>1. HandleIfScheduled
    BY <1>14 DEF AfterTurn
  <2>. QED  BY <1>14, <2>1, ScheduledTypes DEF AfterTurn
<1>15. ASSUME LeaveLoop PROVE TypeOK'
  BY <1>15 DEF LeaveLoop
<1>16. ASSUME Fail PROVE TypeOK'
  BY <1>16 DEF Fail
<1>17. ASSUME NewMachine PROVE TypeOK'
  <2>1. {paused', hardReset', exit', error'} \subseteq BOOLEAN
    BY <1>17 DEF NewMachine
  <2>2. machines' \in 0..MaxMachines
    BY <1>17 DEF NewMachine
  <2>. QED  BY <1>17, <2>1, <2>2, NewIsMemory, StartRequestIsRequest DEF NewMachine
<1>18. CASE UNCHANGED vars
  BY <1>18 DEF vars
<1>. QED
  BY <1>1, <1>2, <1>3, <1>4, <1>5, <1>6, <1>7, <1>8, <1>9, <1>10, <1>11, <1>12, <1>13, <1>14,
     <1>15, <1>16, <1>17, <1>18
  DEF Next, Calls, Run

\* The state has its type in every run: running_machine's fields and the files.
THEOREM TypesKept == Spec => []TypeOK
BY TypeInit, TypeStep, PTL DEF Spec

-----------------------------------------------------------------------------
(* The save of an exit. *)

\* The exit's save is the request that waits, until it is carried out, given up or
\* replaced; and when it has been carried out nothing is left to do but leave the loop.
SaveLast ==
  /\ autosave = "pending" => exit /\ request = [kind |-> "save", name |-> AutoSlot]
  /\ autosave = "saved" =>
       pc \in {"loop", "exit"} /\ exit /\ request = Nothing /\ files[AutoSlot] = memory

\* handle_saveload in the loop: a save that was pending leaves the file as the machine is.
LEMMA SaveMakesFile ==
  ASSUME TypeOK, SaveLast, autosave # "saved", HandleIfScheduled, UNCHANGED exit
  PROVE  /\ autosave' = "pending" =>
              exit' /\ request' = [kind |-> "save", name |-> AutoSlot]
         /\ autosave' = "saved" =>
              exit' /\ request' = Nothing /\ files'[AutoSlot] = memory'
<1>. USE RunAssumption
<1>1. CASE autosave # "pending"
  <2>1. autosave' = autosave
    BY <1>1 DEF HandleIfScheduled, pending, Handle, Perform, Save, Load, Wait, Unschedule
  <2>. QED  BY <1>1, <2>1
<1>2. CASE autosave = "pending"
  <2>1. exit /\ request = [kind |-> "save", name |-> AutoSlot]
    BY <1>2 DEF SaveLast
  <2>2. request.kind = "save" /\ request.name = AutoSlot /\ request \in Requests
    BY <2>1 DEF Requests
  <2>3. request # Nothing => Handle(request, waited, autosave)
    BY DEF HandleIfScheduled
  <2>4. CASE request = Nothing
    BY <1>2, <2>1, <2>4 DEF HandleIfScheduled, pending
  <2>5. CASE Save(AutoSlot, autosave)
    BY <1>2, <2>1, <2>5 DEF Save, Unschedule, TypeOK
  <2>6. CASE Wait(request, waited, autosave)
    BY <1>2, <2>1, <2>6 DEF Wait
  <2>7. CASE Unschedule(FALSE, autosave)
    BY <1>2, <2>7 DEF Unschedule
  <2>. QED  BY <2>2, <2>3, <2>4, <2>5, <2>6, <2>7 DEF Handle, Perform
<1>. QED  BY <1>1, <1>2

LEMMA SaveLastInit == Init => SaveLast
BY DEF Init, SaveLast

LEMMA SaveLastStep == TypeOK /\ SaveLast /\ [Next]_vars => SaveLast'
<1> SUFFICES ASSUME TypeOK, SaveLast, [Next]_vars PROVE SaveLast'
  OBVIOUS
<1>. USE RunAssumption DEF SaveLast, pending, flags, bounds
<1>1. ASSUME NEW r \in Requests, ScheduleSaveLoad(r) PROVE SaveLast'
  BY <1>1 DEF ScheduleSaveLoad, Calling, Schedule, Replaced
<1>2. ASSUME NEW r \in Requests, Immediate(r) PROVE SaveLast'
  <2>1. autosave # "saved" /\ Replaced \notin {"pending", "saved"}
    BY <1>2 DEF Immediate, Debugging, Replaced
  <2>2. autosave' = Replaced
    BY <1>2, <2>1 DEF Immediate, Handle, Perform, Save, Load, Wait, Unschedule
  <2>. QED  BY <2>1, <2>2
<1>3. ASSUME ScheduleExit PROVE SaveLast'
  BY <1>3 DEF ScheduleExit, Calling, Schedule
<1>4. ASSUME ScheduleHardReset PROVE SaveLast'
  BY <1>4 DEF ScheduleHardReset, Calling
<1>5. ASSUME ScheduleSoftReset PROVE SaveLast'
  BY <1>5 DEF ScheduleSoftReset, Calling
<1>6. ASSUME Pause PROVE SaveLast'
  BY <1>6 DEF Pause, Calling
<1>7. ASSUME Resume PROVE SaveLast'
  BY <1>7 DEF Resume
<1>8. ASSUME StartReset PROVE SaveLast'
  BY <1>8 DEF StartReset
<1>9. ASSUME EnterLoop PROVE SaveLast'
  <2>1. HandleIfScheduled /\ UNCHANGED exit /\ autosave # "saved" /\ pc' = "loop"
    BY <1>9 DEF EnterLoop
  <2>. QED  BY <2>1, SaveMakesFile
<1>10. ASSUME Turn PROVE SaveLast'
  BY <1>10 DEF Turn, Running, Ending
<1>11. ASSUME Emulate PROVE SaveLast'
  BY <1>11 DEF Emulate
<1>12. ASSUME Abort PROVE SaveLast'
  BY <1>12 DEF Abort
<1>13. ASSUME FrameUpdate PROVE SaveLast'
  BY <1>13 DEF FrameUpdate
<1>14. ASSUME AfterTurn PROVE SaveLast'
  <2>1. HandleIfScheduled /\ UNCHANGED exit /\ autosave # "saved" /\ pc' = "loop"
    BY <1>14 DEF AfterTurn
  <2>. QED  BY <2>1, SaveMakesFile
<1>15. ASSUME LeaveLoop PROVE SaveLast'
  BY <1>15 DEF LeaveLoop
<1>16. ASSUME Fail PROVE SaveLast'
  BY <1>16 DEF Fail
<1>17. ASSUME NewMachine PROVE SaveLast'
  BY <1>17 DEF NewMachine
<1>18. CASE UNCHANGED vars
  BY <1>18 DEF vars
<1>. QED
  BY <1>1, <1>2, <1>3, <1>4, <1>5, <1>6, <1>7, <1>8, <1>9, <1>10, <1>11, <1>12, <1>13, <1>14,
     <1>15, <1>16, <1>17, <1>18
  DEF Next, Calls, Run

\* When the exit's save was carried out, the file has the machine as it was at its end:
\* handle_saveload runs at the end of a turn, and with the exit pending and no request
\* left the loop of running_machine::run emulates nothing more.
THEOREM AutosaveIsLast == Spec => []EndsAsSaved
<1>1. SaveLast => EndsAsSaved
  BY DEF SaveLast, EndsAsSaved
<1>. QED  BY <1>1, TypeInit, TypeStep, SaveLastInit, SaveLastStep, PTL DEF Spec

================================================================================
