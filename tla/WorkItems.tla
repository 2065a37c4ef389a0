------------------------------- MODULE WorkItems -------------------------------
(***************************************************************************)
(* What a work queue promises to the code that queues items on it: an item *)
(* is handed out, submitted, run once by one thread and only then recycled *)
(* or kept by its queuer; and a wait that says the queue is empty is right.*)
(***************************************************************************)
CONSTANT Items

VARIABLES stage,     \* of each item: free, prepared, queued, running or finished
          saidEmpty  \* has a wait for the queue answered that it is empty?

Outstanding == {i \in Items : stage[i] \in {"queued", "running"}}

Init == stage = [i \in Items |-> "free"] /\ saidEmpty = FALSE

Move(S, from, to) ==
  /\ \A i \in S : stage[i] = from
  /\ stage' = [i \in Items |-> IF i \in S THEN to ELSE stage[i]]

Prepare(i) == Move({i}, "free", "prepared") /\ UNCHANGED saidEmpty
\* several items are submitted at once; a submission withdraws the answer
Submit(S)  == S # {} /\ Move(S, "prepared", "queued") /\ saidEmpty' = FALSE
Start(i)   == Move({i}, "queued", "running") /\ UNCHANGED saidEmpty
Finish(i)  == Move({i}, "running", "finished") /\ UNCHANGED saidEmpty
Recycle(i) == Move({i}, "finished", "free") /\ UNCHANGED saidEmpty
\* the queue is freed: what was never started is thrown away
Discard(S) == Move(S, "queued", "free") /\ UNCHANGED saidEmpty
Answer     == Outstanding = {} /\ saidEmpty' = TRUE /\ UNCHANGED stage
Forget     == saidEmpty' = FALSE /\ UNCHANGED stage

Next ==
  \/ \E i \in Items : Prepare(i) \/ Start(i) \/ Finish(i) \/ Recycle(i)
  \/ \E S \in SUBSET Items : Submit(S) \/ Discard(S)
  \/ Answer \/ Forget

Spec == Init /\ [][Next]_<<stage, saidEmpty>>

================================================================================
