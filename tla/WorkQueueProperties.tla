-------------------------- MODULE WorkQueueProperties --------------------------
(***************************************************************************)
(* The properties of WorkQueue, and the mapping to what it promises.       *)
(***************************************************************************)
EXTENDS WorkQueue

Labels == {"idle", "alloc", "count", "look", "notify", "return",
           "take", "run", "mark", "settle", "drained", "announce",
           "top", "check", "sleep", "go", "enter", "more", "leave", "discount", "gone",
           "helped", "spin", "arm", "flag", "recheck", "block", "unflag", "reply",
           "prime", "ready", "iblock", "verdict", "push", "wakeall", "join", "freed"}

\* The type of the state: work_osd.cpp's fields and the places of its threads.
TypeOK ==
  /\ list \in Seq(Items) /\ free \in Seq(Items) /\ batch \in Seq(Items)
  /\ fresh \subseteq Items /\ held \subseteq Items
  /\ items \in Int /\ live \in Int /\ left \in Nat /\ scan \in Nat \ {0} /\ budget \in Nat
  /\ waiting \in BOOLEAN /\ exiting \in BOOLEAN
  /\ doneevent \in BOOLEAN /\ releasing \in BOOLEAN
  /\ active \in [Workers -> BOOLEAN] /\ wake \in [Workers -> BOOLEAN]
  /\ done \in [Items -> BOOLEAN] /\ event \in [Items -> {"none", "reset", "set"}]
  /\ pc \in [Agents -> Labels] /\ at \in [Agents -> Items \cup {NoItem}]
  /\ last \in Items \cup {NoItem}
  /\ answer \in [Clients -> {"none", "empty", "busy", "done", "pending"}]
  /\ gaveUp \in [Clients -> BOOLEAN]

-----------------------------------------------------------------------------

Running == {at[a] : a \in {b \in Agents : pc[b] = "run"}}

\* Items a thread still has to mark or to settle after their callbacks.
InHand == {at[a] : a \in {b \in Agents : pc[b] \in {"run", "mark", "settle"}}}

Free == fresh \cup ToSet(free)

\* A work item is in one place: on the queue's list once, on the free list
\* once, in the producer's batch, or in the hands of one thread; with items
\* that are released automatically no thread holds one that is free again
\* (worker_thread_process touches the item after its callback).
OnePlace ==
  /\ IsInjective(list) /\ IsInjective(free) /\ IsInjective(batch)
  /\ ToSet(free) \cap fresh = {}
  /\ ToSet(list) \cap (ToSet(batch) \cup Free) = {}
  /\ ToSet(batch) \cap Free = {}
  /\ Running \cap (ToSet(list) \cup ToSet(batch) \cup Free) = {}
  /\ \A a, b \in Agents : pc[a] = "run" /\ pc[b] = "run" /\ at[a] = at[b] => a = b
  /\ AutoRelease => InHand \cap (ToSet(list) \cup ToSet(batch) \cup Free) = {}

\* The counter that osd_work_queue_items and osd_work_queue_wait read: it is
\* the number of items listed or running, but for a batch that is linked and
\* not counted yet.
ItemsCounted ==
  pc[Producer] # "freed" =>
    items = Len(list) + Cardinality({a \in Agents : pc[a] = "run"})
              - (IF pc[Producer] = "count" THEN left ELSE 0)

\* No wake-up is lost: once the producer has returned from queueing, an item on
\* the list means that some worker is on its way to it, or its wake event is set.
NoLostWakeup ==
  list # <<>> /\ ~exiting /\ Threads > 0 /\ pc[Producer] \notin {"count", "look", "notify"}
    => \E w \in Workers : pc[w] # "sleep" \/ wake[w]

\* osd_work_queue_wait returns FALSE only when it has timed out (osdcore.h:530).
WaitHonest == answer[Producer] = "busy" => gaveUp[Producer]

\* osd_work_item_wait returns FALSE only when it has timed out (osdcore.h:607).
ItemWaitHonest == answer[Collector] = "pending" => gaveUp[Collector]

\* osd_work_item_release: "make sure we're done first" (work_osd.cpp:587): no
\* item is on the free list, to be used again, before it is marked done.
ReleasedIsDone == \A i \in ToSet(free) : done[i]

\* osd_work_queue_free: "waiting for all items to complete" (osdcore.h:539): what
\* the queue's memory is freed with is not on the list of items still to run.
FreeCompletes == pc[Producer] = "join" /\ (\A w \in Workers : pc[w] = "gone") => list = <<>>

-----------------------------------------------------------------------------
(* What becomes of an item, as WorkItems tells it. *)

StageOf(i) ==
  IF i \in Running THEN "running"
  ELSE IF i \in ToSet(list) THEN "queued"
  ELSE IF i \in ToSet(batch) THEN "prepared"
  ELSE IF i \in Free THEN "free"
  ELSE "finished"

Promise == INSTANCE WorkItems WITH
  stage <- [i \in Items |-> StageOf(i)],
  saidEmpty <- answer[Producer] = "empty"

\* The queue keeps its promise: each item queued is run once, by one thread,
\* and is not recycled before; a wait that says the queue is empty is right.
KeepsPromise == Promise!Spec

\* Every item queued is started, or thrown away with the queue.
EveryItemRuns == \A i \in Items : (i \in ToSet(list)) ~> (i \notin ToSet(list))

\* A wait for the queue returns.
WaitReturns == (pc[Producer] \in {"helped", "arm", "block"}) ~> (pc[Producer] = "idle")

\* A wait for an item, or its release, returns.
ItemWaitReturns == (pc[Collector] = "prime") ~> (pc[Collector] = "idle")

\* Freeing the queue ends: every thread leaves, wherever it was.
FreeEnds == exiting ~> (pc[Producer] = "freed")

================================================================================
