------------------------------- MODULE WorkQueue -------------------------------
(***************************************************************************)
(* A work queue (src/osd/modules/sync/work_osd.cpp) over the events of     *)
(* src/osd/modules/sync/sync_tc.cpp: items are queued by one thread, run   *)
(* by the queue's worker threads, waited for and released.                 *)
(*                                                                         *)
(* Every access to a field that another thread may write is a step; what   *)
(* the code does between lock() and unlock() of the queue's mutex, or of   *)
(* an event's, is one step.  The producer queues items, waits for the      *)
(* queue and frees it; the collector waits for single items and releases   *)
(* them.  They may be one thread (epic12) or two (the CHD compressor).     *)
(* Statistics, priorities and the items' parameters are left out.  The     *)
(* spin of a high frequency worker delays its next look at the list and is *)
(* no step.                                                                *)
(***************************************************************************)
EXTENDS Integers, FiniteSets, SequencesExt

CONSTANTS Threads,        \* worker threads of the queue; 0 on a single processor
          Producer,       \* the thread that queues, waits for and frees the queue
          Collector,      \* the thread that waits for items and releases them
          Items, NoItem,  \* memory for work items
          Multi,          \* WORK_QUEUE_FLAG_MULTI
          HighFreq,       \* WORK_QUEUE_FLAG_HIGH_FREQ
          AutoRelease,    \* WORK_ITEM_FLAG_AUTO_RELEASE, the same for all items
          Patient,        \* are items released only once a wait said they are done?
          Timeouts,       \* may a wait run into its time-out?
          Spurious,       \* may an event wait return although nothing was signalled?
          Batches,        \* numbers of items queued by one call
          MaxQueued       \* bound: items queued in a behaviour

Workers == 1..Threads
Clients == {Producer, Collector}
Agents  == Workers \cup Clients

ASSUME WorkQueueAssumption ==
  /\ Threads \in Nat
  /\ Clients \cap Workers = {} /\ NoItem \notin Items /\ IsFiniteSet(Items)
  /\ Multi \in BOOLEAN /\ HighFreq \in BOOLEAN /\ AutoRelease \in BOOLEAN
  /\ Patient \in BOOLEAN /\ Timeouts \in BOOLEAN /\ Spurious \in BOOLEAN
  /\ Batches \subseteq Nat \ {0}
  /\ AutoRelease \/ Batches \subseteq {1}   \* only the last item of a batch is returned
  /\ MaxQueued \in Nat

VARIABLES
  list, free,    \* the queue's lists of work items
  fresh,         \* memory not allocated
  items,         \* queue->items
  live,          \* queue->livethreads
  waiting, exiting,
  doneevent,     \* is it signalled?  a manual reset event
  active, wake,  \* of each worker: thread->active, and the auto-reset wakeevent
  done, event,   \* of each item: item->done, and its event: "none", "reset" or "set"
  pc, at,        \* where a thread is, and the item it has in hand
  batch, left, scan, last,  \* locals of osd_work_item_queue_multiple
  releasing,     \* is the collector in osd_work_item_release?
  held,          \* items returned to the queuer and not yet released
  answer, gaveUp,  \* of each client: what its last wait returned; did it time out?
  budget         \* what is left of the bound MaxQueued

listVars   == <<list, free, fresh>>
flagVars   == <<waiting, exiting, doneevent>>
threadVars == <<live, active, wake>>
itemVars   == <<done, event>>
callVars   == <<batch, left, scan, last, budget>>
replyVars  == <<releasing, held, answer, gaveUp>>
vars == <<listVars, items, flagVars, threadVars, itemVars, pc, at, callVars, replyVars>>

\* after osd_work_queue_alloc; the threads start with worker_thread_entry
Init ==
  /\ list = <<>> /\ free = <<>> /\ fresh = Items
  /\ items = 0 /\ live = 0
  /\ waiting = FALSE /\ exiting = FALSE /\ doneevent = TRUE
  /\ active = [w \in Workers |-> FALSE] /\ wake = [w \in Workers |-> FALSE]
  /\ done = [i \in Items |-> FALSE] /\ event = [i \in Items |-> "none"]
  /\ pc = [a \in Agents |-> IF a \in Workers THEN "top" ELSE "idle"]
  /\ at = [a \in Agents |-> NoItem]
  /\ batch = <<>> /\ left = 0 /\ scan = 1 /\ last = NoItem
  /\ releasing = FALSE /\ held = {}
  /\ answer = [c \in Clients |-> "none"] /\ gaveUp = [c \in Clients |-> FALSE]
  /\ budget = MaxQueued

Goto(a, from, to) == pc[a] = from /\ pc' = [pc EXCEPT ![a] = to]

-----------------------------------------------------------------------------
(* osd_work_item_queue_multiple *)

\* the call; enough memory for its items is a bound of the model
Queue(n) ==
  /\ ~exiting /\ n <= budget /\ n <= Len(free) + Cardinality(fresh)
  /\ Goto(Producer, "idle", "alloc")
  /\ left' = n /\ budget' = budget - n
  /\ answer' = [answer EXCEPT ![Producer] = "none"]
  /\ UNCHANGED <<listVars, items, flagVars, threadVars, itemVars, at, batch, scan, last,
                 releasing, held, gaveUp>>

\* an item from the free list or a new one; only a new one gets a new event
AllocItem ==
  /\ Goto(Producer, "alloc", "alloc") /\ Len(batch) < left
  /\ \E i \in Items :
       /\ \/ free # <<>> /\ i = Head(free) /\ free' = Tail(free)
             /\ UNCHANGED <<fresh, event>>
          \/ free = <<>> /\ i \in fresh /\ fresh' = fresh \ {i}
             /\ event' = [event EXCEPT ![i] = "none"] /\ UNCHANGED free
       /\ done' = [done EXCEPT ![i] = FALSE]
       /\ batch' = Append(batch, i) /\ last' = i
  /\ UNCHANGED <<list, items, flagVars, threadVars, at, left, scan, budget, replyVars>>

\* mutant: the local list is not given up when it is linked
LinkBatchKeeping ==
  /\ Goto(Producer, "alloc", "count") /\ Len(batch) = left
  /\ list' = list \o batch
  /\ UNCHANGED <<free, fresh, items, flagVars, threadVars, itemVars, at, callVars, replyVars>>

\* the whole batch is linked at the tail within the critical section ...
LinkBatch ==
  /\ Goto(Producer, "alloc", "count") /\ Len(batch) = left
  /\ list' = list \o batch /\ batch' = <<>>
  /\ UNCHANGED <<free, fresh, items, flagVars, threadVars, itemVars, at, left, scan, last,
                 budget, replyVars>>

\* mutant: one item counted, however many were linked
CountOne ==
  /\ Goto(Producer, "count", "look") /\ items' = items + 1
  /\ UNCHANGED <<listVars, flagVars, threadVars, itemVars, at, callVars, replyVars>>

\* ... and counted after it
CountBatch ==
  /\ Goto(Producer, "count", "look") /\ items' = items + left
  /\ UNCHANGED <<listVars, flagVars, threadVars, itemVars, at, callVars, replyVars>>

\* are there threads to wake?  without any thread the caller works
LookForThreads ==
  /\ Goto(Producer, "look", IF live < Threads THEN "notify"
                            ELSE IF Threads = 0 THEN "take" ELSE "return")
  /\ scan' = 1
  /\ UNCHANGED <<listVars, items, flagVars, threadVars, itemVars, at, batch, left, last,
                 budget, replyVars>>

\* mutant: the test of active inverted
WakeActiveThread ==
  LET last1 == active[scan] /\ left = 1 IN
  /\ scan <= Threads
  /\ Goto(Producer, "notify", IF last1 \/ scan = Threads THEN "return" ELSE "notify")
  /\ scan' = scan + 1
  /\ IF ~active[scan] THEN UNCHANGED <<wake, left>>
     ELSE wake' = [wake EXCEPT ![scan] = TRUE] /\ left' = left - 1
  /\ UNCHANGED <<listVars, items, flagVars, live, active, itemVars, at, batch, last, budget,
                 replyVars>>

\* wake the next thread that is not active, one for each item
WakeThread ==
  LET last1 == ~active[scan] /\ left = 1 IN
  /\ scan <= Threads
  /\ Goto(Producer, "notify", IF last1 \/ scan = Threads THEN "return" ELSE "notify")
  /\ scan' = scan + 1
  /\ IF active[scan] THEN UNCHANGED <<wake, left>>
     ELSE wake' = [wake EXCEPT ![scan] = TRUE] /\ left' = left - 1
  /\ UNCHANGED <<listVars, items, flagVars, live, active, itemVars, at, batch, last, budget,
                 replyVars>>

\* the item is returned unless it is released automatically
QueueReturn ==
  /\ Goto(Producer, "return", "idle")
  /\ held' = IF AutoRelease THEN held ELSE held \cup {last}
  /\ last' = NoItem /\ left' = 0 /\ scan' = 1   \* the call's locals are gone
  /\ UNCHANGED <<listVars, items, flagVars, threadVars, itemVars, at, batch, budget,
                 releasing, answer, gaveUp>>

-----------------------------------------------------------------------------
(* worker_thread_process, by a worker thread, or by the producer in its call *)
(* to queue or to wait                                                       *)

\* where worker_thread_process returns to
After(a) == IF a \in Workers THEN "more" ELSE IF Threads = 0 THEN "return" ELSE "helped"

\* mutant: the item is marked done before its callback is called
TakeItemDone(a) ==
  /\ \/ /\ list # <<>> /\ Goto(a, "take", "run")
        /\ at' = [at EXCEPT ![a] = Head(list)] /\ list' = Tail(list)
        /\ done' = [done EXCEPT ![Head(list)] = TRUE]
     \/ list = <<>> /\ Goto(a, "take", "drained") /\ UNCHANGED <<list, at, done>>
  /\ UNCHANGED <<free, fresh, items, flagVars, threadVars, event, callVars, replyVars>>

\* pull the first item, or stop
TakeItem(a) ==
  /\ \/ /\ list # <<>> /\ Goto(a, "take", "run")
        /\ at' = [at EXCEPT ![a] = Head(list)] /\ list' = Tail(list)
     \/ list = <<>> /\ Goto(a, "take", "drained") /\ UNCHANGED <<list, at>>
  /\ UNCHANGED <<free, fresh, items, flagVars, threadVars, itemVars, callVars, replyVars>>

\* the callback returns and the item is no longer counted
FinishItem(a) ==
  /\ Goto(a, "run", "mark") /\ items' = items - 1
  /\ UNCHANGED <<listVars, flagVars, threadVars, itemVars, at, callVars, replyVars>>

MarkDone(a) ==
  /\ Goto(a, "mark", "settle") /\ done' = [done EXCEPT ![at[a]] = TRUE]
  /\ UNCHANGED <<listVars, items, flagVars, threadVars, event, at, callVars, replyVars>>

\* release the item, or signal its event if somebody has made one
SettleItem(a) ==
  LET i == at[a] IN
  /\ Goto(a, "settle", "take") /\ at' = [at EXCEPT ![a] = NoItem]
  /\ IF AutoRelease THEN free' = <<i>> \o free /\ UNCHANGED event
     ELSE /\ event' = [event EXCEPT ![i] = IF @ = "none" THEN "none" ELSE "set"]
          /\ UNCHANGED free
  /\ UNCHANGED <<list, fresh, items, flagVars, threadVars, done, callVars, replyVars>>

\* is somebody waiting for the queue?
ReadWaiting(a) ==
  /\ Goto(a, "drained", IF waiting THEN "announce" ELSE After(a))
  /\ UNCHANGED <<listVars, items, flagVars, threadVars, itemVars, at, callVars, replyVars>>

Announce(a) ==
  /\ Goto(a, "announce", After(a)) /\ doneevent' = TRUE
  /\ UNCHANGED <<listVars, items, waiting, exiting, threadVars, itemVars, at, callVars,
                 replyVars>>

Process(a) == TakeItem(a) \/ FinishItem(a) \/ MarkDone(a) \/ SettleItem(a)
              \/ ReadWaiting(a) \/ Announce(a)

-----------------------------------------------------------------------------
(* worker_thread_entry *)

WorkerUnchanged == UNCHANGED <<listVars, items, flagVars, itemVars, at, callVars, replyVars>>

CheckExit(w) ==
  /\ Goto(w, "top", IF exiting THEN "gone" ELSE "check")
  /\ UNCHANGED threadVars /\ WorkerUnchanged

\* mutant: waits without looking at the list
SleepAnyway(w) ==
  /\ Goto(w, "check", "sleep")
  /\ UNCHANGED threadVars /\ WorkerUnchanged

\* only wait if there are no pending items
CheckList(w) ==
  /\ Goto(w, "check", IF list # <<>> THEN "go" ELSE "sleep")
  /\ UNCHANGED threadVars /\ WorkerUnchanged

WakeUp(w) ==
  /\ Goto(w, "sleep", "go") /\ (wake[w] \/ Spurious)
  /\ wake' = [wake EXCEPT ![w] = FALSE]
  /\ UNCHANGED <<live, active>> /\ WorkerUnchanged

\* bail on exit, otherwise the thread becomes active ...
GoActive(w) ==
  /\ Goto(w, "go", IF exiting THEN "gone" ELSE "enter")
  /\ active' = [active EXCEPT ![w] = ~exiting]
  /\ UNCHANGED <<live, wake>> /\ WorkerUnchanged

\* ... and is counted
CountLive(w) ==
  /\ Goto(w, "enter", "take") /\ live' = live + 1
  /\ UNCHANGED <<active, wake>> /\ WorkerUnchanged

LookForMore(w) ==
  /\ Goto(w, "more", IF list # <<>> THEN "take" ELSE "leave")
  /\ UNCHANGED threadVars /\ WorkerUnchanged

GoInactive(w) ==
  /\ Goto(w, "leave", "discount") /\ active' = [active EXCEPT ![w] = FALSE]
  /\ UNCHANGED <<live, wake>> /\ WorkerUnchanged

Discount(w) ==
  /\ Goto(w, "discount", "top") /\ live' = live - 1
  /\ UNCHANGED <<active, wake>> /\ WorkerUnchanged

Worker(w) == CheckExit(w) \/ CheckList(w) \/ WakeUp(w) \/ GoActive(w) \/ CountLive(w)
             \/ LookForMore(w) \/ GoInactive(w) \/ Discount(w) \/ Process(w)

-----------------------------------------------------------------------------
(* osd_work_queue_wait *)

WaitUnchanged == UNCHANGED <<listVars, items, threadVars, itemVars, at, callVars, releasing,
                             held>>

\* mutant: looks at the list instead of the counter
WaitForList ==
  LET empty == Threads = 0 \/ list = <<>> IN
  /\ ~exiting
  /\ Goto(Producer, "idle", IF empty THEN "idle" ELSE IF Multi THEN "take" ELSE "arm")
  /\ answer' = [answer EXCEPT ![Producer] = IF empty THEN "empty" ELSE "none"]
  /\ gaveUp' = [gaveUp EXCEPT ![Producer] = FALSE]
  /\ UNCHANGED flagVars /\ WaitUnchanged

\* nothing to wait for; or a multi queue is helped; or the thread blocks
WaitQueue ==
  LET empty == Threads = 0 \/ items = 0 IN
  /\ ~exiting
  /\ Goto(Producer, "idle", IF empty THEN "idle" ELSE IF Multi THEN "take" ELSE "arm")
  /\ answer' = [answer EXCEPT ![Producer] = IF empty THEN "empty" ELSE "none"]
  /\ gaveUp' = [gaveUp EXCEPT ![Producer] = FALSE]
  /\ UNCHANGED flagVars /\ WaitUnchanged

\* mutant: returns after helping, whatever the other threads still run
HelpedEnough ==
  /\ Goto(Producer, "helped", IF HighFreq /\ items # 0 THEN "reply" ELSE "arm")
  /\ UNCHANGED <<flagVars, answer, gaveUp>> /\ WaitUnchanged

Helped ==
  /\ Goto(Producer, "helped", IF HighFreq /\ items # 0 THEN "spin" ELSE "arm")
  /\ UNCHANGED <<flagVars, answer, gaveUp>> /\ WaitUnchanged

\* spin until the queue is empty or the time is up
SpinForItems ==
  /\ Goto(Producer, "spin", "reply")
  /\ \/ items = 0 /\ UNCHANGED gaveUp
     \/ Timeouts /\ gaveUp' = [gaveUp EXCEPT ![Producer] = TRUE]
  /\ UNCHANGED <<flagVars, answer>> /\ WaitUnchanged

ResetDone ==
  /\ Goto(Producer, "arm", "flag") /\ doneevent' = FALSE
  /\ UNCHANGED <<waiting, exiting, answer, gaveUp>> /\ WaitUnchanged

SetWaiting ==
  /\ Goto(Producer, "flag", "recheck") /\ waiting' = TRUE
  /\ UNCHANGED <<doneevent, exiting, answer, gaveUp>> /\ WaitUnchanged

\* mutant: does not look at the counter again before it blocks
BlockAnyway ==
  /\ Goto(Producer, "recheck", "block")
  /\ UNCHANGED <<flagVars, answer, gaveUp>> /\ WaitUnchanged

RecheckItems ==
  /\ Goto(Producer, "recheck", IF items # 0 THEN "block" ELSE "unflag")
  /\ UNCHANGED <<flagVars, answer, gaveUp>> /\ WaitUnchanged

BlockOnDone ==
  /\ Goto(Producer, "block", "unflag")
  /\ \/ (doneevent \/ Spurious) /\ UNCHANGED gaveUp
     \/ Timeouts /\ gaveUp' = [gaveUp EXCEPT ![Producer] = TRUE]
  /\ UNCHANGED <<flagVars, answer>> /\ WaitUnchanged

ClearWaiting ==
  /\ Goto(Producer, "unflag", "reply") /\ waiting' = FALSE
  /\ UNCHANGED <<doneevent, exiting, answer, gaveUp>> /\ WaitUnchanged

\* TRUE if the count is actually zero now
WaitReply ==
  /\ Goto(Producer, "reply", "idle")
  /\ answer' = [answer EXCEPT ![Producer] = IF items = 0 THEN "empty" ELSE "busy"]
  /\ UNCHANGED <<flagVars, gaveUp>> /\ WaitUnchanged

WaitSteps == Helped \/ SpinForItems \/ ResetDone \/ SetWaiting \/ RecheckItems
             \/ BlockOnDone \/ ClearWaiting \/ WaitReply

-----------------------------------------------------------------------------
(* osd_work_item_wait and osd_work_item_release *)

CollectUnchanged == UNCHANGED <<list, fresh, items, flagVars, threadVars, callVars>>

\* has the item's callback returned?  what a callback can tell its queuer itself
CallbackOver(i) == i \notin ToSet(list) /\ \A a \in Agents : pc[a] = "run" => at[a] # i

\* Release waits first.  The callbacks take less than the 100 seconds it allows.
BeginCollect(i, release) ==
  /\ ~exiting /\ i \in held
  /\ release => IF Patient THEN done[i] ELSE CallbackOver(i)
  /\ Goto(Collector, "idle", IF ~done[i] THEN "prime" ELSE IF release THEN "push" ELSE "idle")
  /\ at' = [at EXCEPT ![Collector] = IF done[i] /\ ~release THEN NoItem ELSE i]
  /\ releasing' = release
  /\ answer' = [answer EXCEPT ![Collector] = IF done[i] /\ ~release THEN "done" ELSE "none"]
  /\ gaveUp' = [gaveUp EXCEPT ![Collector] = FALSE]
  /\ UNCHANGED <<free, itemVars, held>> /\ CollectUnchanged

\* create the event, or reset it
PrimeEvent ==
  /\ Goto(Collector, "prime", "ready")
  /\ event' = [event EXCEPT ![at[Collector]] = "reset"]
  /\ UNCHANGED <<free, done, at, replyVars>> /\ CollectUnchanged

\* mutant: blocks on the event it has just reset without looking at done
BlockUnchecked ==
  /\ Goto(Collector, "ready", "iblock")
  /\ UNCHANGED <<free, itemVars, at, replyVars>> /\ CollectUnchanged

CheckDone ==
  /\ Goto(Collector, "ready", IF done[at[Collector]] THEN "verdict" ELSE "iblock")
  /\ UNCHANGED <<free, itemVars, at, replyVars>> /\ CollectUnchanged

BlockOnItem ==
  /\ Goto(Collector, "iblock", "verdict")
  /\ \/ (event[at[Collector]] = "set" \/ Spurious) /\ UNCHANGED gaveUp
     \/ Timeouts /\ ~releasing /\ gaveUp' = [gaveUp EXCEPT ![Collector] = TRUE]
  /\ UNCHANGED <<free, itemVars, at, releasing, held, answer>> /\ CollectUnchanged

\* a wait returns item->done; a release goes on whatever it is
ItemReply ==
  /\ Goto(Collector, "verdict", IF releasing THEN "push" ELSE "idle")
  /\ at' = IF releasing THEN at ELSE [at EXCEPT ![Collector] = NoItem]
  /\ answer' = [answer EXCEPT ![Collector] =
                  IF releasing THEN "none" ELSE IF done[at[Collector]] THEN "done" ELSE "pending"]
  /\ UNCHANGED <<free, itemVars, releasing, held, gaveUp>> /\ CollectUnchanged

PushFree ==
  /\ Goto(Collector, "push", "idle")
  /\ free' = <<at[Collector]>> \o free /\ held' = held \ {at[Collector]}
  /\ at' = [at EXCEPT ![Collector] = NoItem]
  /\ UNCHANGED <<itemVars, releasing, answer, gaveUp>> /\ CollectUnchanged

CollectSteps == PrimeEvent \/ CheckDone \/ BlockOnItem \/ ItemReply \/ PushFree

-----------------------------------------------------------------------------
(* osd_work_queue_free *)

FreeUnchanged == UNCHANGED <<items, waiting, doneevent, live, active, itemVars, at, batch, left,
                             last, budget, replyVars>>

\* signal all the threads to exit; nobody is inside another call
FreeQueue ==
  /\ ~exiting /\ pc[Collector] = "idle"
  /\ Goto(Producer, "idle", "wakeall") /\ exiting' = TRUE /\ scan' = 1
  /\ UNCHANGED <<listVars, wake>> /\ FreeUnchanged

\* mutant: only threads that are active are told to exit
WakeActiveToExit ==
  /\ Goto(Producer, "wakeall", IF scan >= Threads THEN "join" ELSE "wakeall")
  /\ scan' = scan + 1
  /\ wake' = IF scan > Threads THEN wake ELSE [wake EXCEPT ![scan] = @ \/ active[scan]]
  /\ UNCHANGED <<listVars, exiting>> /\ FreeUnchanged

WakeToExit ==
  /\ Goto(Producer, "wakeall", IF scan >= Threads THEN "join" ELSE "wakeall")
  /\ scan' = scan + 1
  /\ wake' = IF scan > Threads THEN wake ELSE [wake EXCEPT ![scan] = TRUE]
  /\ UNCHANGED <<listVars, exiting>> /\ FreeUnchanged

\* wait for the threads, then free both lists with what is on them
JoinAndFree ==
  /\ Goto(Producer, "join", "freed") /\ \A w \in Workers : pc[w] = "gone"
  /\ fresh' = fresh \cup ToSet(free) \cup ToSet(list)
  /\ free' = <<>> /\ list' = <<>>
  /\ UNCHANGED <<exiting, scan, wake>> /\ FreeUnchanged

-----------------------------------------------------------------------------

QueueSteps == AllocItem \/ LinkBatch \/ CountBatch \/ LookForThreads \/ WakeThread \/ QueueReturn

\* the steps inside a call, which the calling thread goes on with
ProducerSteps == QueueSteps \/ WaitSteps \/ Process(Producer) \/ WakeToExit \/ JoinAndFree

Call == \/ \E n \in Batches : Queue(n)
        \/ WaitQueue
        \/ \E i \in Items, release \in BOOLEAN : BeginCollect(i, release)
        \/ FreeQueue

\* the queue is gone
Freed == pc[Producer] = "freed" /\ UNCHANGED vars

Next == Call \/ ProducerSteps \/ CollectSteps \/ (\E w \in Workers : Worker(w)) \/ Freed

Spec == Init /\ [][Next]_vars

\* threads are scheduled and calls are carried on; nobody has to make one
Fairness == /\ WF_vars(ProducerSteps) /\ WF_vars(CollectSteps)
            /\ \A w \in Workers : WF_vars(Worker(w))

FairSpec == Spec /\ Fairness

================================================================================
