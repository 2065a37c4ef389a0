------------------------------- MODULE PolyManager -------------------------------
(***************************************************************************)
(* The polygon renderer of src/devices/video/poly.h.  The main thread      *)
(* cuts polygons into units of work, one for each group of scanlines, and  *)
(* queues them; threads run them in any order, but units in one bucket     *)
(* must not overlap or overtake each other: a unit whose predecessor is    *)
(* not done is left to the thread that has the predecessor in hand.        *)
(*                                                                         *)
(* The work queue is what WorkItems promises: an item queued is run once,  *)
(* by one thread, in any order, and a wait returns when none is left.  A   *)
(* compare_exchange32 loop is the step in which the exchange succeeds.     *)
(* Coordinates, parameters and statistics are left out: a polygon is the   *)
(* set of rows it covers.                                                  *)
(***************************************************************************)
EXTENDS Integers, FiniteSets, SequencesExt

CONSTANTS Threads,     \* worker threads
          Main,        \* the emulation thread
          Modes,       \* how units are run: see mode
          MaxPolys,    \* _MaxPolys
          UnitCount,   \* size of the array of units
          Buckets,     \* TOTAL_BUCKETS
          None,        \* 0xffff
          Fresh,       \* what may be in the buckets after construction
          RowCount,    \* groups of scanlines of the screen
          MaxObjects,  \* bound: object data supplied in a behaviour, each of its own
          MaxRenders   \* bound: polygons in a behaviour

Agents == Threads \cup {Main}
Rows   == 0..RowCount - 1
Units  == 0..UnitCount - 1
Values == 1..MaxObjects

ASSUME PolyAssumption ==
  /\ Main \notin Threads /\ Modes \subseteq {"threads", "inline", "list"}
  /\ MaxPolys \in Nat /\ MaxPolys > 1
  /\ Buckets \in Nat \ {0} /\ RowCount \in Nat \ {0} /\ {MaxObjects, MaxRenders} \subseteq Nat
  /\ UnitCount \in Nat /\ UnitCount > RowCount  \* or wait_for_space never ends
  /\ None \notin Units

VARIABLES
  mode,                    \* "threads" of a work queue, "inline" in a queue without
                           \* threads, "list" with POLYFLAG_NO_WORK_QUEUE; never changes
  bucket,                  \* m_unit_bucket
  objects, objectNext,     \* m_object
  polygons, polygonNext,   \* m_polygon
  units, unitNext,         \* m_unit
  listed,                  \* units on the work queue that no thread has taken
  pc, unit,                \* where a thread is, and the unit in its hand
  call,                    \* the main thread's call: what it has to do
  scan,                    \* wait without a queue: the unit to run next
  canvas,                  \* what the callbacks have drawn in each row
  synced,                  \* has the client waited since it drew?
  given,                   \* the object data the client supplied last
  renders                  \* polygons asked for

arrays == <<mode, bucket, objects, objectNext, polygons, polygonNext>>
vars == <<arrays, units, unitNext, listed, pc, unit, call, scan, canvas, synced, given, renders>>

Threaded == mode # "list"   \* m_queue # nullptr

NoCall == [op |-> "none", value |-> 0, rows |-> {}]

Init ==
  /\ mode \in Modes /\ bucket \in [0..Buckets - 1 -> Fresh]
  /\ objects = [i \in 0..MaxPolys |-> 0] /\ objectNext = 0
  /\ polygons = [i \in 0..MaxPolys - 1 |-> [object |-> 0, shape |-> 0]] /\ polygonNext = 0
  /\ units = [u \in Units |-> [polygon |-> 0, row |-> 0, previtem |-> 0, count |-> 0, next |-> 0]]
  /\ unitNext = 0 /\ listed = {}
  /\ pc = [a \in Agents |-> "idle"] /\ unit = [a \in Agents |-> None]
  /\ call = NoCall /\ scan = 0
  /\ canvas = [r \in Rows |-> <<>>] /\ synced = FALSE /\ given = 0 /\ renders = 0

Goto(a, from, to) == pc[a] = from /\ pc' = [pc EXCEPT ![a] = to]

-----------------------------------------------------------------------------
(* The client's calls, all from the main thread. *)

Spans == {{}} \cup {lo..hi : lo \in Rows, hi \in Rows}

Begin(c, to) == /\ Goto(Main, "idle", to) /\ call' = c
                /\ UNCHANGED <<arrays, units, unitNext, listed, unit, scan, canvas, synced, given, renders>>

\* object_data_alloc, whose caller fills the object at once
AllocObject == /\ given < MaxObjects
               /\ Begin([op |-> "object", value |-> given + 1, rows |-> {}], "space")

\* render_tile, render_triangle, ..: no rows when a tile is clipped left or right
Render(rows) == /\ objectNext > 0 /\ renders < MaxRenders
                /\ Begin([op |-> "render", value |-> 0, rows |-> rows], "space")

\* wait, also before the machine is saved
Wait == Begin([op |-> "wait", value |-> 0, rows |-> {}], "wait")

-----------------------------------------------------------------------------
(* wait_for_space and what follows it *)

\* the units counted are at least those that the polygon needs
Room ==
  IF call.op = "object" THEN objectNext + 1 < MaxPolys + 1
  ELSE polygonNext + 1 < MaxPolys /\ unitNext + Cardinality(call.rows) < UnitCount

NoSpace ==
  /\ ~Room /\ Goto(Main, "space", "wait")
  /\ UNCHANGED <<arrays, units, unitNext, listed, unit, call, scan, canvas, synced, given, renders>>

NextObject ==
  /\ call.op = "object" /\ Room /\ Goto(Main, "space", "idle")
  /\ objects' = [objects EXCEPT ![objectNext] = call.value] /\ objectNext' = objectNext + 1
  /\ call' = NoCall /\ given' = call.value
  /\ UNCHANGED <<mode, bucket, polygons, polygonNext, units, unitNext, listed, unit, scan, canvas,
                 synced, renders>>

BucketOf(r) == r % Buckets

LowestRow == CHOOSE r \in call.rows : \A q \in call.rows : r <= q

\* the unit made for a row of the polygon
UnitFor(r) == unitNext + r - LowestRow

\* rows of the polygon that fall into a bucket
RowsIn(b) == {r \in call.rows : BucketOf(r) = b}

\* the last of a set of rows
LastOf(R) == CHOOSE r \in R : \A q \in R : q <= r

\* the unit that was the last of the bucket when the row's unit is made
Prev(r) == LET earlier == {q \in RowsIn(BucketOf(r)) : q < r} IN
           IF earlier = {} THEN bucket[BucketOf(r)] ELSE UnitFor(LastOf(earlier))

\* polygon_alloc, the units for its rows, and osd_work_item_queue_multiple, which
\* runs them itself when the queue has no threads
NextPolygon ==
  LET new == {UnitFor(r) : r \in call.rows}
      made == [u \in new |-> LET r == LowestRow + u - unitNext IN
                 [polygon |-> polygonNext, row |-> r, previtem |-> Prev(r), count |-> 1, next |-> 0]]
      inline == mode = "inline" /\ new # {}
  IN /\ call.op = "render" /\ Room /\ Goto(Main, "space", IF inline THEN "wait" ELSE "idle")
     /\ polygons' = [polygons EXCEPT ![polygonNext] =
                       [object |-> objectNext - 1, shape |-> renders + 1]]
     /\ polygonNext' = polygonNext + 1
     /\ units' = [u \in Units |-> IF u \in new THEN made[u] ELSE units[u]]
     /\ unitNext' = unitNext + Cardinality(new)
     /\ bucket' = [b \in 0..Buckets - 1 |->
                     IF RowsIn(b) = {} THEN bucket[b] ELSE UnitFor(LastOf(RowsIn(b)))]
     /\ listed' = IF Threaded THEN listed \cup new ELSE listed
     /\ call' = NoCall /\ renders' = renders + 1 /\ synced' = FALSE
     /\ UNCHANGED <<mode, objects, objectNext, unit, scan, canvas, given>>

-----------------------------------------------------------------------------
(* work_item_callback, on a worker thread or on the main thread in wait *)

CallbackUnchanged == UNCHANGED <<arrays, unitNext, call, synced, given, renders>>

\* takes an item from the work queue
Take(a) ==
  /\ a = Main \/ mode = "threads"
  /\ \E u \in listed : listed' = listed \ {u} /\ unit' = [unit EXCEPT ![a] = u]
  /\ Goto(a, IF a = Main THEN "wait" ELSE "idle", "enter")
  /\ UNCHANGED <<units, scan, canvas>> /\ CallbackUnchanged

\* wait without a queue: the units in their order
TakeNext ==
  /\ ~Threaded /\ scan < unitNext /\ Goto(Main, "wait", "enter")
  /\ unit' = [unit EXCEPT ![Main] = scan] /\ scan' = scan + 1
  /\ UNCHANGED <<units, listed, canvas>> /\ CallbackUnchanged

Started(u) == units[u].count # 0 \/ units[u].next # 0

\* is the previous item done?  the unit's own count does not change meanwhile
Enter(a) ==
  LET prev == units[unit[a]].previtem IN
  /\ Goto(a, "enter", IF prev # None /\ Started(prev) THEN "link" ELSE "paint")
  /\ UNCHANGED <<units, listed, unit, scan, canvas>> /\ CallbackUnchanged

Home(a) == IF a = Main THEN "wait" ELSE "idle"

\* mutant: gives the unit up although the predecessor is done by now
LinkAlways(a) ==
  LET u == unit[a]  prev == units[u].previtem IN
  /\ Goto(a, "link", Home(a)) /\ unit' = [unit EXCEPT ![a] = None]
  /\ units' = [units EXCEPT ![prev].next = IF @ = 0 THEN u ELSE @]
  /\ UNCHANGED <<listed, scan, canvas>> /\ CallbackUnchanged

\* The unit's number is put in the upper half of the predecessor's word, where only
\* one unit ever is put.  If the predecessor was done by then, the thread goes on.
Link(a) ==
  LET u == unit[a]  prev == units[u].previtem  kept == Started(prev) IN
  /\ Goto(a, "link", IF kept THEN Home(a) ELSE "paint")
  /\ unit' = IF kept THEN [unit EXCEPT ![a] = None] ELSE unit
  /\ units' = [units EXCEPT ![prev].next = IF @ = 0 THEN u ELSE @]
  /\ UNCHANGED <<listed, scan, canvas>> /\ CallbackUnchanged

DrawOf(u) == LET p == polygons[units[u].polygon] IN <<p.shape, objects[p.object]>>

\* the callbacks have returned: clear the word, and go on with the successor in it
Finish(a) ==
  LET u == unit[a]  next == units[u].next IN
  /\ Goto(a, "paint", IF next = 0 THEN Home(a) ELSE "enter")
  /\ unit' = [unit EXCEPT ![a] = IF next = 0 THEN None ELSE next]
  /\ canvas' = [canvas EXCEPT ![units[u].row] = DrawOf(u)]
  /\ units' = [units EXCEPT ![u].count = 0, ![u].next = 0]
  /\ UNCHANGED <<listed, scan>> /\ CallbackUnchanged

Callback(a) == Take(a) \/ Enter(a) \/ Link(a) \/ Finish(a)

-----------------------------------------------------------------------------
(* wait *)

\* osd_work_queue_wait returns, or the list has been run
AllDone == IF Threaded THEN listed = {} /\ \A a \in Threads : pc[a] = "idle"
           ELSE scan = unitNext

\* mutant: the object data are dropped
ResetAll ==
  /\ polygonNext' = 0 /\ unitNext' = 0 /\ bucket' = [b \in 0..Buckets - 1 |-> None]
  /\ objectNext' = IF objectNext > 0 THEN 1 ELSE 0
  /\ UNCHANGED <<objects, polygons>>

\* the arrays are emptied; the last object that was supplied is preserved
Reset ==
  /\ polygonNext' = 0 /\ unitNext' = 0 /\ bucket' = [b \in 0..Buckets - 1 |-> None]
  /\ IF objectNext > 0
     THEN objects' = [objects EXCEPT ![0] = objects[objectNext - 1]] /\ objectNext' = 1
     ELSE UNCHANGED <<objects, objectNext>>
  /\ UNCHANGED polygons

\* the inline run of a queue without threads ends where it was called
InlineDone ==
  /\ call.op = "none" /\ AllDone /\ Goto(Main, "wait", "idle")
  /\ UNCHANGED <<arrays, units, unitNext, listed, unit, call, scan, canvas, synced, given, renders>>

WaitDone ==
  /\ call.op # "none" /\ AllDone /\ Reset
  /\ Goto(Main, "wait", IF call.op = "wait" THEN "idle" ELSE "space")
  /\ call' = IF call.op = "wait" THEN NoCall ELSE call
  /\ synced' = IF call.op = "wait" THEN TRUE ELSE synced
  /\ scan' = 0
  /\ UNCHANGED <<mode, units, listed, unit, canvas, given, renders>>

-----------------------------------------------------------------------------

Call == AllocObject \/ (\E rows \in Spans : Render(rows)) \/ Wait

MainSteps == NoSpace \/ NextObject \/ NextPolygon \/ TakeNext \/ InlineDone \/ WaitDone
             \/ Callback(Main)

Next == Call \/ MainSteps \/ \E a \in Threads : Callback(a)

Spec == Init /\ [][Next]_vars

\* threads are scheduled and a call is carried on; nobody has to make one
Fairness == WF_vars(MainSteps) /\ \A a \in Threads : WF_vars(Callback(a))

FairSpec == Spec /\ Fairness

-----------------------------------------------------------------------------

\* The type of the state: the arrays' fields and the threads' places.
TypeOK ==
  /\ mode \in Modes
  /\ bucket \in [0..Buckets - 1 -> Units \cup {None} \cup Fresh]
  /\ objects \in [0..MaxPolys -> Values \cup {0}] /\ objectNext \in 0..MaxPolys + 1
  /\ polygons \in [0..MaxPolys - 1 -> [object : 0..MaxPolys, shape : 0..MaxRenders]]
  /\ polygonNext \in 0..MaxPolys - 1
  /\ units \in [Units -> [polygon : 0..MaxPolys - 1, row : Rows, previtem : Units \cup {None} \cup Fresh,
                          count : 0..1, next : Units]]
  /\ unitNext \in 0..UnitCount - 1 /\ scan \in 0..UnitCount - 1 /\ listed \subseteq Units
  /\ pc \in [Agents -> {"idle", "space", "wait", "enter", "link", "paint"}]
  /\ unit \in [Agents -> Units \cup {None}]
  /\ call \in [op : {"none", "object", "render", "wait"}, value : Values \cup {0}, rows : SUBSET Rows]
  /\ canvas \in [Rows -> {<<>>} \cup ((1..MaxRenders) \X Values)]
  /\ synced \in BOOLEAN /\ given \in Values \cup {0} /\ renders \in 0..MaxRenders

Pending == {u \in 0..unitNext - 1 : units[u].count # 0}

\* work_unit's previtem is the "index of previous item in the same bucket"
\* (poly.h:171); not for what is Fresh before the first wait.
PrevInBucket ==
  \A u \in Pending : LET prev == units[u].previtem IN
    prev # None => prev < u /\ BucketOf(units[prev].row) = BucketOf(units[u].row)

\* Units not begun, in the order in which they were made.
Waiting(r) ==
  LET begun == {unit[a] : a \in {b \in Agents : pc[b] = "paint"}} IN
  SelectSeq([k \in 1..unitNext |-> k - 1],
            LAMBDA u : units[u].row = r /\ u \in Pending /\ u \notin begun)

Painters(r) == {a \in Agents : pc[a] = "paint" /\ units[unit[a]].row = r}

Picture == INSTANCE Raster WITH
  Shapes <- 1..MaxRenders, NoDraw <- <<>>,
  todo <- [r \in Rows |-> LET w == Waiting(r) IN [k \in 1..Len(w) |-> DrawOf(w[k])]],
  painting <- [r \in Rows |-> IF Painters(r) = {} THEN <<>>
                              ELSE DrawOf(unit[CHOOSE a \in Painters(r) : TRUE])]

\* The renderer keeps its promise: in each row polygons are drawn one at a time,
\* in the order asked for, with the data they were given; a wait leaves none.
DrawsAsAsked == Picture!Spec

\* What is queued is drawn, also when the client never waits; without a queue,
\* when it waits.
AllDrawn == \A r \in Rows :
  (Waiting(r) # <<>> /\ (Threaded \/ pc[Main] = "wait")) ~> (Waiting(r) = <<>>)

================================================================================
