----------------------------- MODULE ChdCompressor -----------------------------
(***************************************************************************)
(* chd_file_compressor (src/lib/util/chd.cpp): a reader thread fills the   *)
(* halves of a ring of hunks, worker threads hash and compress each hunk,  *)
(* and the thread that calls compress_continue() queues the reads and      *)
(* appends finished hunks in order.  With a parent the ring is first run   *)
(* over the parent's data, to fill the map of what need not be stored.     *)
(*                                                                         *)
(* The two work queues are what WorkItems promises: an item is run once.   *)
(* Offsets count hunks, and data are sequences of units; a hash is what it *)
(* is a hash of, and a codec's output what it was given.                   *)
(***************************************************************************)
EXTENDS Integers, FiniteSets, Sequences

CONSTANTS Ring,       \* WORK_BUFFER_HUNKS
          Units,      \* hunk_bytes() / unit_bytes()
          Child,      \* the data to compress: hunks numbered from 0
          Setups,     \* what is compressed how: see setup
          Blank,      \* a hunk of zeros, as the work buffer's are at first
          NoJob,      \* m_osd == nullptr
          Errors      \* may reads of the source and writes of the output fail?

\* How chdman was called, and on what machine.  Nothing changes it.
VARIABLE setup

Parent     == setup.parent      \* the parent's hunks; none: no parent
Compressed == setup.compressed  \* compressed()
Threads    == setup.threads     \* threads of m_work_queue; 0 on a single processor
Prompt     == setup.prompt      \* does the reader leave its calls before others act on them?

HunkCount   == Cardinality(DOMAIN Child)   \* m_hunkcount, of the child in both phases
ParentCount == Cardinality(DOMAIN Parent)
HasParent   == ParentCount > 0             \* m_parent != nullptr
Half  == Ring \div 2
Slots == 0..(Ring - 1)
Hunks == 0..(HunkCount - 1)

\* data are hunks of Units units
AreHunks(data) == \A h \in DOMAIN data : data[h] = [u \in 1..Units |-> data[h][u]]

\* a work item of m_work_queue: the hunk, and which of the callbacks
Jobs == [walk : BOOLEAN, hunk : Hunks]

ASSUME CompressorAssumption ==
  /\ Half \in Nat \ {0} /\ Ring = 2 * Half /\ Units \in Nat \ {0} /\ Errors \in BOOLEAN
  /\ HunkCount \in Nat \ {0} /\ DOMAIN Child = Hunks /\ AreHunks(Child) /\ AreHunks(<<Blank>>)
  /\ \A s \in Setups :
       /\ s.compressed \in BOOLEAN /\ s.prompt \in BOOLEAN /\ s.threads \in Nat
       /\ Cardinality(DOMAIN s.parent) \in Nat
       /\ DOMAIN s.parent = 0..(Cardinality(DOMAIN s.parent) - 1) /\ AreHunks(s.parent)

VARIABLES
  walking,             \* m_walking_parent
  queueOffset, doneOffset, readError,  \* m_read_queue_offset, m_read_done_offset, m_read_error
  reads,               \* osd_work_queue_items(m_read_queue)
  writeHunk,           \* m_write_hunk
  status, hunknum, osd,   \* of each slot: m_status, m_hunknum, m_osd
  hash, packed,        \* of each slot: m_hash, and m_compressed with m_compression
  buffer,              \* m_work_buffer, with the extra hunk at its end
  parentMap, currentMap,
  output,              \* how each hunk is stored; m_rawmap
  sha,                 \* what m_compsha1 has been given
  work,                \* how far each job is
  main,                \* where compress_continue is
  reader, num, cur, end, made   \* where async_read is, and its locals

shared    == <<walking, queueOffset, doneOffset, readError, reads, sha>>
slotVars  == <<status, hunknum, osd, hash, packed, buffer>>
mapVars   == <<setup, parentMap, currentMap, output, writeHunk>>
readVars  == <<setup, reader, num, cur, end, made>>
vars == <<shared, slotVars, mapVars, readVars, work, main>>

Slot(h) == h % Ring

\* compress_begin
Init ==
  /\ setup \in Setups /\ walking = HasParent
  /\ queueOffset = 0 /\ doneOffset = 0 /\ readError = FALSE /\ reads = 0 /\ writeHunk = 0
  /\ status = [s \in Slots |-> "ready"] /\ hunknum = [s \in Slots |-> 0]
  /\ osd = [s \in Slots |-> NoJob]
  /\ hash = [s \in Slots |-> <<>>] /\ packed = [s \in Slots |-> Blank]
  /\ buffer = [s \in 0..Ring |-> Blank]
  /\ parentMap = {} /\ currentMap = {} /\ output = [h \in Hunks |-> [how |-> "none"]]
  /\ sha = <<>> /\ work = [j \in Jobs |-> "none"]
  /\ main = "call" /\ reader = "idle" /\ num = 0 /\ cur = 0 /\ end = 0
  /\ made = NoJob

-----------------------------------------------------------------------------
(* The hash maps: pairs of a hash and the number it was added under. *)

Found(map, key) == \E e \in map : e.key = key
Lookup(map, key) == (CHOOSE e \in map : e.key = key).num
Add(map, key, n) == map \cup {[key |-> key, num |-> n]}

\* a hunk's worth of units from unit u of slot s on, running into the next slot
Window(s, u) == SubSeq(buffer[s] \o buffer[s + 1], u + 1, u + Units)

\* how many windows of a hunk of the parent are hashed
Windows(h) == IF h = HunkCount - 1 \/ ~Compressed THEN 1 ELSE Units

\* mutant: numbered by hunks instead of units
AddUnitsByHunk(map, h, keys) ==
  map \cup {[key |-> keys[u + 1], num |-> h + u] : u \in 0..(Windows(h) - 1)}

\* each unit's hash is added unless it is there already
AddUnits(map, h, keys) ==
  LET first(u) == ~Found(map, keys[u + 1]) /\ \A v \in 0..(u - 1) : keys[v + 1] # keys[u + 1]
  IN map \cup {[key |-> keys[u + 1], num |-> h * Units + u]
               : u \in {v \in 0..(Windows(h) - 1) : first(v)}}

-----------------------------------------------------------------------------
(* compress_continue *)

\* mutant: goes on after an error
ContinueAnyway ==
  /\ main = "call" /\ main' = "queue"
  /\ UNCHANGED <<shared, slotVars, mapVars, readVars, work>>

\* the caller calls until it is told of an error or the end
Continue ==
  /\ main = "call" /\ main' = IF readError THEN "failed" ELSE "queue"
  /\ UNCHANGED <<shared, slotVars, mapVars, readVars, work>>

\* mutant: does not wait for the hunk after the half to be free
RoomForHalf ==
  /\ queueOffset < HunkCount /\ reads < 2
  /\ \A k \in 0..(Half - 1) : status[Slot(queueOffset + k)] = "ready"

\* is there room for the next half, and for the extra hunk read from a parent?
RoomToRead ==
  /\ queueOffset < HunkCount /\ reads < 2
  /\ \A k \in 0..(Half - 1) : status[Slot(queueOffset + k)] = "ready"
  /\ walking => status[Slot(queueOffset + Half)] = "ready"

QueueRead ==
  /\ main = "queue"
  /\ IF RoomToRead
     THEN /\ status' = [s \in Slots |-> IF \E k \in 0..(Half - 1) : s = Slot(queueOffset + k)
                                        THEN "reading" ELSE status[s]]
          /\ reads' = reads + 1 /\ queueOffset' = queueOffset + Half /\ UNCHANGED main
     ELSE main' = "flush" /\ UNCHANGED <<status, reads, queueOffset>>
  /\ UNCHANGED <<walking, doneOffset, readError, sha, hunknum, osd, hash, packed, buffer,
                 mapVars, readVars, work>>

\* the next hunk to write, if it is finished; Prompt: its m_osd has been stored
Flush ==
  /\ main = "flush"
  /\ main' = IF status[Slot(writeHunk)] = "complete" THEN "release" ELSE "wait"
  /\ Prompt => ~(reader = "store" /\ cur = writeHunk)
  /\ UNCHANGED <<shared, slotVars, mapVars, readVars, work>>

\* osd_work_item_release returns once the item is done
ReleaseItem ==
  LET j == osd[Slot(writeHunk)] IN
  /\ main = "release" /\ main' = "write"
  /\ j # NoJob => work[j] = "done"
  /\ UNCHANGED <<shared, slotVars, mapVars, readVars, work>>

\* what becomes of a hunk: a copy of an earlier one, one of the parent's, or data
Store(s, h) ==
  LET key == hash[s][1] IN
  IF Found(currentMap, key)
  THEN /\ output' = [output EXCEPT ![h] = [how |-> "self", from |-> Lookup(currentMap, key)]]
       /\ UNCHANGED currentMap
  ELSE IF HasParent /\ Found(parentMap, key)
  THEN /\ output' = [output EXCEPT ![h] = [how |-> "parent", from |-> Lookup(parentMap, key)]]
       /\ UNCHANGED currentMap
  ELSE /\ output' = [output EXCEPT ![h] = [how |-> "here", data |-> packed[s]]]
       /\ currentMap' = Add(currentMap, key, h)

\* write_hunk: all zeros are not stored, their map entry stays 0
Raw(data) == IF data = Blank THEN [how |-> "none"] ELSE [how |-> "here", data |-> data]

Record(s, h) ==
  IF walking THEN parentMap' = AddUnits(parentMap, h, hash[s]) /\ UNCHANGED <<currentMap, output>>
  ELSE IF ~Compressed
  THEN output' = [output EXCEPT ![h] = Raw(buffer[s])] /\ UNCHANGED <<parentMap, currentMap>>
  ELSE Store(s, h) /\ UNCHANGED parentMap

\* a finished hunk but for the last one
WriteHunk ==
  LET s == Slot(writeHunk) IN
  /\ main = "write" /\ writeHunk + 1 # HunkCount
  /\ Record(s, hunknum[s])
  /\ osd' = [osd EXCEPT ![s] = NoJob] /\ status' = [status EXCEPT ![s] = "ready"]
  /\ writeHunk' = writeHunk + 1 /\ main' = "flush"
  /\ UNCHANGED <<shared, hunknum, hash, packed, buffer, readVars, work>>

\* mutant: the offset of finished reads is not reset
EndWalkReadOn ==
  LET s == Slot(writeHunk) IN
  /\ main = "write" /\ writeHunk + 1 = HunkCount /\ walking
  /\ Prompt => reads = 0
  /\ Record(s, hunknum[s])
  /\ osd' = [osd EXCEPT ![s] = NoJob] /\ status' = [t \in Slots |-> "ready"]
  /\ walking' = FALSE /\ queueOffset' = 0 /\ writeHunk' = 0
  /\ main' = "flush"
  /\ UNCHANGED <<doneOffset, readError, reads, sha, hunknum, hash, packed, buffer, readVars, work>>

\* the end of the parent: reset and get ready for compression.  Nothing waits for
\* the last read to return; Prompt: it has.
EndWalk ==
  LET s == Slot(writeHunk) IN
  /\ main = "write" /\ writeHunk + 1 = HunkCount /\ walking
  /\ Prompt => reads = 0
  /\ Record(s, hunknum[s])
  /\ osd' = [osd EXCEPT ![s] = NoJob] /\ status' = [t \in Slots |-> "ready"]
  /\ walking' = FALSE /\ queueOffset' = 0 /\ doneOffset' = 0 /\ writeHunk' = 0
  /\ main' = "flush"
  /\ UNCHANGED <<readError, reads, sha, hunknum, hash, packed, buffer, readVars, work>>

\* the end of the data
WriteLast ==
  LET s == Slot(writeHunk) IN
  /\ main = "write" /\ writeHunk + 1 = HunkCount /\ ~walking
  /\ Record(s, hunknum[s])
  /\ osd' = [osd EXCEPT ![s] = NoJob] /\ status' = [status EXCEPT ![s] = "ready"]
  /\ writeHunk' = writeHunk + 1 /\ main' = "finish"
  /\ UNCHANGED <<shared, hunknum, hash, packed, buffer, readVars, work>>

\* does writing a hunk append to the file?  Not a copy, and not zeros that are raw.
Appends(s) ==
  IF Compressed THEN /\ ~Found(currentMap, hash[s][1])
                     /\ ~(HasParent /\ Found(parentMap, hash[s][1]))
                ELSE buffer[s] # Blank

\* the append fails: write_hunk returns the error, hunk_write_compressed throws it
\* and compress_continue with it; the caller gives up either way
WriteFails ==
  /\ main = "write" /\ Errors /\ ~walking /\ Appends(Slot(writeHunk)) /\ main' = "failed"
  /\ osd' = [osd EXCEPT ![Slot(writeHunk)] = NoJob]
  /\ UNCHANGED <<shared, status, hunknum, hash, packed, buffer, mapVars, readVars, work>>

\* mutant: does not wait for the reads to finish
FinishAtOnce ==
  /\ main = "finish" /\ main' = "finished"
  /\ UNCHANGED <<shared, slotVars, mapVars, readVars, work>>

\* wait for all reads to finish, then write the final SHA-1 and the map, which
\* may fail
Finish ==
  /\ main = "finish" /\ reads = 0
  /\ main' = "finished" \/ (Errors /\ Compressed /\ main' = "failed")
  /\ UNCHANGED <<shared, slotVars, mapVars, readVars, work>>

\* wait while the next hunk is not finished and has a work item
WaitForWork ==
  /\ main = "wait"
  /\ main' = IF status[Slot(writeHunk)] # "complete" /\ osd[Slot(writeHunk)] # NoJob
             THEN "wait" ELSE "call"
  /\ UNCHANGED <<shared, slotVars, mapVars, readVars, work>>

Main == Continue \/ QueueRead \/ Flush \/ ReleaseItem \/ WriteHunk \/ EndWalk \/ WriteLast
        \/ WriteFails \/ Finish \/ WaitForWork

-----------------------------------------------------------------------------
(* async_read *)

\* after an error the other reads return at once; otherwise the end is cut off
BeginRead ==
  /\ reader = "idle" /\ reads > 0
  /\ IF readError THEN reads' = reads - 1 /\ UNCHANGED <<reader, num, end>>
     ELSE /\ num' = IF doneOffset + Half > HunkCount THEN HunkCount - doneOffset ELSE Half
          /\ end' = doneOffset + num' /\ reader' = "read" /\ UNCHANGED reads
  /\ UNCHANGED <<walking, queueOffset, doneOffset, readError, sha, slotVars, mapVars, cur, made,
                 work, main>>

\* what a position of the buffer holds after a hunk was read to it; an error of the
\* parent's read_hunk goes unnoticed
Holding(data, h, before) == IF h \in DOMAIN data THEN data[h] ELSE before

\* half the buffer, and one hunk more from a parent
Filled ==
  LET first == Slot(doneOffset)
      extra == IF walking THEN 1 ELSE 0
      source == IF walking THEN Parent ELSE Child
  IN [s \in 0..Ring |-> IF s \in first..(first + num + extra - 1)
                        THEN Holding(source, doneOffset + (s - first), buffer[s]) ELSE buffer[s]]

ReadData ==
  /\ reader = "read" /\ reader' = "claim" /\ cur' = doneOffset /\ buffer' = Filled
  /\ UNCHANGED <<shared, status, hunknum, osd, hash, packed, mapVars, num, end, made, work, main>>

\* read_data throws
ReadFails ==
  /\ reader = "read" /\ Errors /\ ~walking
  /\ readError' = TRUE /\ reader' = "idle" /\ reads' = reads - 1
  /\ UNCHANGED <<walking, queueOffset, doneOffset, sha, slotVars, mapVars, num, cur, end, made,
                 work, main>>

\* assert(item.m_status == WS_READING), and the hunk goes to the workers
ClaimHunk ==
  /\ reader = "claim" /\ cur < end /\ status[Slot(cur)] = "reading"
  /\ status' = [status EXCEPT ![Slot(cur)] = "queued"]
  /\ hunknum' = [hunknum EXCEPT ![Slot(cur)] = cur]
  /\ made' = [walk |-> walking, hunk |-> cur] /\ work' = [work EXCEPT ![made'] = "listed"]
  /\ reader' = "store"
  /\ UNCHANGED <<shared, osd, hash, packed, buffer, mapVars, num, cur, end, main>>

Pending == {j \in Jobs : work[j] \notin {"none", "done"}}

\* osd_work_item_queue returns; without threads it has run the item itself
StoreItem ==
  /\ reader = "store" /\ (Threads = 0 => Pending = {})
  /\ osd' = [osd EXCEPT ![Slot(cur)] = made]
  /\ cur' = cur + 1 /\ reader' = "claim"
  /\ UNCHANGED <<shared, status, hunknum, hash, packed, buffer, mapVars, made, num, end, work,
                 main>>

\* the running SHA-1, when all hunks are queued
HashData ==
  /\ reader = "claim" /\ cur >= end /\ reader' = "advance"
  /\ sha' = IF walking \/ ~Compressed THEN sha
            ELSE sha \o [k \in 1..num |-> buffer[Slot(end - num) + k - 1]]
  /\ UNCHANGED <<walking, queueOffset, doneOffset, readError, reads, slotVars, mapVars, num, cur,
                 end, made, work, main>>

AdvanceRead ==
  /\ reader = "advance" /\ reader' = "idle"
  /\ doneOffset' = doneOffset + num /\ reads' = reads - 1
  /\ UNCHANGED <<walking, queueOffset, readError, sha, slotVars, mapVars, num, cur, end, made,
                 work, main>>

Reader == BeginRead \/ ReadData \/ ReadFails \/ ClaimHunk \/ StoreItem \/ HashData \/ AdvanceRead

-----------------------------------------------------------------------------
(* async_walk_parent and async_compress_hunk, on the threads of m_work_queue *)

WorkUnchanged == UNCHANGED <<shared, hunknum, osd, buffer, mapVars, readVars, main>>

Running == {j \in Jobs : work[j] \in {"hash", "compress", "complete", "return"}}

Advance(j, from, to) == work[j] = from /\ work' = [work EXCEPT ![j] = to]

\* the first item is taken by a thread that is free, without threads by the reader
TakeJob(j) ==
  /\ Advance(j, "listed", "hash")
  /\ \A k \in Jobs : work[k] = "listed" => k = j \/ j.hunk < k.hunk
  /\ Cardinality(Running) < (IF Threads = 0 THEN 1 ELSE Threads)
  /\ UNCHANGED <<status, hash, packed>> /\ WorkUnchanged

\* the hashes of each unit of the parent's hunk, or of the hunk
HashHunk(j) ==
  LET s == Slot(j.hunk) IN
  /\ Advance(j, "hash", IF j.walk THEN "complete" ELSE "compress")
  /\ hash' = [hash EXCEPT ![s] = IF j.walk THEN [u \in 1..Windows(hunknum[s]) |-> Window(s, u - 1)]
                                 ELSE <<buffer[s]>>]
  /\ UNCHANGED <<status, packed>> /\ WorkUnchanged

\* compress, unless there is a match already
CompressHunk(j) ==
  LET s == Slot(j.hunk) IN
  /\ Advance(j, "compress", "complete")
  /\ packed' = IF Found(currentMap, hash[s][1]) \/ Found(parentMap, hash[s][1]) THEN packed
               ELSE [packed EXCEPT ![s] = buffer[s]]
  /\ UNCHANGED <<status, hash>> /\ WorkUnchanged

MarkComplete(j) ==
  /\ Advance(j, "complete", "return")
  /\ status' = [status EXCEPT ![Slot(j.hunk)] = "complete"]
  /\ UNCHANGED <<hash, packed>> /\ WorkUnchanged

\* the callback has returned and the work item is done
ItemDone(j) ==
  /\ Advance(j, "return", "done") /\ UNCHANGED <<status, hash, packed>> /\ WorkUnchanged

Work(j) == TakeJob(j) \/ HashHunk(j) \/ CompressHunk(j) \/ MarkComplete(j) \/ ItemDone(j)

-----------------------------------------------------------------------------

\* compress_continue has returned for the last time
Ended == main \in {"finished", "failed"} /\ UNCHANGED vars

Next == Main \/ Reader \/ (\E j \in Jobs : Work(j)) \/ Ended

Spec == Init /\ [][Next]_vars

\* threads are scheduled, and the caller calls until it is told to stop
Fairness == WF_vars(Main) /\ WF_vars(Reader) /\ \A j \in Jobs : WF_vars(Work(j))

FairSpec == Spec /\ Fairness

-----------------------------------------------------------------------------
(* Properties. *)

Pipeline == {"none", "listed", "hash", "compress", "complete", "return", "done"}

\* The type of the state: the compressor's fields and the locals of its threads.
TypeOK ==
  /\ setup \in Setups /\ walking \in BOOLEAN /\ readError \in BOOLEAN
  /\ queueOffset \in Nat /\ doneOffset \in Nat /\ reads \in 0..2 /\ writeHunk \in 0..HunkCount
  /\ status \in [Slots -> {"ready", "reading", "queued", "complete"}]
  /\ hunknum \in [Slots -> Hunks] /\ osd \in [Slots -> Jobs \cup {NoJob}]
  /\ DOMAIN buffer = 0..Ring /\ work \in [Jobs -> Pipeline]
  /\ num \in 0..Half /\ made \in Jobs \cup {NoJob}

\* A hunk's worth of the parent's units from unit u on; what it has not is not its data.
ParentData(p) == IF p \in DOMAIN Parent THEN Parent[p] ELSE [k \in 1..Units |-> -1]
At(u) == SubSeq(ParentData(u \div Units) \o ParentData(u \div Units + 1),
                (u % Units) + 1, (u % Units) + Units)

\* What read_hunk makes of a raw hunk that is not stored.
Hole(h) == IF ~HasParent THEN Blank ELSE IF h \in DOMAIN Parent THEN Parent[h] ELSE <<>>

\* What was stored for hunk h, as chd_file::read_hunk would read it back, given how it
\* reads those before it.
Reading(f, h) ==
  CASE output[h].how = "here" -> output[h].data
    [] output[h].how = "self" -> IF output[h].from < h THEN f[output[h].from] ELSE <<>>
    [] output[h].how = "parent" -> At(output[h].from)
    [] OTHER -> IF Compressed THEN <<>> ELSE Hole(h)

ReadBack(h) == LET f[n \in 0..h] == Reading(f, n) IN f[h]

\* Zeros to be stored raw where the parent has something else: they are not stored,
\* and the parent's hunk is read instead.
Shadowed(h) == ~Compressed /\ HasParent /\ Child[h] = Blank /\ Hole(h) # Blank

\* Every hunk written reads back as the hunk that was to be stored
\* (compress_continue, async_compress_hunk): the worker and the writer, which look
\* into the maps at different times, agree on whether it was compressed; it comes
\* from the right place in the ring; and a copy from the parent is "same as a
\* hunk's worth of units in the parent chd" (chd.cpp:73).  Only zeros stored raw
\* against a parent that has something else in their place do not.
StoredRight ==
  ~walking => \A h \in 0..(writeHunk - 1) : Shadowed(h) \/ ReadBack(h) = Child[h]

\* The data of a hunk stay in the ring while it is hashed, compressed and written,
\* with those of the next one if windows of the parent run into it (async_read).
DataStay ==
  \A s \in Slots : LET h == hunknum[s] IN
    status[s] \in {"queued", "complete"} =>
      IF ~walking THEN buffer[s] = Child[h]
      ELSE /\ h \in DOMAIN Parent => buffer[s] = Parent[h]
           /\ Windows(h) > 1 /\ h + 1 \in DOMAIN Parent => buffer[s + 1] = Parent[h + 1]

\* async_read's assertions (chd.cpp:3125, 3148): it reads to one half of the buffer
\* or the other, and each hunk it hands on was claimed for it.
AssertionsHold ==
  /\ reader = "read" => doneOffset % Half = 0
  /\ reader = "claim" /\ cur < end => status[Slot(cur)] = "reading"

\* A compressed file's SHA-1 is that of all the data in order: compress_continue waits
\* for the reader, which adds a half's data after it has queued its hunks.
HashedAll == main = "finished" /\ Compressed => sha = [h \in 1..HunkCount |-> Child[h - 1]]

\* Compressing ends, with the file complete or with an error, and never calls a
\* file complete of which some could not be read; unless the reader is late (WaitEnds).
Ends == <>[](Prompt => main = "failed" \/ (main = "finished" /\ ~readError))

\* "if we're waiting for work, wait" (chd.cpp:2984): the wait ends, because what is
\* waited for is work.  It does not if the reader is late to store m_osd.
WaitEnds == (main = "wait") ~> (main # "wait")

================================================================================
