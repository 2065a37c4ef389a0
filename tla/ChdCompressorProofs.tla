-------------------------- MODULE ChdCompressorProofs --------------------------
(***************************************************************************)
(* What holds of the compressor for every file, ring and number of threads *)
(* without a parent, and with one as long as no read is under way when the *)
(* walk over the parent ends: async_read's assertions, that data stay in   *)
(* the ring while they are needed, what the file's hash is of; and, when   *)
(* the parent is as long as the child, that what is stored reads back.     *)
(***************************************************************************)
EXTENDS ChdCompressor, SequenceTheorems, WellFoundedInduction, TLAPS

-----------------------------------------------------------------------------
(* Numbers and the ring. *)

\* The ring has two halves, and the file has hunks.
LEMMA RingFacts ==
  /\ Half \in Nat \ {0} /\ Ring = Half + Half /\ Ring \in Nat \ {0}
  /\ HunkCount \in Nat \ {0} /\ DOMAIN Child = 0..(HunkCount - 1)
BY CompressorAssumption DEF Hunks

\* Division with a remainder.
LEMMA Division ==
  ASSUME NEW a \in Nat, NEW r \in Nat \ {0}
  PROVE  (a % r) \in 0..(r - 1) /\ a \div r \in Nat /\ a = r * (a \div r) + (a % r)
<1>1. (a % r) \in 0..(r - 1)
  OBVIOUS
<1>2. a = r * (a \div r) + (a % r)
  OBVIOUS
<1>3. a \div r \in Nat
  BY <1>1, <1>2
<1>. QED  BY <1>1, <1>2, <1>3

\* Quotient and remainder are unique.
LEMMA DivisionUnique ==
  ASSUME NEW r \in Nat \ {0}, NEW p \in Nat, NEW q \in Nat, NEW u \in 0..(r - 1), NEW v \in 0..(r - 1),
         r * p + u = r * q + v
  PROVE  p = q /\ u = v
<1> DEFINE e == p - q
<1>1. e \in Int /\ v - u \in (1 - r)..(r - 1)
  OBVIOUS
<1>2. r * e = v - u
  OBVIOUS
<1>. HIDE DEF e
<1>3. e >= 1 => r * e >= r
  BY <1>1
<1>4. e <= -1 => r * e <= -r
  BY <1>1
<1>5. e = 0
  BY <1>1, <1>2, <1>3, <1>4
<1>6. v - u = 0
  BY <1>2, <1>5
<1>. QED  BY <1>5, <1>6 DEF e

\* A number that is known as a multiple and a remainder.
LEMMA RemainderIs ==
  ASSUME NEW a \in Nat, NEW r \in Nat \ {0}, NEW p \in Nat, NEW u \in 0..(r - 1), a = r * p + u
  PROVE  a % r = u /\ a \div r = p
<1> DEFINE q == a \div r
           v == a % r
<1>1. v \in 0..(r - 1) /\ q \in Nat /\ a = r * q + v
  BY Division
<1>. HIDE DEF q, v
<1>2. p = q /\ u = v
  BY <1>1, DivisionUnique
<1>. QED  BY <1>2 DEF q, v

\* An offset is the start of a half.
Aligned(n) == n % Half = 0

LEMMA AlignedZero == Aligned(0)
<1>1. 0 = Half * 0 + 0 /\ Half \in Nat \ {0}
  BY RingFacts
<1>. QED  BY <1>1, RemainderIs DEF Aligned

LEMMA AlignedPlus ==
  ASSUME NEW n \in Nat, Aligned(n) PROVE Aligned(n + Half)
<1> DEFINE p == n \div Half
<1>1. Half \in Nat \ {0} /\ p \in Nat /\ n = Half * p
  BY RingFacts, Division DEF Aligned
<1>. HIDE DEF p
<1>2. Half * (p + 1) = Half * p + Half
  BY <1>1
<1>3. n + Half = Half * (p + 1) + 0 /\ n + Half \in Nat /\ p + 1 \in Nat /\ 0 \in 0..(Half - 1)
  BY <1>1, <1>2
<1> DEFINE m == n + Half
           x == p + 1
<1>. HIDE DEF m, x
<1>. QED  BY <1>1, <1>3, RemainderIs DEF Aligned, m, x

LEMMA AlignedMinus ==
  ASSUME NEW n \in Nat, Aligned(n + Half) PROVE Aligned(n)
<1> DEFINE m == n + Half
           p == m \div Half
           q == n \div Half
           u == n % Half
<1>1. Half \in Nat \ {0} /\ m \in Nat
  BY RingFacts
<1>2. p \in Nat /\ m = Half * p
  BY <1>1, Division DEF Aligned
<1>3. q \in Nat /\ u \in 0..(Half - 1) /\ n = Half * q + u
  BY <1>1, Division
<1>4. m = n + Half
  OBVIOUS
<1>. HIDE DEF m, p, q, u
<1>5. Half * (q + 1) = Half * q + Half
  BY <1>1, <1>3
<1>6. Half * p + 0 = Half * (q + 1) + u
  BY <1>1, <1>2, <1>3, <1>4, <1>5
<1>7. q + 1 \in Nat /\ 0 \in 0..(Half - 1)
  BY <1>1, <1>3
<1> DEFINE x == q + 1
           z == 0
<1>8. x \in Nat /\ z \in 0..(Half - 1) /\ Half * p + z = Half * x + u
  BY <1>6, <1>7
<1>. HIDE DEF x, z
<1>9. z = u
  BY <1>1, <1>2, <1>3, <1>8, DivisionUnique
<1>. QED  BY <1>9 DEF Aligned, u, z

\* Hunks have slots, ...
LEMMA SlotType ==
  ASSUME NEW h \in Nat PROVE Slot(h) \in Slots /\ Slot(h) \in 0..(Ring - 1)
BY RingFacts, Division DEF Slot, Slots

\* ... each its own among as many as the ring has, ...
LEMMA SlotOwn ==
  ASSUME NEW a \in Nat, NEW b \in Nat, a # b, a < b + Ring, b < a + Ring
  PROVE  Slot(a) # Slot(b)
<1> SUFFICES ASSUME Slot(a) = Slot(b) PROVE FALSE
  OBVIOUS
<1> DEFINE p == a \div Ring
           q == b \div Ring
           u == a % Ring
           v == b % Ring
<1>1. Ring \in Nat \ {0}
  BY RingFacts
<1>2. u \in 0..(Ring - 1) /\ p \in Nat /\ a = Ring * p + u
  BY <1>1, Division
<1>3. v \in 0..(Ring - 1) /\ q \in Nat /\ b = Ring * q + v
  BY <1>1, Division
<1>4. u = v
  BY DEF Slot
<1>. HIDE DEF p, q, u, v
<1> DEFINE e == p - q
<1>5. e \in Int /\ a - b = Ring * e
  BY <1>1, <1>2, <1>3, <1>4
<1>. HIDE DEF e
<1>6. e >= 1 => Ring * e >= Ring
  BY <1>1, <1>5
<1>7. e <= -1 => Ring * e <= -Ring
  BY <1>1, <1>5
<1>8. e = 0 => Ring * e = 0
  BY <1>1
<1>. QED  BY <1>1, <1>5, <1>6, <1>7, <1>8

\* ... and hunks that follow one another have slots that do, within a half.
LEMMA SlotsOfHalf ==
  ASSUME NEW d \in Nat, Aligned(d)
  PROVE  /\ Slot(d) \in {0, Half}
         /\ \A k \in 0..(Half - 1) : Slot(d + k) = Slot(d) + k
<1> DEFINE p == d \div Half
<1>1. Half \in Nat \ {0} /\ Ring = Half + Half /\ Ring \in Nat \ {0}
  BY RingFacts
<1>2. p \in Nat /\ d = Half * p
  BY <1>1, Division DEF Aligned
<1> DEFINE x == p \div 2
           y == p % 2
<1>3. x \in Nat /\ y \in 0..1 /\ p = 2 * x + y
  BY <1>2, Division
<1>. HIDE DEF p, x, y
<1>4. Half * (2 * x + y) = Ring * x + Half * y
  BY <1>1, <1>3
<1>5. d = Ring * x + Half * y
  BY <1>2, <1>3, <1>4
<1>6. Half * y \in {0, Half}
  BY <1>1, <1>3
<1> DEFINE z == Half * y
<1>. HIDE DEF z
<1>7. z \in {0, Half} /\ d = Ring * x + z
  BY <1>5, <1>6 DEF z
<1>8. ASSUME NEW k \in 0..(Half - 1) PROVE Slot(d + k) = z + k
  <2> DEFINE a == d + k
             u == z + k
  <2>1. a \in Nat /\ u \in 0..(Ring - 1) /\ a = Ring * x + u
    BY <1>1, <1>3, <1>7
  <2>. HIDE DEF a, u
  <2>2. a % Ring = u
    BY <1>1, <1>3, <2>1, RemainderIs
  <2>. QED  BY <2>2 DEF Slot, a, u
<1>9. 0 \in 0..(Half - 1) /\ d + 0 = d /\ z + 0 = z
  BY <1>1, <1>7
<1>10. Slot(d + 0) = z + 0
  BY <1>8, <1>9
<1>11. Slot(d) = z
  BY <1>9, <1>10
<1>. QED  BY <1>7, <1>8, <1>11

\* The position behind a hunk's slot is the next hunk's, or the extra one.
LEMMA SlotNext ==
  ASSUME NEW h \in Nat PROVE Slot(h) + 1 = Ring \/ Slot(h) + 1 = Slot(h + 1)
<1> DEFINE p == h \div Ring
           u == h % Ring
<1>1. Ring \in Nat \ {0}
  BY RingFacts
<1>2. u \in 0..(Ring - 1) /\ p \in Nat /\ h = Ring * p + u
  BY <1>1, Division
<1>3. Slot(h) = u
  BY DEF Slot
<1>. HIDE DEF p, u
<1> DEFINE a == h + 1
           v == u + 1
<1>4. a \in Nat /\ a = Ring * p + v /\ (u + 1 # Ring => v \in 0..(Ring - 1))
  BY <1>1, <1>2
<1>. HIDE DEF a, v
<1>5. u + 1 # Ring => a % Ring = v
  BY <1>1, <1>2, <1>4, RemainderIs
<1>. QED  BY <1>3, <1>5 DEF a, v, Slot

\* So do those of a half and of the extra hunk behind it, unless that is at the end.
LEMMA SlotsOfRead ==
  ASSUME NEW d \in Nat, Aligned(d), NEW k \in 0..Half
  PROVE  Slot(d) + k = Slot(d + k) \/ Slot(d) + k = Ring
<1>1. /\ Half \in Nat \ {0} /\ Ring = Half + Half /\ Slot(d) \in {0, Half}
      /\ \A i \in 0..(Half - 1) : Slot(d + i) = Slot(d) + i
  BY RingFacts, SlotsOfHalf
<1>2. CASE k < Half
  BY <1>1, <1>2
<1>3. CASE k = Half
  <2> DEFINE h == d + (Half - 1)
  <2>1. h \in Nat /\ h + 1 = d + k /\ Slot(h) = Slot(d) + (Half - 1)
    BY <1>1, <1>3
  <2>. HIDE DEF h
  <2>2. Slot(h) + 1 = Ring \/ Slot(h) + 1 = Slot(h + 1)
    BY <2>1, SlotNext
  <2>3. Slot(h + 1) = Slot(d + k)
    BY <2>1
  <2>4. Slot(h) + 1 = Slot(d) + k
    BY <1>1, <1>3, <2>1
  <2>. QED  BY <2>2, <2>3, <2>4
<1>. QED  BY <1>1, <1>2, <1>3

\* A slot comes round once for every ring of hunks.
LEMMA SlotAgain ==
  ASSUME NEW h \in Nat PROVE Slot(h + Ring) = Slot(h)
<1> DEFINE p == h \div Ring
           u == h % Ring
           a == h + Ring
           x == p + 1
<1>1. Ring \in Nat \ {0}
  BY RingFacts
<1>2. u \in 0..(Ring - 1) /\ p \in Nat /\ h = Ring * p + u
  BY <1>1, Division
<1>3. Slot(h) = u /\ Slot(h + Ring) = a % Ring
  BY DEF Slot
<1>4. Ring * (p + 1) = Ring * p + Ring
  BY <1>1, <1>2
<1>5. a \in Nat /\ x \in Nat /\ a = Ring * x + u
  BY <1>1, <1>2, <1>4
<1>. HIDE DEF p, u, a, x
<1>6. a % Ring = u
  BY <1>1, <1>2, <1>5, RemainderIs
<1>. QED  BY <1>3, <1>6

-----------------------------------------------------------------------------
(* The inductive invariant. *)

\* Unless there is none, the walk over the parent ends when the reader has returned
\* from its last read.  compress_continue does not wait for that (chd.cpp:2953-2963):
\* where it does not happen, AssertionsHold, DataStay and StoredRight fail and the
\* parent's data are hashed with the file's (README, Disagreements).
Idle == EndWalk => reads = 0
WalkWaits == [][EndWalk => reads = 0]_vars

\* how far hunks have been handed to the workers, and how far they are in the ring
Loading == reader \in {"claim", "store", "advance"}
Claimed == IF reader = "claim" THEN cur
           ELSE IF reader = "store" THEN cur + 1
           ELSE IF reader = "advance" THEN end ELSE doneOffset
Loaded  == IF Loading THEN end ELSE doneOffset

\* The types, with those of the locals that TypeOK leaves to the model.
Types ==
  /\ TypeOK /\ cur \in Nat /\ end \in Nat
  /\ main \in {"call", "queue", "flush", "wait", "release", "write", "finish", "finished", "failed"}
  /\ reader \in {"idle", "read", "claim", "store", "advance"}

\* What is written was claimed, that was loaded, and the reads that are queued stay
\* within a ring of what is written; with a parent, one hunk short of it.
Offsets ==
  /\ Aligned(queueOffset) /\ queueOffset < HunkCount + Half
  /\ writeHunk <= Claimed /\ Claimed <= Loaded /\ Loaded <= HunkCount /\ Loaded <= queueOffset
  /\ queueOffset <= writeHunk + Ring
  /\ walking => queueOffset < writeHunk + Ring

\* Reads are of one half each, but for the last one.
Reads ==
  /\ walking => HasParent /\ ~readError
  /\ reader # "idle" => /\ reads > 0 /\ ~readError /\ end = doneOffset + num
                        /\ doneOffset + Half > HunkCount => num = HunkCount - doneOffset
                        /\ doneOffset + Half <= HunkCount => num = Half
  /\ ~readError =>
       /\ reads = 0 => doneOffset = IF queueOffset < HunkCount THEN queueOffset ELSE HunkCount
       /\ reads = 1 => queueOffset = doneOffset + Half
       /\ reads = 2 => queueOffset = doneOffset + Half + Half
  /\ reader = "claim" => doneOffset <= cur /\ cur <= end
  /\ reader = "store" => doneOffset <= cur /\ cur < end

\* A hunk is written when it is finished, and after the last one there is only the
\* wait for the reader.
Turns ==
  /\ main \in {"release", "write"} => status[Slot(writeHunk)] = "complete"
  /\ main \in {"finish", "finished"} => writeHunk = HunkCount
  /\ writeHunk = HunkCount => main \in {"finish", "finished", "failed"}
  /\ main \in {"finish", "finished"} => ~walking
  /\ main = "finished" => reads = 0

\* Each claimed hunk has a slot of its own, and each slot that is to be read is a
\* hunk's to come.
Ringed ==
  /\ \A h \in Nat : writeHunk <= h /\ h < Claimed =>
       status[Slot(h)] \in {"queued", "complete"} /\ hunknum[Slot(h)] = h
  /\ \A h \in Nat : Claimed <= h /\ h < queueOffset => status[Slot(h)] = "reading"
  /\ \A s \in Slots : status[s] \in {"queued", "complete"} =>
       writeHunk <= hunknum[s] /\ hunknum[s] < Claimed /\ Slot(hunknum[s]) = s

\* A job that is not finished is for a hunk that was claimed and is not written.
Busy == {"listed", "hash", "compress", "complete"}

Working ==
  \A j \in Jobs : work[j] \in Busy =>
    /\ j.walk = walking /\ writeHunk <= j.hunk /\ j.hunk < Claimed
    /\ status[Slot(j.hunk)] = "queued"

\* Loaded hunks are in the ring until they are written, from a parent with the one
\* that follows.
Kept ==
  \A h \in Nat : writeHunk <= h /\ h < Loaded =>
    /\ ~walking => buffer[Slot(h)] = Child[h]
    /\ walking /\ h \in DOMAIN Parent => buffer[Slot(h)] = Parent[h]
    /\ walking /\ h + 1 \in DOMAIN Parent => buffer[Slot(h) + 1] = Parent[h + 1]

\* The half that is being handed on is in the ring until it is hashed, ...
Hashing ==
  reader \in {"claim", "store"} /\ ~walking =>
    \A k \in 0..(Half - 1) : k < num => buffer[Slot(doneOffset) + k] = Child[doneOffset + k]

\* ... and the hash is of what was read.
Hashed == IF reader = "advance" THEN end ELSE doneOffset
Summed == sha = IF walking \/ ~Compressed THEN <<>> ELSE [k \in 1..Hashed |-> Child[k - 1]]

Shape == Types /\ Offsets /\ Reads /\ Turns /\ Ringed /\ Working

Inv == Shape /\ Kept /\ Hashing /\ Summed

-----------------------------------------------------------------------------
(* Lemmas about states. *)

\* A hunk that is to be written was claimed.
LEMMA WriteClaimed ==
  ASSUME Shape, main \in {"release", "write"}
  PROVE  writeHunk < Claimed /\ writeHunk \in Nat /\ Slot(writeHunk) \in Slots
<1> DEFINE s == Slot(writeHunk)
<1>1. writeHunk \in Nat
  BY RingFacts DEF Shape, Types, TypeOK
<1>2. s \in Slots
  BY <1>1, SlotType
<1>3. status[s] = "complete"
  BY DEF Shape, Turns
<1>4. hunknum[s] \in Nat
  BY <1>2, RingFacts DEF Shape, Types, TypeOK, Hunks
<1>5. Claimed \in Nat
  BY DEF Shape, Types, TypeOK, Claimed
<1>. HIDE DEF s
<1>6. writeHunk <= hunknum[s] /\ hunknum[s] < Claimed
  BY <1>2, <1>3 DEF Shape, Ringed
<1>. QED  BY <1>1, <1>2, <1>4, <1>5, <1>6 DEF s

\* A slot that is ready is no hunk's between the one to write and those to read.
LEMMA ReadyIsFree ==
  ASSUME Shape, NEW h \in Nat, writeHunk <= h, h < queueOffset
  PROVE  status[Slot(h)] # "ready"
<1>1. Claimed \in Nat
  BY DEF Shape, Types, TypeOK, Claimed
<1>2. CASE h < Claimed
  BY <1>2 DEF Shape, Ringed
<1>3. CASE Claimed <= h
  BY <1>3 DEF Shape, Ringed
<1>. QED  BY <1>1, <1>2, <1>3

\* When there is room for a read, its hunks are within the ring.
LEMMA RoomIsRoom ==
  ASSUME Shape, RoomToRead
  PROVE  queueOffset + Half <= writeHunk + Ring /\ (walking => queueOffset + Half < writeHunk + Ring)
<1>1. queueOffset \in Nat /\ writeHunk \in Nat /\ queueOffset <= writeHunk + Ring
  BY RingFacts DEF Shape, Types, TypeOK, Offsets
<1>2. Half \in Nat \ {0} /\ Ring = Half + Half
  BY RingFacts
<1>3. ASSUME NEW k \in 0..Half, queueOffset + k = writeHunk + Ring, status[Slot(queueOffset + k)] = "ready"
      PROVE  FALSE
  <2>1. status[Slot(writeHunk + Ring)] = "ready"
    BY <1>3
  <2>2. status[Slot(writeHunk)] = "ready"
    BY <1>1, <2>1, SlotAgain
  <2>3. writeHunk < queueOffset
    BY <1>1, <1>2, <1>3
  <2>. QED  BY <1>1, <2>2, <2>3, ReadyIsFree
<1>4. queueOffset + Half <= writeHunk + Ring
  <2>1. SUFFICES ASSUME queueOffset + Half > writeHunk + Ring PROVE FALSE
    BY <1>1, <1>2
  <2> DEFINE k == writeHunk + Ring - queueOffset
  <2>2. k \in 0..(Half - 1) /\ queueOffset + k = writeHunk + Ring /\ k \in 0..Half
    BY <1>1, <1>2, <2>1
  <2>. HIDE DEF k
  <2>3. status[Slot(queueOffset + k)] = "ready"
    BY <2>2 DEF RoomToRead
  <2>. QED  BY <2>2, <2>3, <1>3
<1>5. ASSUME walking PROVE queueOffset + Half # writeHunk + Ring
  <2>1. status[Slot(queueOffset + Half)] = "ready"
    BY <1>5 DEF RoomToRead
  <2>2. Half \in 0..Half
    BY <1>2
  <2>. QED  BY <2>1, <2>2, <1>3
<1>. QED  BY <1>1, <1>2, <1>4, <1>5

-----------------------------------------------------------------------------
(* The steps. *)

Still == UNCHANGED <<setup, walking, queueOffset, doneOffset, readError, reads, writeHunk,
                     reader, num, cur, end, made, hunknum, buffer, sha>>

\* a step of compress_continue that moves no hunk
MainMoves == Still /\ UNCHANGED <<status, work>> /\ osd' \in [Slots -> Jobs \cup {NoJob}]

\* a step of a job that does not finish its hunk
JobMoves(j) ==
  /\ Still /\ UNCHANGED <<main, status, osd>>
  /\ \E x \in Busy \cup {"return", "done"} :
       work' = [work EXCEPT ![j] = x] /\ (x \in Busy => work[j] \in Busy)

\* a half is queued to be read
QueueHalf == QueueRead /\ RoomToRead

\* the hunk that is to be written is
WriteNext == WriteHunk \/ WriteLast

LEMMA Moves ==
  ASSUME Shape, Next
  PROVE  \/ MainMoves /\ Main
         \/ Ended
         \/ QueueHalf \/ WriteNext \/ EndWalk
         \/ Reader
         \/ \E j \in Jobs : JobMoves(j) \/ MarkComplete(j)
<1>1. CASE Ended
  BY <1>1
<1>2. CASE Reader
  BY <1>2
<1>3. CASE Main
  <2>1. osd \in [Slots -> Jobs \cup {NoJob}] /\ writeHunk \in Nat
    BY RingFacts DEF Shape, Types, TypeOK
  <2>2. [osd EXCEPT ![Slot(writeHunk)] = NoJob] \in [Slots -> Jobs \cup {NoJob}]
    BY <2>1
  <2>3. CASE Continue
    BY <2>1, <2>3 DEF Continue, MainMoves, Still, Main, shared, slotVars, mapVars, readVars
  <2>4. CASE QueueRead /\ ~RoomToRead
    BY <2>1, <2>4 DEF QueueRead, MainMoves, Still, Main, mapVars, readVars
  <2>5. CASE Flush
    BY <2>1, <2>5 DEF Flush, MainMoves, Still, Main, shared, slotVars, mapVars, readVars
  <2>6. CASE ReleaseItem
    BY <2>1, <2>6 DEF ReleaseItem, MainMoves, Still, Main, shared, slotVars, mapVars, readVars
  <2>7. CASE WriteFails
    BY <2>2, <2>7 DEF WriteFails, MainMoves, Still, Main, shared, mapVars, readVars
  <2>8. CASE Finish
    BY <2>1, <2>8 DEF Finish, MainMoves, Still, Main, shared, slotVars, mapVars, readVars
  <2>9. CASE WaitForWork
    BY <2>1, <2>9 DEF WaitForWork, MainMoves, Still, Main, shared, slotVars, mapVars, readVars
  <2>. QED
    BY <1>3, <2>3, <2>4, <2>5, <2>6, <2>7, <2>8, <2>9 DEF Main, QueueHalf, WriteNext
<1>4. ASSUME NEW j \in Jobs, Work(j) PROVE JobMoves(j) \/ MarkComplete(j)
  <2>1. CASE TakeJob(j)
    BY <2>1 DEF TakeJob, Advance, WorkUnchanged, JobMoves, Still, Busy, shared, mapVars, readVars
  <2>2. CASE HashHunk(j)
    BY <2>2 DEF HashHunk, Advance, WorkUnchanged, JobMoves, Still, Busy, shared, mapVars, readVars
  <2>3. CASE CompressHunk(j)
    BY <2>3 DEF CompressHunk, Advance, WorkUnchanged, JobMoves, Still, Busy, shared, mapVars, readVars
  <2>4. CASE ItemDone(j)
    BY <2>4 DEF ItemDone, Advance, WorkUnchanged, JobMoves, Still, Busy, shared, mapVars, readVars
  <2>. QED  BY <1>4, <2>1, <2>2, <2>3, <2>4 DEF Work
<1>. QED  BY <1>1, <1>2, <1>3, <1>4 DEF Next

\* How the compressor was called does not change.
LEMMA SetupStays ==
  ASSUME Next
  PROVE  setup' = setup /\ Parent' = Parent /\ HasParent' = HasParent /\ Prompt' = Prompt
<1>1. setup' = setup
  <2>1. CASE Main
    BY <2>1 DEF Main, Continue, QueueRead, Flush, ReleaseItem, WriteHunk, EndWalk, WriteLast,
       WriteFails, Finish, WaitForWork, readVars
  <2>2. CASE Reader
    BY <2>2 DEF Reader, BeginRead, ReadData, ReadFails, ClaimHunk, StoreItem, HashData, AdvanceRead,
       mapVars
  <2>3. ASSUME NEW j \in Jobs, Work(j) PROVE setup' = setup
    BY <2>3 DEF Work, TakeJob, HashHunk, CompressHunk, MarkComplete, ItemDone, WorkUnchanged, readVars
  <2>. QED  BY <2>1, <2>2, <2>3 DEF Next, Ended, vars, readVars
<1>. QED  BY <1>1 DEF Parent, HasParent, ParentCount, Prompt

\* The numbers have their types.
LEMMA Numbers ==
  ASSUME Types
  PROVE  /\ queueOffset \in Nat /\ doneOffset \in Nat /\ cur \in Nat /\ end \in Nat
         /\ writeHunk \in 0..HunkCount /\ writeHunk \in Nat /\ num \in 0..Half /\ num \in Nat
         /\ reads \in 0..2 /\ readError \in BOOLEAN /\ walking \in BOOLEAN
         /\ Claimed \in Nat /\ Loaded \in Nat
BY RingFacts DEF Types, TypeOK, Claimed, Loaded

\* The offsets and the reads.
LEMMA OffsetsStay ==
  ASSUME Shape, Idle, Next PROVE Offsets' /\ Reads'
<1>1. /\ queueOffset \in Nat /\ doneOffset \in Nat /\ cur \in Nat /\ end \in Nat
      /\ writeHunk \in 0..HunkCount /\ writeHunk \in Nat /\ num \in 0..Half /\ num \in Nat
      /\ reads \in 0..2 /\ readError \in BOOLEAN /\ walking \in BOOLEAN
      /\ Half \in Nat \ {0} /\ Ring = Half + Half /\ HunkCount \in Nat \ {0}
  BY RingFacts, Numbers DEF Shape
<1>2. Offsets /\ Reads
  BY DEF Shape
<1>3. HasParent' = HasParent
  BY SetupStays
<1>4. CASE Still
  BY <1>2, <1>3, <1>4 DEF Still, Offsets, Reads, Aligned, Claimed, Loaded, Loading
<1>5. CASE QueueHalf
  <2>1. queueOffset + Half <= writeHunk + Ring /\ (walking => queueOffset + Half < writeHunk + Ring)
    BY <1>5, RoomIsRoom DEF QueueHalf
  <2>2. Aligned(queueOffset + Half)
    BY <1>1, <1>2, AlignedPlus DEF Offsets
  <2>3. /\ queueOffset' = queueOffset + Half /\ reads' = reads + 1 /\ queueOffset < HunkCount /\ reads < 2
        /\ UNCHANGED <<walking, doneOffset, readError, writeHunk, reader, num, cur, end>>
    BY <1>5 DEF QueueHalf, QueueRead, RoomToRead, mapVars, readVars
  <2>4. Aligned(queueOffset)'
    BY <2>2, <2>3 DEF Aligned
  <2>5. Offsets'
    BY <1>1, <1>2, <2>1, <2>3, <2>4 DEF Offsets, Claimed, Loaded, Loading
  <2>6. Reads'
    BY <1>1, <1>2, <1>3, <2>3 DEF Reads
  <2>. QED  BY <2>5, <2>6
<1>6. CASE WriteNext
  <2>1. writeHunk < Claimed
    BY <1>6, WriteClaimed DEF WriteNext, WriteHunk, WriteLast
  <2>2. /\ writeHunk' = writeHunk + 1
        /\ UNCHANGED <<walking, doneOffset, queueOffset, reads, readError, reader, num, cur, end>>
    BY <1>6 DEF WriteNext, WriteHunk, WriteLast, shared, readVars
  <2>. QED  BY <1>1, <1>2, <1>3, <2>1, <2>2 DEF Offsets, Reads, Aligned, Claimed, Loaded, Loading
<1>7. CASE EndWalk
  <2>1. /\ reads = 0 /\ walking' = FALSE /\ queueOffset' = 0 /\ doneOffset' = 0 /\ writeHunk' = 0
        /\ UNCHANGED <<readError, reads, reader, num, cur, end>>
    BY <1>2, <1>7 DEF EndWalk, readVars, Idle, Reads
  <2>2. Aligned(queueOffset)'
    BY <2>1, AlignedZero DEF Aligned
  <2>. QED  BY <1>1, <1>2, <2>1, <2>2 DEF Offsets, Reads, Claimed, Loaded, Loading
<1>8. CASE Reader
  <2>1. UNCHANGED <<walking, queueOffset, writeHunk>>
    BY <1>8 DEF Reader, BeginRead, ReadData, ReadFails, ClaimHunk, StoreItem, HashData, AdvanceRead,
       shared, mapVars
  <2>2. Aligned(queueOffset)'
    BY <1>2, <2>1 DEF Offsets, Aligned
  <2>3. CASE BeginRead
    BY <1>1, <1>2, <1>3, <2>1, <2>2, <2>3 DEF BeginRead, Offsets, Reads, Claimed, Loaded, Loading
  <2>4. CASE ReadData
    BY <1>1, <1>2, <1>3, <2>1, <2>2, <2>4
    DEF ReadData, shared, Offsets, Reads, Claimed, Loaded, Loading
  <2>5. CASE ReadFails
    BY <1>1, <1>2, <1>3, <2>1, <2>2, <2>5 DEF ReadFails, Offsets, Reads, Claimed, Loaded, Loading
  <2>6. CASE ClaimHunk
    BY <1>1, <1>2, <1>3, <2>1, <2>2, <2>6
    DEF ClaimHunk, shared, Offsets, Reads, Claimed, Loaded, Loading
  <2>7. CASE StoreItem
    BY <1>1, <1>2, <1>3, <2>1, <2>2, <2>7
    DEF StoreItem, shared, Offsets, Reads, Claimed, Loaded, Loading
  <2>8. CASE HashData
    BY <1>1, <1>2, <1>3, <2>1, <2>2, <2>8 DEF HashData, Offsets, Reads, Claimed, Loaded, Loading
  <2>9. CASE AdvanceRead
    BY <1>1, <1>2, <1>3, <2>1, <2>2, <2>9 DEF AdvanceRead, Offsets, Reads, Claimed, Loaded, Loading
  <2>. QED  BY <1>8, <2>3, <2>4, <2>5, <2>6, <2>7, <2>8, <2>9 DEF Reader
<1>9. CASE Ended
  BY <1>2, <1>3, <1>9
  DEF Ended, vars, shared, slotVars, mapVars, readVars, Offsets, Reads, Aligned, Claimed, Loaded, Loading
<1>10. ASSUME NEW j \in Jobs, MarkComplete(j) PROVE Still
  BY <1>10 DEF MarkComplete, WorkUnchanged, Still, shared, mapVars, readVars
<1>. QED  BY <1>4, <1>5, <1>6, <1>7, <1>8, <1>9, <1>10, Moves DEF MainMoves, JobMoves

\* The steps of the reader but one hand no hunk on.
ReadMoves ==
  /\ UNCHANGED <<setup, status, hunknum, work, walking, queueOffset, writeHunk, main>>
  /\ Claimed' = Claimed

LEMMA ReaderMoves ==
  ASSUME Shape, Reader PROVE ReadMoves \/ ClaimHunk
<1>1. /\ cur \in Nat /\ end \in Nat /\ doneOffset \in Nat /\ num \in Nat
  BY Numbers DEF Shape
<1>2. (reader # "idle" => end = doneOffset + num) /\ (reader = "claim" => cur <= end)
  BY DEF Shape, Reads
<1>3. CASE BeginRead
  BY <1>3 DEF BeginRead, ReadMoves, Claimed, slotVars, mapVars
<1>4. CASE ReadData
  BY <1>4 DEF ReadData, ReadMoves, Claimed, shared, mapVars
<1>5. CASE ReadFails
  BY <1>5 DEF ReadFails, ReadMoves, Claimed, slotVars, mapVars
<1>6. CASE StoreItem
  BY <1>6 DEF StoreItem, ReadMoves, Claimed, shared, mapVars
<1>7. CASE HashData
  BY <1>1, <1>2, <1>7 DEF HashData, ReadMoves, Claimed, slotVars, mapVars
<1>8. CASE AdvanceRead
  BY <1>2, <1>8 DEF AdvanceRead, ReadMoves, Claimed, slotVars, mapVars
<1>. QED  BY <1>3, <1>4, <1>5, <1>6, <1>7, <1>8 DEF Reader

\* A status that is set in one slot, or in several.
LEMMA StatusType ==
  ASSUME TypeOK, NEW s, NEW S, NEW x \in {"ready", "reading", "queued", "complete"}
  PROVE  /\ [status EXCEPT ![s] = x] \in [Slots -> {"ready", "reading", "queued", "complete"}]
         /\ [t \in Slots |-> IF t \in S THEN x ELSE status[t]]
              \in [Slots -> {"ready", "reading", "queued", "complete"}]
BY DEF TypeOK

\* The types.
LEMMA TypesStay ==
  ASSUME Shape, Idle, Next PROVE Types'
<1> DEFINE Status == {"ready", "reading", "queued", "complete"}
<1>1. /\ queueOffset \in Nat /\ doneOffset \in Nat /\ cur \in Nat /\ end \in Nat
      /\ writeHunk \in 0..HunkCount /\ writeHunk \in Nat /\ num \in 0..Half /\ num \in Nat
      /\ reads \in 0..2 /\ readError \in BOOLEAN /\ walking \in BOOLEAN
      /\ Half \in Nat \ {0} /\ Ring = Half + Half /\ HunkCount \in Nat \ {0}
  BY RingFacts, Numbers DEF Shape
<1>2. /\ setup \in Setups /\ status \in [Slots -> Status] /\ hunknum \in [Slots -> Hunks]
      /\ osd \in [Slots -> Jobs \cup {NoJob}] /\ DOMAIN buffer = 0..Ring
      /\ work \in [Jobs -> Pipeline] /\ made \in Jobs \cup {NoJob}
      /\ main \in {"call", "queue", "flush", "wait", "release", "write", "finish", "finished", "failed"}
      /\ reader \in {"idle", "read", "claim", "store", "advance"}
  BY DEF Shape, Types, TypeOK
<1>3. setup' \in Setups
  BY <1>2, SetupStays
<1>4. CASE MainMoves /\ Main
  <2>1. main' \in {"call", "queue", "flush", "wait", "release", "write", "finish", "finished", "failed"}
    BY <1>4 DEF Main, Continue, QueueRead, Flush, ReleaseItem, WriteHunk, EndWalk, WriteLast,
       WriteFails, Finish, WaitForWork
  <2>. QED  BY <1>1, <1>2, <1>3, <1>4, <2>1 DEF MainMoves, Still, Types, TypeOK
<1>5. CASE Ended
  BY <1>1, <1>2, <1>5 DEF Ended, vars, shared, slotVars, mapVars, readVars, Types, TypeOK
<1>6. CASE QueueHalf
  <2>1. status' \in [Slots -> Status]
    BY <1>2, <1>6 DEF QueueHalf, QueueRead
  <2>. QED  BY <1>1, <1>2, <1>3, <1>6, <2>1
            DEF QueueHalf, QueueRead, RoomToRead, mapVars, readVars, Types, TypeOK
<1>7. CASE WriteNext
  <2>1. osd' \in [Slots -> Jobs \cup {NoJob}] /\ status' \in [Slots -> Status]
    BY <1>2, <1>7 DEF WriteNext, WriteHunk, WriteLast
  <2>2. writeHunk' \in 0..HunkCount
    <3>1. writeHunk < Claimed /\ Claimed <= HunkCount /\ Claimed \in Nat
      BY <1>7, WriteClaimed, OffsetsStay, Numbers, <1>1
      DEF WriteNext, WriteHunk, WriteLast, Shape, Offsets
    <3>. QED  BY <1>1, <1>7, <3>1 DEF WriteNext, WriteHunk, WriteLast
  <2>. QED  BY <1>1, <1>2, <1>3, <1>7, <2>1, <2>2
            DEF WriteNext, WriteHunk, WriteLast, shared, readVars, Types, TypeOK
<1>8. CASE EndWalk
  <2>1. osd' \in [Slots -> Jobs \cup {NoJob}] /\ status' \in [Slots -> Status]
    BY <1>2, <1>8 DEF EndWalk
  <2>2. /\ walking' = FALSE /\ queueOffset' = 0 /\ doneOffset' = 0 /\ writeHunk' = 0 /\ main' = "flush"
        /\ UNCHANGED <<readError, reads, hunknum, buffer, reader, num, cur, end, made, work>>
    BY <1>8 DEF EndWalk, readVars
  <2>3. /\ queueOffset' \in Nat /\ doneOffset' \in Nat
        /\ reads' \in 0..2 /\ writeHunk' \in 0..HunkCount /\ num' \in 0..Half
        /\ cur' \in Nat /\ end' \in Nat
    BY <1>1, <2>2
  <2>4. /\ hunknum' \in [Slots -> Hunks] /\ DOMAIN buffer' = 0..Ring
        /\ work' \in [Jobs -> Pipeline] /\ made' \in Jobs \cup {NoJob}
        /\ reader' \in {"idle", "read", "claim", "store", "advance"}
    BY <1>2, <2>2
  <2>5. walking' \in BOOLEAN
    BY <2>2
  <2>6. readError' \in BOOLEAN
    BY <1>1, <2>2
  <2>. QED  BY <1>3, <2>1, <2>2, <2>3, <2>4, <2>5, <2>6 DEF Types, TypeOK
<1>9. ASSUME NEW j \in Jobs, JobMoves(j) PROVE Types'
  <2>1. work' \in [Jobs -> Pipeline]
    BY <1>2, <1>9 DEF JobMoves, Pipeline, Busy
  <2>. QED  BY <1>1, <1>2, <1>3, <1>9, <2>1 DEF JobMoves, Still, Types, TypeOK
<1>10. ASSUME NEW j \in Jobs, MarkComplete(j) PROVE Types'
  <2>1. work' \in [Jobs -> Pipeline] /\ status' \in [Slots -> Status]
    BY <1>2, <1>10 DEF MarkComplete, Advance, Pipeline
  <2>. QED  BY <1>1, <1>2, <1>3, <1>10, <2>1
            DEF MarkComplete, WorkUnchanged, shared, mapVars, readVars, Types, TypeOK
<1>11. CASE Reader
  <2>1. Reads /\ Offsets
    BY DEF Shape
  <2>2. CASE BeginRead
    <3>1. doneOffset <= HunkCount
      BY <1>1, <1>2, <2>1, <2>2 DEF BeginRead, Offsets, Loaded, Loading
    <3>. QED  BY <1>1, <1>2, <1>3, <2>2, <3>1
              DEF BeginRead, shared, slotVars, mapVars, Types, TypeOK
  <2>3. CASE ReadData
    <3>1. DOMAIN buffer' = 0..Ring
      BY <2>3 DEF ReadData, Filled
    <3>. QED  BY <1>1, <1>2, <1>3, <2>3, <3>1 DEF ReadData, shared, mapVars, Types, TypeOK
  <2>4. CASE ReadFails
    BY <1>1, <1>2, <1>3, <2>1, <2>4 DEF ReadFails, slotVars, mapVars, Types, TypeOK, Reads
  <2>5. CASE ClaimHunk
    <3>1. cur \in Hunks /\ [walk |-> walking, hunk |-> cur] \in Jobs
      <4>1. cur < end /\ end <= HunkCount
        BY <2>1, <2>5 DEF ClaimHunk, Offsets, Loaded, Loading
      <4>. QED  BY <1>1, <4>1 DEF Hunks, Jobs
    <3>2. status' \in [Slots -> Status] /\ hunknum' \in [Slots -> Hunks] /\ made' \in Jobs
      BY <1>2, <2>5, <3>1 DEF ClaimHunk
    <3>3. work' \in [Jobs -> Pipeline]
      BY <1>2, <2>5 DEF ClaimHunk, Pipeline
    <3>. QED  BY <1>1, <1>2, <1>3, <2>5, <3>2, <3>3
              DEF ClaimHunk, shared, mapVars, Types, TypeOK
  <2>6. CASE StoreItem
    <3>1. osd' \in [Slots -> Jobs \cup {NoJob}]
      BY <1>2, <2>6 DEF StoreItem
    <3>. QED  BY <1>1, <1>2, <1>3, <2>6, <3>1 DEF StoreItem, shared, mapVars, Types, TypeOK
  <2>7. CASE HashData
    BY <1>1, <1>2, <1>3, <2>7 DEF HashData, slotVars, mapVars, Types, TypeOK
  <2>8. CASE AdvanceRead
    BY <1>1, <1>2, <1>3, <2>1, <2>8 DEF AdvanceRead, slotVars, mapVars, Types, TypeOK, Reads
  <2>. QED  BY <1>11, <2>2, <2>3, <2>4, <2>5, <2>6, <2>7, <2>8 DEF Reader
<1>. QED  BY <1>4, <1>5, <1>6, <1>7, <1>8, <1>9, <1>10, <1>11, Moves

\* Where compress_continue is.
LEMMA TurnsStay ==
  ASSUME Shape, Idle, Next PROVE Turns'
<1>1. /\ Turns /\ reads \in 0..2 /\ writeHunk \in Nat /\ HunkCount \in Nat \ {0}
      /\ status \in [Slots -> {"ready", "reading", "queued", "complete"}]
  BY RingFacts, Numbers DEF Shape, Types, TypeOK
<1>2. CASE MainMoves /\ Main
  <2>1. UNCHANGED <<status, writeHunk, walking, reads>>
    BY <1>2 DEF MainMoves, Still
  <2>2. CASE Continue
    BY <1>1, <2>1, <2>2 DEF Continue, Turns, Slot
  <2>3. CASE QueueRead
    BY <1>1, <1>2, <2>1, <2>3 DEF QueueRead, Turns, Slot, MainMoves, Still
  <2>4. CASE Flush
    BY <1>1, <2>1, <2>4 DEF Flush, Turns, Slot
  <2>5. CASE ReleaseItem
    BY <1>1, <2>1, <2>5 DEF ReleaseItem, Turns, Slot
  <2>6. CASE WriteHunk \/ WriteLast \/ EndWalk
    BY <1>1, <2>1, <2>6 DEF WriteHunk, WriteLast, EndWalk, Turns, Slot
  <2>7. CASE WriteFails
    BY <1>1, <2>1, <2>7 DEF WriteFails, Turns, Slot
  <2>8. CASE Finish
    BY <1>1, <2>1, <2>8 DEF Finish, Turns, Slot
  <2>9. CASE WaitForWork
    BY <1>1, <2>1, <2>9 DEF WaitForWork, Turns, Slot
  <2>. QED  BY <1>2, <2>2, <2>3, <2>4, <2>5, <2>6, <2>7, <2>8, <2>9 DEF Main
<1>3. CASE Ended
  BY <1>1, <1>3 DEF Ended, vars, shared, slotVars, mapVars, Turns, Slot
<1>4. CASE QueueHalf
  BY <1>1, <1>4 DEF QueueHalf, QueueRead, mapVars, Turns
<1>5. CASE WriteNext
  BY <1>1, <1>5 DEF WriteNext, WriteHunk, WriteLast, shared, Turns
<1>6. CASE EndWalk
  <2>1. writeHunk' = 0 /\ main' = "flush" /\ walking' = FALSE
    BY <1>6 DEF EndWalk
  <2>. QED  BY <1>1, <2>1 DEF Turns
<1>7. CASE ClaimHunk
  <2>1. UNCHANGED <<walking, writeHunk, main, reads>> /\ status[Slot(cur)] = "reading"
        /\ status' = [status EXCEPT ![Slot(cur)] = "queued"]
    BY <1>7 DEF ClaimHunk, shared, mapVars
  <2>. QED  BY <1>1, <2>1 DEF Turns, Slot
<1>8. CASE Reader /\ ReadMoves
  <2>1. UNCHANGED <<status, walking, writeHunk, main>>
    BY <1>8 DEF ReadMoves
  <2>2. reads = 0 => reads' = 0
    BY <1>8 DEF Reader, BeginRead, ReadData, ReadFails, ClaimHunk, StoreItem, HashData, AdvanceRead,
       shared, Shape, Reads
  <2>. QED  BY <1>1, <2>1, <2>2 DEF Turns, Slot
<1>9. ASSUME NEW j \in Jobs, JobMoves(j) PROVE Turns'
  BY <1>1, <1>9 DEF JobMoves, Still, Turns, Slot
<1>10. ASSUME NEW j \in Jobs, MarkComplete(j) PROVE Turns'
  <2>1. UNCHANGED <<walking, writeHunk, main, reads>>
        /\ status' = [status EXCEPT ![Slot(j.hunk)] = "complete"]
    BY <1>10 DEF MarkComplete, WorkUnchanged, shared, mapVars
  <2>2. Slot(writeHunk) \in Slots
    BY <1>1, SlotType
  <2>. QED  BY <1>1, <2>1, <2>2 DEF Turns, Slot
<1>. QED  BY <1>2, <1>3, <1>4, <1>5, <1>6, <1>7, <1>8, <1>9, <1>10, Moves, ReaderMoves

\* The statuses and the jobs when neither what is written nor what is claimed moves.
LEMMA RingKept ==
  ASSUME Shape,
         UNCHANGED <<walking, queueOffset, writeHunk, status, hunknum>>, Claimed' = Claimed,
         \A j \in Jobs : work'[j] \in Busy => work[j] \in Busy
  PROVE  Ringed' /\ Working'
<1>1. Ringed'
  <2>1. Ringed
    BY DEF Shape
  <2>. QED  BY <2>1 DEF Ringed, Slot
<1>2. Working'
  <2>1. Working
    BY DEF Shape
  <2>. QED  BY <2>1 DEF Working, Slot
<1>. QED  BY <1>1, <1>2

\* A read begins at the start of a half.
LEMMA ReadAligned ==
  ASSUME Shape, reader # "idle" PROVE Aligned(doneOffset)
<1>1. /\ queueOffset \in Nat /\ doneOffset \in Nat /\ reads \in 0..2 /\ reads # 0
      /\ (reads = 1 => queueOffset = doneOffset + Half)
      /\ (reads = 2 => queueOffset = doneOffset + Half + Half) /\ Aligned(queueOffset)
  BY Numbers DEF Shape, Reads, Offsets
<1>2. CASE reads = 1
  BY <1>1, <1>2, AlignedMinus
<1>3. CASE reads = 2
  <2> DEFINE m == doneOffset + Half
  <2>1. m \in Nat /\ Aligned(m + Half)
    BY <1>1, <1>3, RingFacts
  <2>. HIDE DEF m
  <2>2. Aligned(m)
    BY <2>1, AlignedMinus
  <2>. QED  BY <1>1, <2>2, AlignedMinus DEF m
<1>. QED  BY <1>1, <1>2, <1>3

\* Two hunks between the one to write and those to read have different slots.
LEMMA OwnSlots ==
  ASSUME Shape, NEW a \in Nat, NEW b \in Nat, a # b,
         writeHunk <= a, a < queueOffset, writeHunk <= b, b < queueOffset
  PROVE  Slot(a) # Slot(b)
<1>1. queueOffset \in Nat /\ writeHunk \in Nat /\ Ring \in Nat /\ queueOffset <= writeHunk + Ring
  BY RingFacts, Numbers DEF Shape, Offsets
<1>. QED  BY <1>1, SlotOwn

\* The statuses and the jobs, when a half is queued, ...
LEMMA RingQueued ==
  ASSUME Shape, QueueHalf PROVE Ringed' /\ Working'
<1>1. /\ queueOffset \in Nat /\ writeHunk \in Nat /\ Claimed \in Nat /\ Claimed <= queueOffset
      /\ Half \in Nat \ {0} /\ Ring = Half + Half /\ queueOffset + Half <= writeHunk + Ring
      /\ status \in [Slots -> {"ready", "reading", "queued", "complete"}]
  BY RingFacts, Numbers, RoomIsRoom DEF QueueHalf, Shape, Types, TypeOK, Offsets
<1>2. /\ queueOffset' = queueOffset + Half /\ Claimed' = Claimed
      /\ UNCHANGED <<writeHunk, walking, hunknum, work>>
  BY <1>1 DEF QueueHalf, QueueRead, Claimed, mapVars, readVars
<1>3. /\ \A k \in 0..(Half - 1) : status[Slot(queueOffset + k)] = "ready"
      /\ status' = [s \in Slots |-> IF \E k \in 0..(Half - 1) : s = Slot(queueOffset + k)
                                    THEN "reading" ELSE status[s]]
  BY DEF QueueHalf, QueueRead, RoomToRead
<1>4. Ringed /\ Working
  BY DEF Shape
<1>5. ASSUME NEW s \in Slots, status[s] # "ready" PROVE status'[s] = status[s]
  BY <1>3, <1>5
<1>6. ASSUME NEW h \in Nat, writeHunk <= h, h < Claimed
      PROVE  status'[Slot(h)] \in {"queued", "complete"} /\ hunknum'[Slot(h)] = h
  <2>1. status[Slot(h)] \in {"queued", "complete"} /\ hunknum[Slot(h)] = h /\ Slot(h) \in Slots
    BY <1>4, <1>6, SlotType DEF Ringed
  <2>. QED  BY <1>2, <1>5, <2>1
<1>7. ASSUME NEW h \in Nat, Claimed <= h, h < queueOffset + Half PROVE status'[Slot(h)] = "reading"
  <2>1. Slot(h) \in Slots
    BY SlotType
  <2>2. CASE h < queueOffset
    <3>1. status[Slot(h)] = "reading"
      BY <1>4, <1>7, <2>2 DEF Ringed
    <3>. QED  BY <1>5, <2>1, <3>1
  <2>3. CASE queueOffset <= h
    <3>1. h - queueOffset \in 0..(Half - 1) /\ h = queueOffset + (h - queueOffset)
      BY <1>1, <1>7, <2>3
    <3>. QED  BY <1>3, <2>1, <3>1
  <2>. QED  BY <1>1, <2>2, <2>3
<1>8. ASSUME NEW s \in Slots, status'[s] \in {"queued", "complete"}
      PROVE  writeHunk <= hunknum[s] /\ hunknum[s] < Claimed /\ Slot(hunknum[s]) = s
  <2>1. status[s] = status'[s]
    BY <1>3, <1>8
  <2>. QED  BY <1>4, <1>8, <2>1 DEF Ringed
<1>9. Ringed'
  BY <1>2, <1>6, <1>7, <1>8 DEF Ringed, Slot, Slots
<1>10. ASSUME NEW j \in Jobs, work[j] \in Busy PROVE status'[Slot(j.hunk)] = "queued"
  <2>1. status[Slot(j.hunk)] = "queued" /\ Slot(j.hunk) \in Slots
    BY <1>4, <1>10, RingFacts, SlotType, SMTT(30) DEF Working, Jobs, Hunks
  <2>. QED  BY <1>5, <2>1
<1>11. Working'
  BY <1>2, <1>4, <1>10 DEF Working, Slot
<1>. QED  BY <1>9, <1>11

\* ... when a hunk is written, ...
LEMMA RingWritten ==
  ASSUME Shape, WriteNext PROVE Ringed' /\ Working'
<1>1. /\ queueOffset \in Nat /\ writeHunk \in Nat /\ Claimed \in Nat /\ Claimed <= queueOffset
      /\ status \in [Slots -> {"ready", "reading", "queued", "complete"}]
      /\ hunknum \in [Slots -> Hunks] /\ Hunks \subseteq Nat
  BY RingFacts, Numbers DEF Shape, Types, TypeOK, Offsets, Hunks
<1>2. writeHunk < Claimed /\ Slot(writeHunk) \in Slots /\ main = "write"
  BY WriteClaimed DEF WriteNext, WriteHunk, WriteLast
<1>3. /\ writeHunk' = writeHunk + 1 /\ Claimed' = Claimed
      /\ status' = [status EXCEPT ![Slot(writeHunk)] = "ready"]
      /\ UNCHANGED <<queueOffset, walking, hunknum, work>>
  BY DEF WriteNext, WriteHunk, WriteLast, shared, readVars, Claimed
<1>4. Ringed /\ Working /\ status[Slot(writeHunk)] = "complete"
  BY <1>2 DEF Shape, Turns
<1>5. ASSUME NEW h \in Nat, writeHunk < h, h < queueOffset PROVE status'[Slot(h)] = status[Slot(h)]
  <2>1. Slot(h) # Slot(writeHunk) /\ Slot(h) \in Slots
    BY <1>1, <1>2, <1>5, OwnSlots, SlotType
  <2>. QED  BY <1>1, <1>3, <2>1
<1>6. ASSUME NEW h \in Nat, writeHunk + 1 <= h, h < Claimed
      PROVE  status'[Slot(h)] \in {"queued", "complete"} /\ hunknum[Slot(h)] = h
  <2>1. status[Slot(h)] \in {"queued", "complete"} /\ hunknum[Slot(h)] = h
    BY <1>1, <1>4, <1>6 DEF Ringed
  <2>. QED  BY <1>1, <1>5, <1>6, <2>1
<1>7. ASSUME NEW h \in Nat, Claimed <= h, h < queueOffset PROVE status'[Slot(h)] = "reading"
  <2>1. status[Slot(h)] = "reading"
    BY <1>1, <1>4, <1>7 DEF Ringed
  <2>. QED  BY <1>1, <1>2, <1>5, <1>7, <2>1
<1>8. ASSUME NEW s \in Slots, status'[s] \in {"queued", "complete"}
      PROVE  writeHunk + 1 <= hunknum[s] /\ hunknum[s] < Claimed /\ Slot(hunknum[s]) = s
  <2>1. s # Slot(writeHunk) /\ status[s] = status'[s]
    BY <1>1, <1>3, <1>8
  <2>2. writeHunk <= hunknum[s] /\ hunknum[s] < Claimed /\ Slot(hunknum[s]) = s
    BY <1>4, <1>8, <2>1 DEF Ringed
  <2>3. hunknum[s] # writeHunk /\ hunknum[s] \in Nat
    BY <1>1, <2>1, <2>2
  <2>. QED  BY <1>1, <2>2, <2>3
<1>9. Ringed'
  BY <1>3, <1>6, <1>7, <1>8 DEF Ringed, Slot, Slots
<1>10. ASSUME NEW j \in Jobs, work[j] \in Busy
       PROVE  writeHunk + 1 <= j.hunk /\ status'[Slot(j.hunk)] = "queued"
  <2>1. /\ writeHunk <= j.hunk /\ j.hunk < Claimed /\ status[Slot(j.hunk)] = "queued" /\ j.hunk \in Nat
    BY <1>1, <1>4, <1>10 DEF Working, Jobs
  <2>2. j.hunk # writeHunk
    BY <1>4, <2>1
  <2>. QED  BY <1>1, <1>5, <2>1, <2>2
<1>11. Working'
  BY <1>3, <1>4, <1>10 DEF Working, Slot
<1>. QED  BY <1>9, <1>11

\* ... when the run over the parent ends, ...
LEMMA RingReset ==
  ASSUME Shape, Idle, EndWalk PROVE Ringed' /\ Working' /\ \A j \in Jobs : work[j] \notin Busy
<1>1. /\ writeHunk \in Nat /\ Claimed \in Nat /\ Claimed <= HunkCount /\ HunkCount \in Nat
      /\ Claimed <= Loaded /\ Loaded <= HunkCount /\ Loaded \in Nat /\ writeHunk < Claimed
  BY RingFacts, Numbers, WriteClaimed DEF Shape, Offsets, EndWalk
<1>2. reads = 0 /\ reader = "idle"
  BY DEF EndWalk, Shape, Reads, Idle
<1>3. /\ queueOffset' = 0 /\ writeHunk' = 0 /\ Claimed' = 0 /\ writeHunk + 1 = HunkCount
      /\ status' = [t \in Slots |-> "ready"] /\ UNCHANGED work
  BY <1>2 DEF EndWalk, readVars, Claimed
<1>4. status[Slot(writeHunk)] = "complete" /\ Working
  BY DEF Shape, Turns, EndWalk
<1>5. Ringed'
  BY <1>3 DEF Ringed, Slots
<1>6. ASSUME NEW j \in Jobs, work[j] \in Busy PROVE FALSE
  <2>1. /\ writeHunk <= j.hunk /\ j.hunk < Claimed /\ status[Slot(j.hunk)] = "queued" /\ j.hunk \in Nat
    BY <1>4, <1>6, RingFacts DEF Working, Jobs, Hunks
  <2>2. j.hunk = writeHunk
    BY <1>1, <1>3, <2>1
  <2>. QED  BY <1>4, <2>1, <2>2
<1>7. Working'
  BY <1>3, <1>6 DEF Working
<1>. QED  BY <1>5, <1>6, <1>7

\* ... when a hunk is handed on, ...
LEMMA RingClaimed ==
  ASSUME Shape, ClaimHunk PROVE Ringed' /\ Working'
<1>1. /\ queueOffset \in Nat /\ writeHunk \in Nat /\ cur \in Nat /\ end \in Nat /\ HunkCount \in Nat
      /\ status \in [Slots -> {"ready", "reading", "queued", "complete"}]
      /\ hunknum \in [Slots -> Hunks] /\ Hunks \subseteq Nat /\ work \in [Jobs -> Pipeline]
  BY RingFacts, Numbers DEF Shape, Types, TypeOK, Hunks
<1>2. /\ cur < end /\ status[Slot(cur)] = "reading" /\ Claimed = cur /\ Claimed' = cur + 1
      /\ status' = [status EXCEPT ![Slot(cur)] = "queued"]
      /\ hunknum' = [hunknum EXCEPT ![Slot(cur)] = cur]
      /\ work' = [work EXCEPT ![[walk |-> walking, hunk |-> cur]] = "listed"]
      /\ UNCHANGED <<queueOffset, walking, writeHunk>>
  BY DEF ClaimHunk, shared, mapVars, Claimed
<1>3. Slot(cur) \in Slots /\ writeHunk <= cur /\ end <= queueOffset /\ end <= HunkCount
  BY <1>1, <1>2, SlotType DEF ClaimHunk, Shape, Offsets, Loaded, Loading
<1>4. Ringed /\ Working
  BY DEF Shape
<1>5. ASSUME NEW h \in Nat, writeHunk <= h, h < queueOffset, h # cur
      PROVE  status'[Slot(h)] = status[Slot(h)] /\ hunknum'[Slot(h)] = hunknum[Slot(h)]
  <2>1. Slot(h) # Slot(cur) /\ Slot(h) \in Slots
    BY <1>1, <1>2, <1>3, <1>5, OwnSlots, SlotType
  <2>. QED  BY <1>1, <1>2, <2>1
<1>6. status'[Slot(cur)] = "queued" /\ hunknum'[Slot(cur)] = cur
  BY <1>1, <1>2, <1>3
<1>7. ASSUME NEW h \in Nat, writeHunk <= h, h < cur + 1
      PROVE  status'[Slot(h)] \in {"queued", "complete"} /\ hunknum'[Slot(h)] = h
  <2>1. CASE h = cur
    BY <1>6, <2>1
  <2>2. CASE h < cur
    <3>1. status[Slot(h)] \in {"queued", "complete"} /\ hunknum[Slot(h)] = h
      BY <1>2, <1>4, <1>7, <2>2 DEF Ringed
    <3>. QED  BY <1>1, <1>2, <1>3, <1>5, <1>7, <2>2, <3>1
  <2>. QED  BY <1>1, <1>7, <2>1, <2>2
<1>8. ASSUME NEW h \in Nat, cur + 1 <= h, h < queueOffset PROVE status'[Slot(h)] = "reading"
  <2>1. status[Slot(h)] = "reading"
    BY <1>1, <1>2, <1>4, <1>8 DEF Ringed
  <2>. QED  BY <1>1, <1>3, <1>5, <1>8, <2>1
<1>9. ASSUME NEW s \in Slots, status'[s] \in {"queued", "complete"}
      PROVE  writeHunk <= hunknum'[s] /\ hunknum'[s] < cur + 1 /\ Slot(hunknum'[s]) = s
  <2>1. CASE s = Slot(cur)
    BY <1>1, <1>3, <1>6, <2>1
  <2>2. CASE s # Slot(cur)
    <3>1. status'[s] = status[s] /\ hunknum'[s] = hunknum[s] /\ hunknum[s] \in Nat
      BY <1>1, <1>2, <2>2
    <3>2. writeHunk <= hunknum[s] /\ hunknum[s] < cur /\ Slot(hunknum[s]) = s
      BY <1>2, <1>4, <1>9, <3>1 DEF Ringed
    <3>. QED  BY <1>1, <3>1, <3>2
  <2>. QED  BY <2>1, <2>2
<1>10. Ringed'
  BY <1>2, <1>7, <1>8, <1>9 DEF Ringed, Slot, Slots
<1>11. ASSUME NEW j \in Jobs, work'[j] \in Busy
       PROVE  /\ j.walk = walking /\ writeHunk <= j.hunk /\ j.hunk < cur + 1
              /\ status'[Slot(j.hunk)] = "queued"
  <2>1. CASE j = [walk |-> walking, hunk |-> cur]
    BY <1>1, <1>3, <1>6, <2>1
  <2>2. CASE j # [walk |-> walking, hunk |-> cur]
    <3>1. work[j] \in Busy
      BY <1>1, <1>2, <1>11, <2>2
    <3>2. /\ j.walk = walking /\ writeHunk <= j.hunk /\ j.hunk < cur /\ j.hunk \in Nat
          /\ status[Slot(j.hunk)] = "queued"
      BY <1>1, <1>2, <1>4, <3>1 DEF Working, Jobs
    <3>. QED  BY <1>1, <1>2, <1>3, <1>5, <3>2
  <2>. QED  BY <2>1, <2>2
<1>12. Working'
  BY <1>2, <1>11 DEF Working, Slot
<1>. QED  BY <1>10, <1>12

\* ... and when one is finished.
LEMMA RingCompleted ==
  ASSUME Shape, NEW j \in Jobs, MarkComplete(j) PROVE Ringed' /\ Working'
<1>1. /\ queueOffset \in Nat /\ writeHunk \in Nat /\ Claimed \in Nat /\ Claimed <= queueOffset
      /\ status \in [Slots -> {"ready", "reading", "queued", "complete"}]
      /\ Hunks \subseteq Nat /\ work \in [Jobs -> Pipeline]
  BY RingFacts, Numbers DEF Shape, Types, TypeOK, Offsets, Hunks
<1>2. /\ work[j] = "complete" /\ work' = [work EXCEPT ![j] = "return"]
      /\ status' = [status EXCEPT ![Slot(j.hunk)] = "complete"]
      /\ UNCHANGED <<queueOffset, walking, writeHunk, hunknum>> /\ Claimed' = Claimed
  BY DEF MarkComplete, Advance, WorkUnchanged, shared, mapVars, readVars, Claimed
<1>3. Ringed /\ Working
  BY DEF Shape
<1>4. /\ j.walk = walking /\ writeHunk <= j.hunk /\ j.hunk < Claimed /\ j.hunk \in Nat
      /\ status[Slot(j.hunk)] = "queued"
  BY <1>1, <1>2, <1>3 DEF Working, Jobs, Busy
<1>5. ASSUME NEW s \in Slots
      PROVE  /\ status'[s] \in {"queued", "complete"} <=> status[s] \in {"queued", "complete"}
             /\ status[s] = "reading" => status'[s] = "reading"
  <2>1. CASE s = Slot(j.hunk)
    BY <1>1, <1>2, <1>4, <2>1
  <2>2. CASE s # Slot(j.hunk)
    BY <1>1, <1>2, <2>2
  <2>. QED  BY <2>1, <2>2
<1>6. Ringed'
  <2>1. ASSUME NEW h \in Nat PROVE Slot(h) \in Slots
    BY SlotType
  <2>2. ASSUME NEW h \in Nat, writeHunk <= h, h < Claimed
        PROVE  status'[Slot(h)] \in {"queued", "complete"} /\ hunknum[Slot(h)] = h
    BY <1>3, <1>5, <2>1, <2>2 DEF Ringed
  <2>3. ASSUME NEW h \in Nat, Claimed <= h, h < queueOffset PROVE status'[Slot(h)] = "reading"
    BY <1>3, <1>5, <2>1, <2>3 DEF Ringed
  <2>4. ASSUME NEW s \in Slots, status'[s] \in {"queued", "complete"}
        PROVE  writeHunk <= hunknum[s] /\ hunknum[s] < Claimed /\ Slot(hunknum[s]) = s
    BY <1>3, <1>5, <2>4 DEF Ringed
  <2>. QED  BY <1>2, <2>2, <2>3, <2>4 DEF Ringed, Slot, Slots
<1>7. ASSUME NEW k \in Jobs, work'[k] \in Busy
      PROVE  /\ k.walk = walking /\ writeHunk <= k.hunk /\ k.hunk < Claimed
             /\ status'[Slot(k.hunk)] = "queued"
  <2>1. k # j /\ work[k] \in Busy
    BY <1>1, <1>2, <1>7 DEF Busy
  <2>2. /\ k.walk = walking /\ writeHunk <= k.hunk /\ k.hunk < Claimed /\ k.hunk \in Nat
        /\ status[Slot(k.hunk)] = "queued"
    BY <1>1, <1>3, <2>1 DEF Working, Jobs
  <2>3. k.hunk # j.hunk
    BY <1>4, <2>1, <2>2 DEF Jobs
  <2>4. Slot(k.hunk) # Slot(j.hunk) /\ Slot(k.hunk) \in Slots
    BY <1>1, <1>4, <2>2, <2>3, OwnSlots, SlotType
  <2>. QED  BY <1>1, <1>2, <2>2, <2>4
<1>8. Working'
  BY <1>2, <1>7 DEF Working, Slot
<1>. QED  BY <1>6, <1>8

\* The shape of the ring is kept, whatever the data.
LEMMA ShapeStays ==
  ASSUME Shape, Idle, Next PROVE Shape'
<1>1. Types' /\ Offsets' /\ Reads' /\ Turns'
  BY TypesStay, OffsetsStay, TurnsStay
<1>2. CASE MainMoves \/ Ended
  <2>1. UNCHANGED <<walking, queueOffset, writeHunk, status, hunknum, work>> /\ Claimed' = Claimed
    BY <1>2 DEF MainMoves, Still, Ended, vars, shared, slotVars, mapVars, readVars, Claimed
  <2>. QED  BY <1>1, <2>1, RingKept DEF Shape
<1>3. CASE QueueHalf \/ WriteNext \/ EndWalk \/ ClaimHunk
  BY <1>1, <1>3, RingQueued, RingWritten, RingReset, RingClaimed DEF Shape
<1>4. CASE ReadMoves
  <2>1. UNCHANGED <<walking, queueOffset, writeHunk, status, hunknum, work>> /\ Claimed' = Claimed
    BY <1>4 DEF ReadMoves
  <2>. QED  BY <1>1, <2>1, RingKept DEF Shape
<1>5. ASSUME NEW j \in Jobs, JobMoves(j) PROVE Shape'
  <2>1. UNCHANGED <<walking, queueOffset, writeHunk, status, hunknum>> /\ Claimed' = Claimed
    BY <1>5 DEF JobMoves, Still, Claimed
  <2>2. work \in [Jobs -> Pipeline]
    BY DEF Shape, Types, TypeOK
  <2>3. ASSUME NEW k \in Jobs, work'[k] \in Busy PROVE work[k] \in Busy
    BY <1>5, <2>2, <2>3 DEF JobMoves
  <2>. QED  BY <1>1, <2>1, <2>3, RingKept DEF Shape
<1>6. ASSUME NEW j \in Jobs, MarkComplete(j) PROVE Shape'
  BY <1>1, <1>6, RingCompleted DEF Shape
<1>. QED  BY <1>2, <1>3, <1>4, <1>5, <1>6, Moves, ReaderMoves

-----------------------------------------------------------------------------
(* The data. *)

\* A step that leaves the buffer and what is loaded of the file alone.
LEMMA DataKept ==
  ASSUME Kept, UNCHANGED <<setup, walking, buffer>>, Loaded' = Loaded,
         writeHunk \in Nat, writeHunk' \in Nat, writeHunk <= writeHunk'
  PROVE  Kept'
<1>1. Parent' = Parent
  BY DEF Parent
<1>. QED  BY <1>1 DEF Kept, Slot

\* What a read puts into the ring, and where.
LEMMA FilledRight ==
  ASSUME Shape, ReadData
  PROVE  /\ \A k \in 0..Half : k < num /\ ~walking => buffer'[Slot(doneOffset) + k] = Child[doneOffset + k]
         /\ \A k \in 0..Half : k <= num /\ walking /\ doneOffset + k \in DOMAIN Parent =>
              buffer'[Slot(doneOffset) + k] = Parent[doneOffset + k]
         /\ \A s \in 0..Ring : s < Slot(doneOffset) \/ s > Slot(doneOffset) + num => buffer'[s] = buffer[s]
         /\ ~walking => buffer'[Slot(doneOffset) + num] = buffer[Slot(doneOffset) + num]
<1> DEFINE first == Slot(doneOffset)
<1>1. /\ doneOffset \in Nat /\ num \in 0..Half /\ first \in {0, Half} /\ Half \in Nat \ {0}
      /\ Ring = Half + Half
  <2>1. Aligned(doneOffset)
    BY ReadAligned DEF ReadData
  <2>. QED  BY <2>1, Numbers, RingFacts, SlotsOfHalf DEF Shape
<1>2. num <= HunkCount - doneOffset
  BY <1>1, RingFacts DEF Shape, Reads, ReadData
<1>3. buffer' = Filled
  BY DEF ReadData
<1>. HIDE DEF first
<1>4. ASSUME NEW k \in 0..Half, k < num, ~walking PROVE buffer'[first + k] = Child[doneOffset + k]
  <2>1. first + k \in 0..Ring /\ first + k \in first..(first + num + 0 - 1) /\ doneOffset + k \in DOMAIN Child
    BY <1>1, <1>2, <1>4, RingFacts
  <2>2. doneOffset + ((first + k) - first) = doneOffset + k
    BY <1>1
  <2>. QED  BY <1>3, <1>4, <2>1, <2>2 DEF Filled, Holding, first
<1>5. ASSUME NEW k \in 0..Half, k <= num, walking, doneOffset + k \in DOMAIN Parent
      PROVE  buffer'[first + k] = Parent[doneOffset + k]
  <2>1. first + k \in 0..Ring /\ first + k \in first..(first + num + 1 - 1)
    BY <1>1, <1>5, RingFacts
  <2>2. doneOffset + ((first + k) - first) = doneOffset + k
    BY <1>1
  <2>. QED  BY <1>3, <1>5, <2>1, <2>2 DEF Filled, Holding, first
<1>6. ASSUME NEW s \in 0..Ring, s < first \/ s > first + num PROVE buffer'[s] = buffer[s]
  <2>1. s \notin first..(first + num + 0 - 1) /\ s \notin first..(first + num + 1 - 1)
    BY <1>1, <1>6
  <2>. QED  BY <1>3, <2>1 DEF Filled, first
<1>7. ASSUME ~walking PROVE buffer'[first + num] = buffer[first + num]
  <2>1. first + num \notin first..(first + num + 0 - 1) /\ first + num \in 0..Ring
    BY <1>1
  <2>. QED  BY <1>3, <1>7, <2>1 DEF Filled, first
<1>. QED  BY <1>4, <1>5, <1>6, <1>7 DEF first

\* A read does not touch hunks that are still to be written, and brings its own.
LEMMA DataRead ==
  ASSUME Shape, Kept, ReadData PROVE Kept'
<1> DEFINE first == Slot(doneOffset)
<1>1. /\ doneOffset \in Nat /\ num \in 0..Half /\ Half \in Nat \ {0} /\ Ring = Half + Half
      /\ writeHunk \in Nat /\ queueOffset \in Nat /\ walking \in BOOLEAN /\ Aligned(doneOffset)
  BY Numbers, RingFacts, ReadAligned DEF Shape, ReadData
<1>2. /\ first \in {0, Half} /\ first \in Nat
      /\ \A k \in 0..(Half - 1) : Slot(doneOffset + k) = first + k
      /\ \A k \in 0..Half : first + k = Slot(doneOffset + k) \/ first + k = Ring
  BY <1>1, SlotsOfHalf, SlotsOfRead
<1>3. /\ doneOffset + num <= queueOffset /\ queueOffset <= writeHunk + Ring
      /\ walking => queueOffset < writeHunk + Ring
      /\ walking => doneOffset + Half <= queueOffset
  BY <1>1, Numbers DEF Shape, Reads, Offsets, ReadData
<1>4. Loaded = doneOffset /\ Loaded' = doneOffset + num
      /\ UNCHANGED <<writeHunk, walking, setup>> /\ Parent' = Parent
  BY DEF ReadData, shared, mapVars, Loaded, Loading, Shape, Reads, Parent
<1>5. /\ \A k \in 0..Half : k < num /\ ~walking => buffer'[first + k] = Child[doneOffset + k]
      /\ \A k \in 0..Half : k <= num /\ walking /\ doneOffset + k \in DOMAIN Parent =>
           buffer'[first + k] = Parent[doneOffset + k]
      /\ \A s \in 0..Ring : s < first \/ s > first + num => buffer'[s] = buffer[s]
      /\ ~walking => buffer'[first + num] = buffer[first + num]
  BY FilledRight
<1>. HIDE DEF first
<1>6. ASSUME NEW h \in Nat, writeHunk <= h, h < doneOffset PROVE buffer'[Slot(h)] = buffer[Slot(h)]
  <2>1. Slot(h) \in 0..(Ring - 1)
    BY SlotType
  <2>2. CASE Slot(h) < first \/ Slot(h) > first + num
    <3>1. Slot(h) \in 0..Ring
      BY <1>1, <2>1
    <3>. QED  BY <1>5, <2>2, <3>1
  <2>3. CASE first <= Slot(h) /\ Slot(h) <= first + num
    <3> DEFINE k == Slot(h) - first
    <3>1. k \in 0..Half /\ k <= num /\ Slot(h) = first + k
      BY <1>1, <1>2, <2>1, <2>3
    <3>. HIDE DEF k
    <3>2. Slot(doneOffset + k) = Slot(h)
      <4>1. first + k # Ring
        BY <1>1, <2>1, <3>1
      <4>. QED  BY <1>2, <3>1, <4>1
    <3>3. CASE k < num \/ walking
      <4> DEFINE b == doneOffset + k
      <4>1. b \in Nat /\ h # b /\ h < b + Ring /\ b < h + Ring
        BY <1>1, <1>3, <1>6, <3>1, <3>3
      <4>. HIDE DEF b
      <4>2. Slot(h) # Slot(b)
        BY <4>1, SlotOwn
      <4>. QED  BY <3>2, <4>2 DEF b
    <3>4. CASE k = num /\ ~walking
      BY <1>5, <3>1, <3>4
    <3>. QED  BY <1>1, <3>1, <3>3, <3>4
  <2>. QED  BY <1>1, <1>2, <2>1, <2>2, <2>3
<1>7. ASSUME NEW h \in Nat, writeHunk <= h, h < doneOffset, walking, h + 1 \in DOMAIN Parent
      PROVE  buffer'[Slot(h) + 1] = Parent[h + 1]
  <2>1. Slot(h) \in 0..(Ring - 1) /\ (Slot(h) + 1 = Ring \/ Slot(h) + 1 = Slot(h + 1))
    BY SlotType, SlotNext
  <2>2. buffer[Slot(h) + 1] = Parent[h + 1]
    BY <1>4, <1>7 DEF Kept
  <2>3. CASE Slot(h) + 1 = Slot(h + 1) /\ h + 1 < doneOffset
    <3> DEFINE b == h + 1
    <3>1. b \in Nat /\ writeHunk <= b /\ b < doneOffset
      BY <1>1, <1>7, <2>3
    <3>. HIDE DEF b
    <3>2. buffer'[Slot(b)] = buffer[Slot(b)]
      BY <1>6, <3>1
    <3>. QED  BY <2>2, <2>3, <3>2 DEF b
  <2>4. CASE Slot(h) + 1 = Slot(h + 1) /\ h + 1 = doneOffset
    <3>1. Slot(h) + 1 = first + 0 /\ 0 \in 0..Half /\ 0 <= num /\ doneOffset + 0 = h + 1
      BY <1>1, <1>2, <2>4 DEF first
    <3>. QED  BY <1>5, <1>7, <3>1
  <2>5. CASE Slot(h) + 1 = Ring
    <3>1. CASE Ring > first + num
      <4>1. Ring \in 0..Ring
        BY <1>1
      <4>. QED  BY <1>5, <2>2, <2>5, <3>1, <4>1
    <3>2. CASE Ring <= first + num
      <4>1. first = Half /\ num = Half /\ Half - 1 \in 0..(Half - 1)
        BY <1>1, <1>2, <3>2
      <4> DEFINE b == doneOffset + (Half - 1)
      <4>2. Slot(b) = Slot(h)
        <5>1. Slot(b) = first + (Half - 1)
          BY <1>2, <4>1
        <5>. QED  BY <1>1, <2>1, <2>5, <4>1, <5>1
      <4>3. b \in Nat /\ h # b /\ h < b + Ring /\ b < h + Ring
        BY <1>1, <1>3, <1>7
      <4>. HIDE DEF b
      <4>. QED  BY <4>2, <4>3, SlotOwn
    <3>. QED  BY <1>1, <1>2, <3>1, <3>2
  <2>. QED  BY <1>1, <1>7, <2>1, <2>3, <2>4, <2>5
<1>8. ASSUME NEW h \in Nat, doneOffset <= h, h < doneOffset + num
      PROVE  /\ ~walking => buffer'[Slot(h)] = Child[h]
             /\ walking /\ h \in DOMAIN Parent => buffer'[Slot(h)] = Parent[h]
             /\ walking /\ h + 1 \in DOMAIN Parent => buffer'[Slot(h) + 1] = Parent[h + 1]
  <2> DEFINE k == h - doneOffset
  <2>1. k \in 0..(Half - 1) /\ k \in 0..Half /\ k < num /\ k <= num /\ doneOffset + k = h
    BY <1>1, <1>8
  <2>2. k + 1 \in 0..Half /\ k + 1 <= num /\ doneOffset + (k + 1) = h + 1
    BY <1>1, <1>8
  <2>. HIDE DEF k
  <2>3. Slot(h) = first + k /\ Slot(h) + 1 = first + (k + 1)
    <3>1. Slot(doneOffset + k) = first + k
      BY <1>2, <2>1
    <3>. QED  BY <1>2, <2>1, <3>1
  <2>4. ~walking => buffer'[first + k] = Child[doneOffset + k]
    BY <1>5, <2>1
  <2>5. walking /\ doneOffset + k \in DOMAIN Parent => buffer'[first + k] = Parent[doneOffset + k]
    BY <1>5, <2>1
  <2>6. walking /\ doneOffset + (k + 1) \in DOMAIN Parent =>
          buffer'[first + (k + 1)] = Parent[doneOffset + (k + 1)]
    <3> DEFINE i == k + 1
    <3>1. i \in 0..Half /\ i <= num
      BY <2>2
    <3>. HIDE DEF i
    <3>2. walking /\ doneOffset + i \in DOMAIN Parent => buffer'[first + i] = Parent[doneOffset + i]
      BY <1>5, <3>1
    <3>. QED  BY <3>2 DEF i
  <2>. QED  BY <2>1, <2>2, <2>3, <2>4, <2>5, <2>6
<1>9. ASSUME NEW h \in Nat, writeHunk <= h, h < doneOffset + num
      PROVE  /\ ~walking => buffer'[Slot(h)] = Child[h]
             /\ walking /\ h \in DOMAIN Parent => buffer'[Slot(h)] = Parent[h]
             /\ walking /\ h + 1 \in DOMAIN Parent => buffer'[Slot(h) + 1] = Parent[h + 1]
  <2>1. CASE h < doneOffset
    <3>1. /\ ~walking => buffer[Slot(h)] = Child[h]
          /\ walking /\ h \in DOMAIN Parent => buffer[Slot(h)] = Parent[h]
      BY <1>4, <1>9, <2>1 DEF Kept
    <3>. QED  BY <1>6, <1>7, <1>9, <2>1, <3>1
  <2>2. CASE doneOffset <= h
    BY <1>8, <1>9, <2>2
  <2>. QED  BY <1>1, <2>1, <2>2
<1>. QED  BY <1>4, <1>9 DEF Kept, Slot

\* At the end of the run over the parent the reader has nothing to do.
LEMMA WalkEndsIdle ==
  ASSUME Shape, Idle, EndWalk
  PROVE  /\ reader = "idle" /\ walking /\ walking' = FALSE
         /\ Claimed' = 0 /\ Loaded' = 0 /\ doneOffset' = 0 /\ reader' = "idle"
         /\ UNCHANGED <<setup, sha, buffer>>
BY DEF EndWalk, Shape, Reads, Idle, readVars, Claimed, Loaded, Loading

\* Most steps only read the ring.
LEMMA Untouched ==
  ASSUME Shape, Next, ~ReadData, ~EndWalk
  PROVE  /\ UNCHANGED <<walking, buffer, setup>> /\ Loaded' = Loaded
         /\ writeHunk' \in Nat /\ writeHunk <= writeHunk'
<1>1. /\ writeHunk \in Nat /\ doneOffset \in Nat /\ end \in Nat /\ num \in Nat
      /\ reader # "idle" => end = doneOffset + num
  BY Numbers DEF Shape, Reads
<1>2. CASE MainMoves \/ Ended
  BY <1>1, <1>2 DEF MainMoves, Still, Ended, vars, shared, slotVars, mapVars, readVars, Loaded, Loading
<1>3. CASE QueueHalf
  BY <1>1, <1>3 DEF QueueHalf, QueueRead, mapVars, readVars, Loaded, Loading
<1>4. CASE WriteNext
  BY <1>1, <1>4 DEF WriteNext, WriteHunk, WriteLast, shared, readVars, Loaded, Loading
<1>5. CASE Reader
  <2>1. UNCHANGED <<walking, buffer, setup, writeHunk>>
    BY <1>5 DEF Reader, BeginRead, ReadFails, ClaimHunk, StoreItem, HashData, AdvanceRead,
       shared, slotVars, mapVars
  <2>2. Loaded' = Loaded
    BY <1>1, <1>5 DEF Reader, BeginRead, ReadFails, ClaimHunk, StoreItem, HashData, AdvanceRead,
       shared, Loaded, Loading
  <2>. QED  BY <1>1, <2>1, <2>2
<1>6. ASSUME NEW j \in Jobs, JobMoves(j) \/ MarkComplete(j)
      PROVE  UNCHANGED <<walking, buffer, setup, writeHunk>> /\ Loaded' = Loaded
  BY <1>6 DEF JobMoves, Still, MarkComplete, WorkUnchanged, shared, mapVars, readVars, Loaded, Loading
<1>. QED  BY <1>1, <1>2, <1>3, <1>4, <1>5, <1>6, Moves

LEMMA KeptStays ==
  ASSUME Shape, Idle, Kept, Next PROVE Kept'
<1>1. CASE ReadData
  BY <1>1, DataRead
<1>2. CASE EndWalk
  <2>1. Loaded' = 0 /\ writeHunk' = 0
    BY <1>2, WalkEndsIdle DEF EndWalk
  <2>. QED  BY <2>1 DEF Kept
<1>3. CASE ~ReadData /\ ~EndWalk
  <2>1. writeHunk \in Nat
    BY Numbers DEF Shape
  <2>. QED  BY <1>3, <2>1, Untouched, DataKept
<1>. QED  BY <1>1, <1>2, <1>3

\* The half that is being handed on.
LEMMA HashingStays ==
  ASSUME Shape, Idle, Hashing, Next PROVE Hashing'
<1>1. CASE ReadData
  <2>1. \A k \in 0..Half : k < num /\ ~walking => buffer'[Slot(doneOffset) + k] = Child[doneOffset + k]
    BY <1>1, FilledRight
  <2>2. UNCHANGED <<doneOffset, num, walking>> /\ Half \in Nat
    BY <1>1, RingFacts DEF ReadData, shared
  <2>. QED  BY <2>1, <2>2 DEF Hashing, Slot
<1>2. CASE EndWalk
  BY <1>2, WalkEndsIdle DEF Hashing
<1>3. CASE ~ReadData /\ ~EndWalk
  <2>1. UNCHANGED <<walking, buffer>>
    BY <1>3, Untouched
  <2>2. reader' \in {"claim", "store"} => reader \in {"claim", "store"} /\ UNCHANGED <<doneOffset, num>>
    <3>1. CASE Reader
      BY <1>3, <3>1 DEF Reader, BeginRead, ReadFails, ClaimHunk, StoreItem, HashData, AdvanceRead, shared
    <3>2. CASE MainMoves \/ Ended \/ QueueHalf \/ WriteNext
      BY <3>2 DEF MainMoves, Still, Ended, vars, shared, readVars, QueueHalf, QueueRead,
         WriteNext, WriteHunk, WriteLast
    <3>3. ASSUME NEW j \in Jobs, JobMoves(j) \/ MarkComplete(j)
          PROVE  UNCHANGED <<reader, doneOffset, num>>
      BY <3>3 DEF JobMoves, Still, MarkComplete, WorkUnchanged, shared, readVars
    <3>. QED  BY <1>3, <3>1, <3>2, <3>3, Moves
  <2>. QED  BY <2>1, <2>2 DEF Hashing, Slot
<1>. QED  BY <1>1, <1>2, <1>3

\* The data of a half are the next ones of the file.
LEMMA Joined ==
  ASSUME NEW f, NEW m \in Nat, NEW n \in Nat
  PROVE  [k \in 1..m |-> f[k - 1]] \o [k \in 1..n |-> f[m + k - 1]] = [k \in 1..(m + n) |-> f[k - 1]]
<1> DEFINE S == {f[k] : k \in Int}
           a == [k \in 1..m |-> f[k - 1]]
           b == [k \in 1..n |-> f[m + k - 1]]
           c == [k \in 1..(m + n) |-> f[k - 1]]
<1>1. a \in Seq(S) /\ Len(a) = m
  OBVIOUS
<1>2. b \in Seq(S) /\ Len(b) = n
  OBVIOUS
<1>3. c \in Seq(S) /\ Len(c) = m + n
  OBVIOUS
<1>4. \A k \in 1..(m + n) : (a \o b)[k] = c[k]
  OBVIOUS
<1>5. a \o b \in Seq(S) /\ Len(a \o b) = m + n
  BY <1>1, <1>2, ConcatProperties
<1>. HIDE DEF a, b, c, S
<1>6. a \o b = c
  BY <1>3, <1>4, <1>5, SeqEqual
<1>. QED  BY <1>6 DEF a, b, c

LEMMA SummedStays ==
  ASSUME Shape, Idle, Hashing, Summed, Next PROVE Summed'
<1>0. Compressed' = Compressed
  BY SetupStays DEF Compressed
<1>1. /\ doneOffset \in Nat /\ end \in Nat /\ num \in 0..Half /\ num \in Nat
      /\ reader # "idle" => end = doneOffset + num
  BY Numbers DEF Shape, Reads
<1>2. CASE HashData /\ ~walking /\ Compressed
  <2>1. /\ reader = "claim" /\ reader' = "advance" /\ UNCHANGED <<end, walking>>
        /\ sha' = sha \o [k \in 1..num |-> buffer[Slot(end - num) + k - 1]]
    BY <1>2 DEF HashData
  <2>2. end - num = doneOffset /\ end = doneOffset + num
    BY <1>1, <2>1
  <2>3. ASSUME NEW k \in 1..num PROVE buffer[Slot(end - num) + k - 1] = Child[doneOffset + k - 1]
    <3>1. k - 1 \in 0..(Half - 1) /\ k - 1 < num /\ doneOffset + (k - 1) = doneOffset + k - 1
      BY <1>1, RingFacts
    <3>2. buffer[Slot(doneOffset) + (k - 1)] = Child[doneOffset + (k - 1)]
      BY <1>2, <2>1, <3>1 DEF Hashing
    <3>3. Slot(end - num) + k - 1 = Slot(doneOffset) + (k - 1)
      <4>1. Slot(doneOffset) \in Nat
        BY <1>1, SlotType, RingFacts
      <4>. QED  BY <2>2, <4>1
    <3>. QED  BY <3>1, <3>2, <3>3
  <2>4. [k \in 1..num |-> buffer[Slot(end - num) + k - 1]] = [k \in 1..num |-> Child[doneOffset + k - 1]]
    BY <2>3
  <2>5. sha = [k \in 1..doneOffset |-> Child[k - 1]]
    BY <1>2, <2>1 DEF Summed, Hashed
  <2>6. sha' = [k \in 1..end |-> Child[k - 1]]
    <3>1. [k \in 1..doneOffset |-> Child[k - 1]] \o [k \in 1..num |-> Child[doneOffset + k - 1]]
            = [k \in 1..(doneOffset + num) |-> Child[k - 1]]
      BY <1>1, Joined
    <3>. QED  BY <2>1, <2>2, <2>4, <2>5, <3>1
  <2>. QED  BY <1>0, <1>2, <2>1, <2>6 DEF Summed, Hashed
<1>3. CASE EndWalk
  <2>1. sha = <<>> /\ sha' = <<>> /\ walking' = FALSE /\ Hashed' = 0
    BY <1>3, WalkEndsIdle DEF Summed, Hashed
  <2>2. [k \in 1..0 |-> Child[k - 1]] = <<>>
    OBVIOUS
  <2>. QED  BY <1>0, <2>1, <2>2 DEF Summed
<1>4. CASE ~EndWalk /\ ~(HashData /\ ~walking /\ Compressed)
  <2>1. UNCHANGED walking
    BY <1>4, Untouched DEF ReadData, shared
  <2>2. sha' = sha /\ (~walking /\ Compressed => Hashed' = Hashed)
    <3>1. CASE Reader
      BY <1>1, <1>4, <3>1 DEF Reader, BeginRead, ReadData, ReadFails, ClaimHunk, StoreItem, HashData,
         AdvanceRead, shared, Hashed
    <3>2. CASE MainMoves \/ Ended \/ QueueHalf \/ WriteNext
      BY <3>2 DEF MainMoves, Still, Ended, vars, shared, readVars, QueueHalf, QueueRead,
         WriteNext, WriteHunk, WriteLast, Hashed
    <3>3. ASSUME NEW j \in Jobs, JobMoves(j) \/ MarkComplete(j)
          PROVE  sha' = sha /\ Hashed' = Hashed
      BY <3>3 DEF JobMoves, Still, MarkComplete, WorkUnchanged, shared, readVars, Hashed
    <3>. QED  BY <1>4, <3>1, <3>2, <3>3, Moves
  <2>. QED  BY <1>0, <2>1, <2>2 DEF Summed
<1>. QED  BY <1>2, <1>3, <1>4

-----------------------------------------------------------------------------
(* The theorems. *)

\* As compress_begin leaves it.
LEMMA Begins ==
  ASSUME Init PROVE Inv
<1>1. /\ Half \in Nat \ {0} /\ Ring = Half + Half /\ HunkCount \in Nat \ {0} /\ 0 \in Hunks
  BY RingFacts DEF Hunks
<1>2. /\ setup \in Setups /\ walking = HasParent /\ queueOffset = 0 /\ doneOffset = 0
      /\ readError = FALSE /\ reads = 0 /\ writeHunk = 0
      /\ status = [s \in Slots |-> "ready"] /\ hunknum = [s \in Slots |-> 0]
      /\ osd = [s \in Slots |-> NoJob] /\ buffer = [s \in 0..Ring |-> Blank]
      /\ sha = <<>> /\ work = [j \in Jobs |-> "none"]
      /\ main = "call" /\ reader = "idle" /\ num = 0 /\ cur = 0 /\ end = 0 /\ made = NoJob
  BY DEF Init
<1>3. HasParent \in BOOLEAN
  BY DEF HasParent
<1>4. walking \in BOOLEAN /\ readError \in BOOLEAN
  BY <1>2, <1>3
<1>5. Types
  <2>1. /\ queueOffset \in Nat /\ doneOffset \in Nat /\ reads \in 0..2 /\ writeHunk \in 0..HunkCount
        /\ num \in 0..Half /\ cur \in Nat /\ end \in Nat
    BY <1>1, <1>2
  <2>2. /\ status \in [Slots -> {"ready", "reading", "queued", "complete"}]
        /\ hunknum \in [Slots -> Hunks] /\ osd \in [Slots -> Jobs \cup {NoJob}]
        /\ DOMAIN buffer = 0..Ring /\ work \in [Jobs -> Pipeline] /\ made \in Jobs \cup {NoJob}
    BY <1>1, <1>2 DEF Pipeline
  <2>. QED  BY <1>2, <1>4, <2>1, <2>2 DEF Types, TypeOK
<1>6. Claimed = 0 /\ Loaded = 0 /\ Hashed = 0
  BY <1>2 DEF Claimed, Loaded, Loading, Hashed
<1>7. Offsets /\ Reads
  BY <1>1, <1>2, <1>6, AlignedZero DEF Offsets, Reads
<1>8. Turns
  BY <1>1, <1>2 DEF Turns
<1>9. Ringed
  BY <1>1, <1>2, <1>6 DEF Ringed
<1>10. Working
  BY <1>2 DEF Working, Busy
<1>11. Kept /\ Hashing
  BY <1>1, <1>2, <1>6 DEF Kept, Hashing
<1>12. [k \in 1..0 |-> Child[k - 1]] = <<>>
  OBVIOUS
<1>13. Summed
  BY <1>2, <1>6, <1>12 DEF Summed
<1>. QED  BY <1>5, <1>7, <1>8, <1>9, <1>10, <1>11, <1>13 DEF Inv, Shape

LEMMA Stutters ==
  ASSUME Inv, UNCHANGED vars PROVE Inv'
BY DEF vars, shared, slotVars, mapVars, readVars, Inv, Shape, Types, TypeOK, Offsets, Reads, Turns,
   Ringed, Working, Kept, Hashing, Summed, Hashed, Claimed, Loaded, Loading, Aligned, Slot, HasParent,
   ParentCount, Parent, Compressed

\* Without a parent there is no walk over it, ...
LEMMA NoWalk == Spec /\ ~HasParent => WalkWaits
<1> DEFINE Alone == ~HasParent /\ ~walking
<1>1. Init /\ ~HasParent => Alone
  BY DEF Init
<1>2. ASSUME Alone, [Next]_vars PROVE Alone' /\ ~EndWalk
  <2>1. ~EndWalk
    BY <1>2 DEF EndWalk
  <2>2. CASE Next
    <3>1. ~walking'
      <4>1. CASE Main
        BY <1>2, <2>1, <4>1 DEF Main, Continue, QueueRead, Flush, ReleaseItem, WriteHunk, WriteLast,
           WriteFails, Finish, WaitForWork, shared
      <4>2. CASE Reader
        BY <1>2, <4>2 DEF Reader, BeginRead, ReadData, ReadFails, ClaimHunk, StoreItem, HashData,
           AdvanceRead, shared
      <4>3. ASSUME NEW j \in Jobs, Work(j) PROVE ~walking'
        BY <1>2, <4>3 DEF Work, TakeJob, HashHunk, CompressHunk, MarkComplete, ItemDone, WorkUnchanged,
           shared
      <4>. QED  BY <1>2, <2>2, <4>1, <4>2, <4>3 DEF Next, Ended, vars, shared
    <3>. QED  BY <1>2, <2>1, <2>2, <3>1, SetupStays
  <2>3. CASE UNCHANGED vars
    BY <1>2, <2>1, <2>3 DEF vars, shared, mapVars, HasParent, ParentCount, Parent
  <2>. QED  BY <1>2, <2>2, <2>3
<1>3. Alone /\ [Next]_vars => Alone'
  BY <1>2
<1>4. Alone /\ [Next]_vars => [EndWalk => reads = 0]_vars
  BY <1>2
<1>. QED  BY <1>1, <1>3, <1>4, PTL DEF Spec, WalkWaits

\* ... and a prompt reader has returned when the walk ends.
LEMMA PromptWaits == Spec /\ Prompt => WalkWaits
<1>1. Prompt /\ [Next]_vars => Prompt'
  <2>1. Next => Prompt' = Prompt
    BY SetupStays
  <2>2. UNCHANGED vars => Prompt' = Prompt
    BY DEF vars, mapVars, Prompt
  <2>. QED  BY <2>1, <2>2
<1>2. Prompt /\ [Next]_vars => [EndWalk => reads = 0]_vars
  BY DEF EndWalk
<1>. QED  BY <1>1, <1>2, PTL DEF Spec, WalkWaits

\* Whatever the file, the ring, the threads and the errors: the inductive invariant.
THEOREM Invariance == Spec /\ (HasParent => WalkWaits) => []Inv
<1>1. Init => Inv
  BY Begins
<1>2. Inv /\ [Next]_vars /\ [EndWalk => reads = 0]_vars => Inv'
  <2>1. ASSUME Inv, Next, Idle PROVE Inv'
    BY <2>1, ShapeStays, KeptStays, HashingStays, SummedStays DEF Inv
  <2>2. ASSUME Inv, UNCHANGED vars PROVE Inv'
    BY <2>2, Stutters
  <2>. QED  BY <2>1, <2>2 DEF Idle
<1>. QED  BY <1>1, <1>2, NoWalk, PTL DEF Spec, WalkWaits

\* The compressor's fields and the locals of its threads keep their types, m_read_done_offset
\* and the number of hunks of a read among them, which could run past the file's end.
THEOREM TypesKept == Spec /\ (HasParent => WalkWaits) => []TypeOK
<1>1. Inv => TypeOK
  BY DEF Inv, Shape, Types
<1>. QED  BY <1>1, Invariance, PTL

\* async_read's assertions hold (chd.cpp:3125, 3148): it reads to the start of a half, and
\* compress_continue claims the slots of a read only when each is free.  Without a parent
\* they do for every reader, with one only if no read is under way when the walk ends.
THEOREM AssertionsKept == Spec /\ (HasParent => WalkWaits) => []AssertionsHold
<1>1. ASSUME Inv PROVE AssertionsHold
  <2>1. reader = "read" => doneOffset % Half = 0
    BY <1>1, ReadAligned DEF Inv, Aligned
  <2>2. ASSUME reader = "claim", cur < end PROVE status[Slot(cur)] = "reading"
    <3>1. Claimed = cur /\ Loaded = end
      BY <2>2 DEF Claimed, Loaded, Loading
    <3>2. cur \in Nat /\ end \in Nat /\ queueOffset \in Nat /\ end <= queueOffset
      BY <1>1, <3>1, Numbers DEF Inv, Shape, Offsets
    <3>. QED  BY <1>1, <2>2, <3>1, <3>2 DEF Inv, Shape, Ringed
  <2>. QED  BY <2>1, <2>2 DEF AssertionsHold
<1>. QED  BY <1>1, Invariance, PTL

\* The data of a hunk stay in the ring until it is written, and while windows of the
\* parent run into the next hunk, that one's stay too, at the ring's end in the extra place;
\* with a parent, if no read is under way when the walk over it ends.
THEOREM DataStaysPut == Spec /\ (HasParent => WalkWaits) => []DataStay
<1>1. ASSUME Inv PROVE DataStay
  <2>1. SUFFICES ASSUME NEW s \in Slots, status[s] \in {"queued", "complete"}
                 PROVE  LET h == hunknum[s] IN
                        IF ~walking THEN buffer[s] = Child[h]
                        ELSE /\ h \in DOMAIN Parent => buffer[s] = Parent[h]
                             /\ Windows(h) > 1 /\ h + 1 \in DOMAIN Parent => buffer[s + 1] = Parent[h + 1]
    BY DEF DataStay
  <2> DEFINE h == hunknum[s]
  <2>2. h \in Nat /\ writeHunk <= h /\ h < Loaded /\ Slot(h) = s
    <3>1. h \in Nat /\ Claimed \in Nat /\ Loaded \in Nat
      BY <1>1, RingFacts, Numbers DEF Inv, Shape, Types, TypeOK, Hunks
    <3>2. writeHunk <= h /\ h < Claimed /\ Slot(h) = s /\ Claimed <= Loaded
      BY <1>1, <2>1 DEF Inv, Shape, Ringed, Offsets
    <3>. QED  BY <3>1, <3>2
  <2>. HIDE DEF h
  <2>3. /\ ~walking => buffer[Slot(h)] = Child[h]
        /\ walking /\ h \in DOMAIN Parent => buffer[Slot(h)] = Parent[h]
        /\ walking /\ h + 1 \in DOMAIN Parent => buffer[Slot(h) + 1] = Parent[h + 1]
    BY <1>1, <2>2 DEF Inv, Kept
  <2>. QED  BY <2>2, <2>3 DEF h
<1>. QED  BY <1>1, Invariance, PTL

\* When compress_continue reports success a compressed file's SHA-1 is that of all its data
\* in order: writing has caught up with the reader, and the wait for its queue lets it finish.
\* Without a parent that is so for every reader; with one, if no read is under way when the
\* walk ends, or the parent's data may be hashed with the file's.
THEOREM HashIsOfAll == Spec /\ (HasParent => WalkWaits) => []HashedAll
<1>1. ASSUME Inv PROVE HashedAll
  <2>1. SUFFICES ASSUME main = "finished", Compressed PROVE sha = [h \in 1..HunkCount |-> Child[h - 1]]
    BY DEF HashedAll
  <2>2. writeHunk = HunkCount /\ ~walking /\ reads = 0
    BY <1>1, <2>1 DEF Inv, Shape, Turns
  <2>3. reader = "idle"
    BY <1>1, <2>2 DEF Inv, Shape, Reads
  <2>4. Claimed = doneOffset /\ Hashed = doneOffset
    BY <2>3 DEF Claimed, Hashed
  <2>5. /\ Claimed \in Nat /\ Loaded \in Nat /\ HunkCount \in Nat
        /\ writeHunk <= Claimed /\ Claimed <= Loaded /\ Loaded <= HunkCount
    BY <1>1, RingFacts, Numbers DEF Inv, Shape, Offsets
  <2>6. Hashed = HunkCount
    BY <2>2, <2>4, <2>5
  <2>. QED  BY <1>1, <2>1, <2>2, <2>6 DEF Inv, Summed
<1>. QED  BY <1>1, Invariance, PTL

-----------------------------------------------------------------------------
(* What is stored. *)

\* The parent has all the hunks that the run over it reads (README, Disagreements).
Covered == HasParent => Hunks \subseteq DOMAIN Parent

\* what a job is to put into m_hash, and into m_compressed
Keys(h)   == IF walking THEN [u \in 1..Windows(h) |-> At(h * Units + (u - 1))] ELSE <<Child[h]>>
Packed(h) == \/ Found(currentMap, Child[h]) \/ Found(parentMap, Child[h])
             \/ packed[Slot(h)] = Child[h]

\* The buffer holds hunks, if not always the right ones.
Held == \A p \in 0..Ring : buffer[p] = [u \in 1..Units |-> buffer[p][u]]

\* A job has hashed the hunk and, if it was in neither map then, compressed it.
Digested ==
  /\ DOMAIN hash = Slots /\ DOMAIN packed = Slots
  /\ \A j \in Jobs : work[j] \in {"compress", "complete"} =>
       /\ hash[Slot(j.hunk)] = Keys(j.hunk)
       /\ work[j] = "compress" => ~walking
       /\ work[j] = "complete" /\ ~walking => Packed(j.hunk)
  /\ \A h \in Nat : writeHunk <= h /\ h < Claimed /\ status[Slot(h)] = "complete" =>
       hash[Slot(h)] = Keys(h) /\ (~walking => Packed(h))

\* The maps lead to hunks that are stored, and into the parent.
Mapped ==
  /\ \A e \in currentMap : e.num \in Nat /\ e.num < writeHunk /\ e.key = Child[e.num]
  /\ walking => currentMap = {}
  /\ \A e \in parentMap : HasParent /\ e.num \in Nat /\ e.key = At(e.num)

\* What is stored for a hunk is the hunk.
Right(h) ==
  \/ output[h].how = "here" /\ output[h].data = Child[h]
  \/ output[h].how = "none" /\ ~Compressed /\ Child[h] = Blank
  \/ /\ output[h].how = "self" /\ Compressed
     /\ output[h].from \in 0..(h - 1) /\ Child[output[h].from] = Child[h]
  \/ output[h].how = "parent" /\ Compressed /\ output[h].from \in Nat /\ At(output[h].from) = Child[h]

Written == DOMAIN output = Hunks /\ (~walking => \A h \in Nat : h < writeHunk => Right(h))

Stored == Held /\ Digested /\ Mapped /\ Written

\* Data are hunks: of the file, of its parent and of the cleared buffer.
LEMMA DataFacts ==
  ASSUME setup \in Setups
  PROVE  /\ Units \in Nat \ {0}
         /\ \A h \in Hunks : Child[h] = [u \in 1..Units |-> Child[h][u]]
         /\ \A h \in DOMAIN Parent : Parent[h] = [u \in 1..Units |-> Parent[h][u]]
         /\ Blank = [u \in 1..Units |-> Blank[u]]
         /\ \A h \in DOMAIN Parent : h \in Nat
<1>1. AreHunks(Child) /\ AreHunks(<<Blank>>) /\ AreHunks(setup.parent) /\ Units \in Nat \ {0}
      /\ DOMAIN Child = Hunks /\ DOMAIN setup.parent = 0..(Cardinality(DOMAIN setup.parent) - 1)
      /\ Cardinality(DOMAIN setup.parent) \in Nat
  BY CompressorAssumption
<1>2. Blank = [u \in 1..Units |-> Blank[u]]
  <2>1. 1 \in DOMAIN <<Blank>> /\ <<Blank>>[1] = Blank
    OBVIOUS
  <2>. QED  BY <1>1, <2>1 DEF AreHunks
<1>3. \A h \in Hunks : Child[h] = [u \in 1..Units |-> Child[h][u]]
  BY <1>1 DEF AreHunks
<1>4. \A h \in DOMAIN Parent : Parent[h] = [u \in 1..Units |-> Parent[h][u]]
  BY <1>1 DEF AreHunks, Parent
<1>5. \A h \in DOMAIN Parent : h \in Nat
  BY <1>1 DEF Parent
<1>. QED  BY <1>1, <1>2, <1>3, <1>4, <1>5

\* The first hunk of two is the first window.
LEMMA FirstWindow ==
  ASSUME NEW a, NEW b, Units \in Nat \ {0},
         a = [u \in 1..Units |-> a[u]], b = [u \in 1..Units |-> b[u]]
  PROVE  SubSeq(a \o b, 1, Units) = a
<1> DEFINE S == {a[u] : u \in 1..Units} \cup {b[u] : u \in 1..Units}
           c == a \o b
           d == SubSeq(c, 1, Units)
<1>1. a \in Seq(S) /\ Len(a) = Units
  OBVIOUS
<1>2. b \in Seq(S) /\ Len(b) = Units
  OBVIOUS
<1>. HIDE DEF S
<1>3. c \in Seq(S) /\ Len(c) = Units + Units /\ \A i \in 1..Units : c[i] = a[i]
  BY <1>1, <1>2, ConcatProperties
<1>. HIDE DEF c
<1>4. d \in Seq(S) /\ Len(d) = Units /\ \A i \in 1..Units : d[i] = c[i]
  BY <1>3
<1>. HIDE DEF d
<1>5. d = a
  BY <1>1, <1>3, <1>4, SeqEqual
<1>. QED  BY <1>5 DEF d, c

\* A unit's place in its hunk.
LEMMA UnitOf ==
  ASSUME NEW h \in Nat, NEW v \in 0..(Units - 1), Units \in Nat \ {0}
  PROVE  /\ h * Units + v \in Nat
         /\ (h * Units + v) \div Units = h /\ (h * Units + v) % Units = v
<1> DEFINE a == h * Units + v
<1>1. a \in Nat /\ a = Units * h + v
  OBVIOUS
<1>. HIDE DEF a
<1>2. a % Units = v /\ a \div Units = h
  BY <1>1, RemainderIs
<1>. QED  BY <1>1, <1>2 DEF a

\* A worker hashes what it is to hash: the windows of a hunk of the parent, of which only
\* the first is hashed where no hunk follows, or the hunk.
LEMMA WindowsRight ==
  ASSUME Shape, Kept, Held, Covered, walking,
         NEW h \in Hunks, writeHunk <= h, h < Loaded
  PROVE  [u \in 1..Windows(h) |-> Window(Slot(h), u - 1)] = Keys(h)
<1> DEFINE s == Slot(h)
           a == Parent[h]
           c == ParentData(h + 1)
<1>1. /\ h \in Nat /\ HunkCount \in Nat \ {0} /\ HasParent /\ s \in Slots /\ s \in 0..Ring /\ s + 1 \in 0..Ring
      /\ Ring \in Nat \ {0} /\ setup \in Setups
  <2>1. h \in Nat /\ HunkCount \in Nat \ {0} /\ Ring \in Nat \ {0}
    BY RingFacts DEF Hunks
  <2>2. s \in Slots /\ s \in 0..(Ring - 1)
    BY <2>1, SlotType
  <2>3. HasParent
    BY DEF Shape, Reads
  <2>4. setup \in Setups
    BY DEF Shape, Types, TypeOK
  <2>. QED  BY <2>1, <2>2, <2>3, <2>4
<1>2. h \in DOMAIN Parent /\ Units \in Nat \ {0} /\ a = [u \in 1..Units |-> a[u]]
  BY <1>1, DataFacts DEF Covered
<1>3. buffer[s] = a /\ ParentData(h) = a
  BY <1>1, <1>2 DEF Kept, ParentData
<1>4. buffer[s + 1] = [u \in 1..Units |-> buffer[s + 1][u]]
  BY <1>1 DEF Held
<1>5. c = [u \in 1..Units |-> c[u]]
  <2>1. CASE h + 1 \in DOMAIN Parent
    BY <1>1, <2>1, DataFacts DEF ParentData
  <2>2. CASE h + 1 \notin DOMAIN Parent
    BY <2>2 DEF ParentData
  <2>. QED  BY <2>1, <2>2
<1>6. ASSUME NEW u \in 1..Windows(h) PROVE Window(s, u - 1) = At(h * Units + (u - 1))
  <2> DEFINE v == u - 1
  <2>1. v \in 0..(Units - 1) /\ (Windows(h) # 1 => h # HunkCount - 1)
    BY <1>2 DEF Windows
  <2>2. At(h * Units + v) = SubSeq(a \o c, v + 1, v + Units)
    <3>1. (h * Units + v) \div Units = h /\ (h * Units + v) % Units = v
      BY <1>1, <1>2, <2>1, UnitOf
    <3>. QED  BY <1>3, <3>1 DEF At
  <2>3. Window(s, v) = SubSeq(a \o buffer[s + 1], v + 1, v + Units)
    BY <1>3 DEF Window
  <2>4. CASE h + 1 \in DOMAIN Parent
    <3>1. buffer[s + 1] = Parent[h + 1]
      BY <1>1, <2>4 DEF Kept
    <3>. QED  BY <2>2, <2>3, <2>4, <3>1 DEF ParentData
  <2>5. CASE h + 1 \notin DOMAIN Parent
    <3>1. v = 0
      <4>1. h + 1 \notin Hunks
        BY <1>1, <2>5 DEF Covered
      <4>2. h = HunkCount - 1
        BY <1>1, <4>1 DEF Hunks
      <4>. QED  BY <4>2 DEF Windows
    <3>2. SubSeq(a \o c, 1, Units) = a
      BY <1>2, <1>5, FirstWindow
    <3>3. SubSeq(a \o buffer[s + 1], 1, Units) = a
      BY <1>2, <1>4, FirstWindow
    <3>4. v + 1 = 1 /\ v + Units = Units
      BY <1>2, <3>1
    <3>. QED  BY <2>2, <2>3, <3>2, <3>3, <3>4
  <2>. QED  BY <2>4, <2>5
<1>. QED  BY <1>6 DEF Keys

\* What a busy job finds in its slot.
LEMMA JobHunk ==
  ASSUME Shape, Kept, NEW j \in Jobs, work[j] \in Busy
  PROVE  /\ j.hunk \in Nat /\ j.hunk \in Hunks /\ j.walk = walking
         /\ writeHunk <= j.hunk /\ j.hunk < Claimed /\ j.hunk < Loaded /\ j.hunk < queueOffset
         /\ Slot(j.hunk) \in Slots /\ hunknum[Slot(j.hunk)] = j.hunk
         /\ status[Slot(j.hunk)] = "queued"
         /\ ~walking => buffer[Slot(j.hunk)] = Child[j.hunk]
<1>1. /\ j.hunk \in Nat /\ j.hunk \in Hunks /\ j.walk = walking /\ writeHunk <= j.hunk /\ j.hunk < Claimed
      /\ status[Slot(j.hunk)] = "queued"
  BY RingFacts DEF Shape, Working, Jobs, Hunks
<1>2. Claimed \in Nat /\ Loaded \in Nat /\ queueOffset \in Nat /\ Claimed <= Loaded /\ Loaded <= queueOffset
  BY Numbers DEF Shape, Offsets
<1>3. j.hunk < Loaded /\ j.hunk < queueOffset
  BY <1>1, <1>2
<1>4. Slot(j.hunk) \in Slots
  BY <1>1, SlotType
<1>5. hunknum[Slot(j.hunk)] = j.hunk
  BY <1>1 DEF Shape, Ringed
<1>6. ~walking => buffer[Slot(j.hunk)] = Child[j.hunk]
  BY <1>1, <1>3 DEF Kept
<1>. QED  BY <1>1, <1>3, <1>4, <1>5, <1>6

\* The jobs of two hunks work on different slots.
LEMMA JobsApart ==
  ASSUME Shape, Kept, NEW j \in Jobs, work[j] \in Busy, NEW h \in Nat, writeHunk <= h, h < Claimed, h # j.hunk
  PROVE  Slot(h) # Slot(j.hunk)
<1>1. Claimed \in Nat /\ Loaded \in Nat /\ queueOffset \in Nat /\ Claimed <= Loaded /\ Loaded <= queueOffset
  BY Numbers DEF Shape, Offsets
<1>2. h < queueOffset
  BY <1>1
<1>. QED  BY <1>2, JobHunk, OwnSlots

\* What has been said of the parent stays so.
LEMMA SetupSame ==
  ASSUME setup' = setup
  PROVE  /\ \A n : At(n)' = At(n)
         /\ walking' = walking => \A h : Keys(h)' = Keys(h)
         /\ HasParent' = HasParent /\ Covered' = Covered
<1>1. Parent' = Parent /\ Compressed' = Compressed
  BY DEF Parent, Compressed
<1>3. \A n : At(n)' = At(n)
  BY <1>1 DEF At, ParentData
<1>5. walking' = walking => \A h : Keys(h)' = Keys(h)
  BY <1>1 DEF Keys, At, ParentData, Windows
<1>. QED  BY <1>1, <1>3, <1>5 DEF HasParent, ParentCount, Covered

\* The buffer.
LEMMA HeldStays ==
  ASSUME Shape, Held, Next PROVE Held'
<1>1. CASE ReadData
  <2>1. setup \in Setups /\ buffer' = Filled
    BY <1>1 DEF Shape, Types, TypeOK, ReadData
  <2>2. ASSUME NEW p \in 0..Ring PROVE buffer'[p] = [u \in 1..Units |-> buffer'[p][u]]
    <3>1. PICK h : \/ buffer'[p] = buffer[p]
                   \/ h \in DOMAIN Parent /\ buffer'[p] = Parent[h]
                   \/ h \in DOMAIN Child /\ buffer'[p] = Child[h]
      BY <2>1 DEF Filled, Holding
    <3>2. DOMAIN Child = Hunks
      BY RingFacts DEF Hunks
    <3>. QED  BY <2>1, <3>1, <3>2, DataFacts DEF Held
  <2>. QED  BY <2>2 DEF Held
<1>2. CASE ~ReadData
  <2>1. buffer' = buffer
    <3>1. CASE EndWalk
      BY <3>1 DEF EndWalk
    <3>. QED  BY <1>2, <3>1, Untouched
  <2>. QED  BY <2>1 DEF Held
<1>. QED  BY <1>1, <1>2

\* Most steps finish no part of a job's work.
LEMMA DigestedKept ==
  ASSUME Digested, UNCHANGED <<hash, packed, walking, setup>>,
         currentMap \subseteq currentMap', parentMap \subseteq parentMap',
         \A j \in Jobs : work'[j] \in {"compress", "complete"} => work'[j] = work[j],
         \A h \in Nat : writeHunk' <= h /\ h < Claimed' /\ status'[Slot(h)] = "complete" =>
            writeHunk <= h /\ h < Claimed /\ status[Slot(h)] = "complete"
  PROVE  Digested'
<1>1. \A h : Keys(h)' = Keys(h)
  BY SetupSame
<1>2. \A h : Packed(h) => Packed(h)'
  BY DEF Packed, Found, Slot
<1>3. ASSUME NEW j \in Jobs, work'[j] \in {"compress", "complete"}
      PROVE  /\ hash'[Slot(j.hunk)] = Keys(j.hunk)'
             /\ work'[j] = "compress" => ~walking'
             /\ work'[j] = "complete" /\ ~walking' => Packed(j.hunk)'
  <2> DEFINE i == j.hunk
  <2>1. /\ hash[Slot(i)] = Keys(i) /\ (work[j] = "compress" => ~walking)
        /\ (work[j] = "complete" /\ ~walking => Packed(i)) /\ work'[j] = work[j]
    BY <1>3 DEF Digested
  <2>. HIDE DEF i
  <2>2. /\ hash'[Slot(i)] = Keys(i)'
        /\ work'[j] = "compress" => ~walking'
        /\ work'[j] = "complete" /\ ~walking' => Packed(i)'
    BY <1>1, <1>2, <2>1
  <2>. QED  BY <2>2 DEF i
<1>4. ASSUME NEW h \in Nat, writeHunk' <= h, h < Claimed', status'[Slot(h)] = "complete"
      PROVE  hash'[Slot(h)] = Keys(h)' /\ (~walking' => Packed(h)')
  <2>1. hash[Slot(h)] = Keys(h) /\ (~walking => Packed(h))
    BY <1>4 DEF Digested
  <2>. QED  BY <1>1, <1>2, <2>1
<1>5. DOMAIN hash' = Slots /\ DOMAIN packed' = Slots
  BY DEF Digested
<1>. QED  BY <1>3, <1>4, <1>5 DEF Digested, Slot

\* The maps are added to.
LEMMA MapsGrow ==
  ASSUME NEW s, NEW h, Record(s, h)
  PROVE  currentMap \subseteq currentMap' /\ parentMap \subseteq parentMap'
BY DEF Record, Store, Add, AddUnits

\* A worker hashes its hunk, ...
LEMMA DigestedHashed ==
  ASSUME Shape, Kept, Held, Digested, Covered, NEW j \in Jobs, HashHunk(j) PROVE Digested'
<1> DEFINE i == j.hunk
           s == Slot(i)
<1>1. /\ work[j] = "hash" /\ work' = [work EXCEPT ![j] = IF j.walk THEN "complete" ELSE "compress"]
      /\ hash' = [hash EXCEPT ![s] = IF j.walk THEN [u \in 1..Windows(hunknum[s]) |-> Window(s, u - 1)]
                                     ELSE <<buffer[s]>>]
      /\ UNCHANGED <<status, packed, setup, walking, writeHunk, currentMap, parentMap>> /\ Claimed' = Claimed
  BY DEF HashHunk, Advance, WorkUnchanged, shared, mapVars, readVars, Claimed
<1>2. work[j] \in Busy /\ work \in [Jobs -> Pipeline] /\ DOMAIN hash = Slots /\ walking \in BOOLEAN
  BY <1>1 DEF Busy, Shape, Types, TypeOK, Digested
<1>3. /\ i \in Nat /\ i \in Hunks /\ j.walk = walking /\ writeHunk <= i /\ i < Claimed /\ i < Loaded
      /\ s \in Slots /\ hunknum[s] = i /\ status[s] = "queued" /\ (~walking => buffer[s] = Child[i])
  BY <1>2, JobHunk
<1>4. hash'[s] = Keys(i)
  <2>1. CASE walking
    <3>1. [u \in 1..Windows(i) |-> Window(s, u - 1)] = Keys(i)
      BY <1>3, <2>1, WindowsRight
    <3>. QED  BY <1>1, <1>2, <1>3, <2>1, <3>1
  <2>2. CASE ~walking
    BY <1>1, <1>2, <1>3, <2>2 DEF Keys
  <2>. QED  BY <2>1, <2>2
<1>5. \A h : Keys(h)' = Keys(h)
  BY <1>1, SetupSame
<1>6. \A h : Packed(h)' = Packed(h)
  BY <1>1 DEF Packed, Found, Slot
<1>. HIDE DEF i, s
<1>7. ASSUME NEW k \in Jobs, work'[k] \in {"compress", "complete"}
      PROVE  /\ hash'[Slot(k.hunk)] = Keys(k.hunk)
             /\ work'[k] = "compress" => ~walking
             /\ work'[k] = "complete" /\ ~walking => Packed(k.hunk)
  <2>1. CASE k = j
    <3>1. k.hunk = i /\ Slot(k.hunk) = s
      BY <2>1 DEF i, s
    <3>2. work'[k] = IF walking THEN "complete" ELSE "compress"
      BY <1>1, <1>2, <1>3, <2>1
    <3>. QED  BY <1>4, <3>1, <3>2
  <2>2. CASE k # j
    <3>1. work[k] = work'[k] /\ work[k] \in Busy
      BY <1>1, <1>2, <1>7, <2>2 DEF Busy
    <3>2. k.hunk \in Nat /\ writeHunk <= k.hunk /\ k.hunk < Claimed /\ k.walk = walking
      BY <3>1, JobHunk
    <3>3. k.hunk # i
      BY <1>3, <2>2, <3>2 DEF i, Jobs
    <3>4. Slot(k.hunk) # s
      BY <1>2, <3>2, <3>3, JobsApart DEF i, s
    <3>5. hash'[Slot(k.hunk)] = hash[Slot(k.hunk)]
      <4>1. Slot(k.hunk) \in Slots
        BY <3>2, SlotType
      <4>. QED  BY <1>1, <1>2, <3>4, <4>1
    <3>. QED  BY <1>7, <3>1, <3>5 DEF Digested
  <2>. QED  BY <2>1, <2>2
<1>8. ASSUME NEW h \in Nat, writeHunk <= h, h < Claimed, status[Slot(h)] = "complete"
      PROVE  hash'[Slot(h)] = Keys(h) /\ (~walking => Packed(h))
  <2>1. Slot(h) # s /\ Slot(h) \in Slots
    BY <1>3, <1>8, SlotType
  <2>2. hash'[Slot(h)] = hash[Slot(h)]
    BY <1>1, <1>2, <2>1
  <2>. QED  BY <1>8, <2>2 DEF Digested
<1>9. DOMAIN hash' = Slots /\ DOMAIN packed' = Slots
  BY <1>1 DEF Digested
<1>10. \A k \in Jobs : Keys(k.hunk)' = Keys(k.hunk) /\ Packed(k.hunk)' = Packed(k.hunk)
  <2>1. ASSUME NEW k \in Jobs PROVE Keys(k.hunk)' = Keys(k.hunk) /\ Packed(k.hunk)' = Packed(k.hunk)
    <3> DEFINE n == k.hunk
    <3>. HIDE DEF n
    <3>1. Keys(n)' = Keys(n) /\ Packed(n)' = Packed(n)
      BY <1>5, <1>6
    <3>. QED  BY <3>1 DEF n
  <2>. QED  BY <2>1
<1>. QED  BY <1>1, <1>5, <1>6, <1>7, <1>8, <1>9, <1>10 DEF Digested, Slot

\* ... compresses it unless it is in one of the maps, where it will stay, ...
LEMMA DigestedCompressed ==
  ASSUME Shape, Kept, Digested, NEW j \in Jobs, CompressHunk(j) PROVE Digested'
<1> DEFINE i == j.hunk
           s == Slot(i)
<1>1. /\ work[j] = "compress" /\ work' = [work EXCEPT ![j] = "complete"]
      /\ packed' = IF Found(currentMap, hash[s][1]) \/ Found(parentMap, hash[s][1]) THEN packed
                   ELSE [packed EXCEPT ![s] = buffer[s]]
      /\ UNCHANGED <<status, hash, setup, walking, writeHunk, currentMap, parentMap>> /\ Claimed' = Claimed
  BY DEF CompressHunk, Advance, WorkUnchanged, shared, mapVars, readVars, Claimed
<1>2. work[j] \in Busy /\ work \in [Jobs -> Pipeline] /\ DOMAIN packed = Slots
  BY <1>1 DEF Busy, Shape, Types, TypeOK, Digested
<1>3. /\ i \in Nat /\ j.walk = walking /\ writeHunk <= i /\ i < Claimed
      /\ s \in Slots /\ status[s] = "queued" /\ (~walking => buffer[s] = Child[i])
  BY <1>2, JobHunk
<1>4. ~walking /\ hash[s] = Keys(i) /\ Keys(i) = <<Child[i]>>
  BY <1>1 DEF Digested, Keys
<1>5. Packed(i)'
  <2>1. hash[s][1] = Child[i]
    BY <1>4
  <2>2. \/ Found(currentMap, Child[i]) \/ Found(parentMap, Child[i]) \/ packed'[s] = Child[i]
    BY <1>1, <1>2, <1>3, <1>4, <2>1
  <2>. QED  BY <1>1, <2>2 DEF Packed, Found, Slot
<1>6. \A h : Keys(h)' = Keys(h)
  BY <1>1, SetupSame
<1>. HIDE DEF i, s
<1>7. ASSUME NEW h \in Nat, writeHunk <= h, h < Claimed, h # i, Packed(h) PROVE Packed(h)'
  <2>1. Slot(h) # s
    BY <1>2, <1>7, JobsApart DEF i, s
  <2>2. packed'[Slot(h)] = packed[Slot(h)]
    <3>1. Slot(h) \in Slots
      BY <1>7, SlotType
    <3>. QED  BY <1>1, <1>2, <2>1, <3>1
  <2>. QED  BY <1>1, <1>7, <2>2 DEF Packed, Found, Slot
<1>8. ASSUME NEW k \in Jobs, work'[k] \in {"compress", "complete"}
      PROVE  /\ hash'[Slot(k.hunk)] = Keys(k.hunk)'
             /\ work'[k] = "compress" => ~walking'
             /\ work'[k] = "complete" /\ ~walking' => Packed(k.hunk)'
  <2> DEFINE n == k.hunk
  <2>1. CASE k = j
    <3>1. n = i
      BY <2>1 DEF i
    <3>2. work'[k] = "complete"
      BY <1>1, <1>2, <2>1
    <3>. HIDE DEF n
    <3>3. hash'[Slot(n)] = Keys(n)' /\ Packed(n)'
      BY <1>1, <1>4, <1>5, <1>6, <3>1 DEF s
    <3>4. hash'[Slot(k.hunk)] = Keys(k.hunk)' /\ Packed(k.hunk)'
      BY <3>3 DEF n
    <3>. QED  BY <3>2, <3>4
  <2>2. CASE k # j
    <3>1. work[k] = work'[k] /\ work[k] \in Busy
      BY <1>1, <1>2, <1>8, <2>2 DEF Busy
    <3>2. n \in Nat /\ writeHunk <= n /\ n < Claimed /\ k.walk = walking
      BY <3>1, JobHunk
    <3>3. n # i
      BY <1>3, <2>2, <3>2 DEF i, Jobs
    <3>4. hash[Slot(n)] = Keys(n) /\ (work[k] = "complete" /\ ~walking => Packed(n))
          /\ (work[k] = "compress" => ~walking)
      BY <1>8, <3>1 DEF Digested
    <3>. HIDE DEF n
    <3>5. hash'[Slot(n)] = Keys(n)' /\ (work[k] = "complete" /\ ~walking => Packed(n)')
      BY <1>1, <1>6, <1>7, <3>2, <3>3, <3>4
    <3>6. hash'[Slot(k.hunk)] = Keys(k.hunk)' /\ (work[k] = "complete" /\ ~walking => Packed(k.hunk)')
      BY <3>5 DEF n
    <3>. QED  BY <1>1, <3>1, <3>4, <3>6
  <2>. QED  BY <2>1, <2>2
<1>9. ASSUME NEW h \in Nat, writeHunk <= h, h < Claimed, status[Slot(h)] = "complete"
      PROVE  hash'[Slot(h)] = Keys(h)' /\ Packed(h)'
  <2>1. h # i
    BY <1>3, <1>9 DEF s
  <2>2. hash[Slot(h)] = Keys(h) /\ Packed(h)
    BY <1>4, <1>9 DEF Digested
  <2>. QED  BY <1>1, <1>6, <1>7, <1>9, <2>1, <2>2
<1>10. DOMAIN hash' = Slots /\ DOMAIN packed' = Slots
  BY <1>1, <1>2 DEF Digested
<1>. QED  BY <1>1, <1>8, <1>9, <1>10 DEF Digested, Slot

\* ... and marks it as complete.
LEMMA DigestedMarked ==
  ASSUME Shape, Kept, Digested, NEW j \in Jobs, MarkComplete(j) PROVE Digested'
<1> DEFINE i == j.hunk
           s == Slot(i)
<1>1. /\ work[j] = "complete" /\ work' = [work EXCEPT ![j] = "return"]
      /\ status' = [status EXCEPT ![s] = "complete"]
      /\ UNCHANGED <<packed, hash, setup, walking, writeHunk, currentMap, parentMap>> /\ Claimed' = Claimed
  BY DEF MarkComplete, Advance, WorkUnchanged, shared, mapVars, readVars, Claimed
<1>2. /\ work[j] \in Busy /\ work \in [Jobs -> Pipeline]
      /\ status \in [Slots -> {"ready", "reading", "queued", "complete"}]
  BY <1>1 DEF Busy, Shape, Types, TypeOK
<1>3. i \in Nat
  BY <1>2, JobHunk
<1>4. hash[s] = Keys(i) /\ (~walking => Packed(i))
  BY <1>1 DEF Digested
<1>5. \A h : Keys(h)' = Keys(h)
  BY <1>1, SetupSame
<1>6. \A h : Packed(h)' = Packed(h)
  BY <1>1 DEF Packed, Found, Slot
<1>. HIDE DEF i, s
<1>7. ASSUME NEW k \in Jobs, work'[k] \in {"compress", "complete"}
      PROVE  /\ hash'[Slot(k.hunk)] = Keys(k.hunk)'
             /\ work'[k] = "compress" => ~walking'
             /\ work'[k] = "complete" /\ ~walking' => Packed(k.hunk)'
  <2> DEFINE n == k.hunk
  <2>1. work[k] = work'[k]
    BY <1>1, <1>2, <1>7
  <2>2. /\ hash[Slot(n)] = Keys(n) /\ (work[k] = "complete" /\ ~walking => Packed(n))
        /\ (work[k] = "compress" => ~walking)
    BY <1>7, <2>1 DEF Digested
  <2>. HIDE DEF n
  <2>3. hash'[Slot(n)] = Keys(n)' /\ (work[k] = "complete" /\ ~walking => Packed(n)')
    BY <1>1, <1>5, <1>6, <2>2
  <2>4. hash'[Slot(k.hunk)] = Keys(k.hunk)' /\ (work[k] = "complete" /\ ~walking => Packed(k.hunk)')
    BY <2>3 DEF n
  <2>. QED  BY <1>1, <2>1, <2>2, <2>4
<1>8. ASSUME NEW h \in Nat, writeHunk <= h, h < Claimed, status'[Slot(h)] = "complete"
      PROVE  hash'[Slot(h)] = Keys(h)' /\ (~walking' => Packed(h)')
  <2>1. CASE h = i
    BY <1>1, <1>4, <1>5, <1>6, <2>1 DEF s
  <2>2. CASE h # i
    <3>1. Slot(h) # s /\ Slot(h) \in Slots
      BY <1>2, <1>8, <2>2, JobsApart, SlotType DEF i, s
    <3>2. status[Slot(h)] = "complete"
      BY <1>1, <1>2, <1>8, <3>1
    <3>3. hash[Slot(h)] = Keys(h) /\ (~walking => Packed(h))
      BY <1>8, <3>2 DEF Digested
    <3>. QED  BY <1>1, <1>5, <1>6, <3>3
  <2>. QED  BY <2>1, <2>2
<1>9. DOMAIN hash' = Slots /\ DOMAIN packed' = Slots
  BY <1>1 DEF Digested
<1>. QED  BY <1>1, <1>7, <1>8, <1>9 DEF Digested, Slot

LEMMA DigestedStays ==
  ASSUME Shape, Kept, Held, Digested, Idle, Covered, Next PROVE Digested'
<1>1. /\ work \in [Jobs -> Pipeline] /\ status \in [Slots -> {"ready", "reading", "queued", "complete"}]
      /\ Claimed \in Nat /\ Ringed /\ cur \in Nat
  BY Numbers DEF Shape, Types, TypeOK
<1>2. CASE Ended \/ Continue \/ Flush \/ ReleaseItem \/ WriteFails \/ Finish \/ WaitForWork
  BY <1>2, DigestedKept DEF Ended, vars, Continue, Flush, ReleaseItem, WriteFails, Finish, WaitForWork,
     shared, slotVars, mapVars, readVars, Claimed
<1>3. CASE QueueRead
  <2>1. /\ UNCHANGED <<hash, packed, walking, setup, writeHunk, currentMap, parentMap, work>>
        /\ Claimed' = Claimed
    BY <1>3 DEF QueueRead, mapVars, readVars, Claimed
  <2>2. ASSUME NEW h \in Nat, status'[Slot(h)] = "complete" PROVE status[Slot(h)] = "complete"
    <3>1. Slot(h) \in Slots
      BY SlotType
    <3>. QED  BY <1>3, <2>2, <3>1 DEF QueueRead
  <2>. QED  BY <2>1, <2>2, DigestedKept
<1>4. CASE WriteNext
  <2>1. /\ UNCHANGED <<hash, packed, walking, setup, work>> /\ writeHunk' = writeHunk + 1
        /\ writeHunk \in Nat /\ Claimed' = Claimed
        /\ status' = [status EXCEPT ![Slot(writeHunk)] = "ready"]
    BY <1>4, Numbers DEF WriteNext, WriteHunk, WriteLast, shared, readVars, Claimed, Shape
  <2>2. currentMap \subseteq currentMap' /\ parentMap \subseteq parentMap'
    BY <1>4, MapsGrow DEF WriteNext, WriteHunk, WriteLast
  <2>3. ASSUME NEW h \in Nat, writeHunk' <= h, h < Claimed', status'[Slot(h)] = "complete"
        PROVE  writeHunk <= h /\ h < Claimed /\ status[Slot(h)] = "complete"
    <3>1. Slot(h) \in Slots
      BY SlotType
    <3>. QED  BY <1>1, <2>1, <2>3, <3>1
  <2>. QED  BY <2>1, <2>2, <2>3, DigestedKept
<1>5. CASE EndWalk
  <2>1. /\ UNCHANGED <<hash, packed, work>> /\ Claimed' = 0 /\ writeHunk' = 0
    BY <1>5, WalkEndsIdle DEF EndWalk
  <2>2. \A j \in Jobs : work[j] \notin Busy
    BY <1>5, RingReset
  <2>. QED  BY <2>1, <2>2 DEF Digested, Busy
<1>6. CASE ClaimHunk
  <2>1. /\ UNCHANGED <<hash, packed, walking, setup, currentMap, parentMap, writeHunk>>
        /\ Claimed = cur /\ Claimed' = cur + 1
        /\ status' = [status EXCEPT ![Slot(cur)] = "queued"]
        /\ work' = [work EXCEPT ![[walk |-> walking, hunk |-> cur]] = "listed"]
    BY <1>6 DEF ClaimHunk, shared, mapVars, Claimed
  <2>2. ASSUME NEW h \in Nat, writeHunk' <= h, h < Claimed', status'[Slot(h)] = "complete"
        PROVE  writeHunk <= h /\ h < Claimed /\ status[Slot(h)] = "complete"
    <3>1. Slot(h) \in Slots
      BY SlotType
    <3>2. h # cur /\ status[Slot(h)] = "complete"
      BY <1>1, <2>1, <2>2, <3>1
    <3>. QED  BY <1>1, <2>1, <2>2, <3>2
  <2>3. ASSUME NEW j \in Jobs, work'[j] \in {"compress", "complete"} PROVE work'[j] = work[j]
    BY <1>1, <2>1, <2>3
  <2>. QED  BY <2>1, <2>2, <2>3, DigestedKept
<1>7. CASE Reader /\ ReadMoves
  <2>1. /\ UNCHANGED <<hash, packed, walking, setup, currentMap, parentMap, writeHunk, status, work>>
        /\ Claimed' = Claimed
    BY <1>7 DEF Reader, BeginRead, ReadData, ReadFails, ClaimHunk, StoreItem, HashData, AdvanceRead,
       ReadMoves, slotVars, mapVars
  <2>. QED  BY <2>1, DigestedKept
<1>8. ASSUME NEW j \in Jobs, Work(j) PROVE Digested'
  <2>1. CASE TakeJob(j) \/ ItemDone(j)
    <3>1. /\ UNCHANGED <<hash, packed, walking, setup, currentMap, parentMap, writeHunk, status>>
          /\ Claimed' = Claimed
          /\ \E x \in {"hash", "done"} : work' = [work EXCEPT ![j] = x]
      BY <2>1 DEF TakeJob, ItemDone, Advance, WorkUnchanged, shared, mapVars, readVars, Claimed
    <3>2. ASSUME NEW k \in Jobs, work'[k] \in {"compress", "complete"} PROVE work'[k] = work[k]
      BY <1>1, <3>1, <3>2
    <3>. QED  BY <3>1, <3>2, DigestedKept
  <2>. QED  BY <1>8, <2>1, DigestedHashed, DigestedCompressed, DigestedMarked DEF Work
<1>. QED  BY <1>2, <1>3, <1>4, <1>5, <1>6, <1>7, <1>8, ReaderMoves DEF Next, Main, WriteNext

\* The hunk to write, when it is.
LEMMA ToWrite ==
  ASSUME Shape, Kept, Digested, main = "write"
  PROVE  /\ writeHunk \in Nat /\ writeHunk \in Hunks /\ hunknum[Slot(writeHunk)] = writeHunk
         /\ hash[Slot(writeHunk)] = Keys(writeHunk)
         /\ ~walking => buffer[Slot(writeHunk)] = Child[writeHunk] /\ Packed(writeHunk)
<1>1. writeHunk < Claimed /\ writeHunk \in Nat /\ status[Slot(writeHunk)] = "complete"
  BY WriteClaimed DEF Shape, Turns
<1>2. Claimed \in Nat /\ Loaded \in Nat /\ Claimed <= Loaded /\ Loaded <= HunkCount /\ HunkCount \in Nat
  BY RingFacts, Numbers DEF Shape, Offsets
<1>3. writeHunk \in Hunks /\ writeHunk < Loaded
  BY <1>1, <1>2 DEF Hunks
<1>4. hunknum[Slot(writeHunk)] = writeHunk
  BY <1>1 DEF Shape, Ringed
<1>5. ~walking => buffer[Slot(writeHunk)] = Child[writeHunk]
  BY <1>1, <1>3 DEF Kept
<1>6. hash[Slot(writeHunk)] = Keys(writeHunk) /\ (~walking => Packed(writeHunk))
  BY <1>1 DEF Digested
<1>. QED  BY <1>1, <1>3, <1>4, <1>5, <1>6

\* What a look into the map of hunks gives.
LEMMA LookedUp ==
  ASSUME NEW map, NEW key, Found(map, key)
  PROVE  \E e \in map : e.key = key /\ Lookup(map, key) = e.num
<1> DEFINE e == CHOOSE x \in map : x.key = key
<1>1. e \in map /\ e.key = key
  BY DEF Found
<1>. QED  BY <1>1 DEF Lookup

\* The maps, when they are added to.
LEMMA MappedWritten ==
  ASSUME Shape, Kept, Digested, Mapped, WriteNext \/ EndWalk PROVE Mapped'
<1> DEFINE w == writeHunk
           s == Slot(w)
<1>1. main = "write" /\ Record(s, w) /\ setup' = setup
  <2>1. main = "write" /\ Record(s, hunknum[s]) /\ setup' = setup
    BY DEF WriteNext, WriteHunk, WriteLast, EndWalk, readVars
  <2>. QED  BY <2>1, ToWrite
<1>2. /\ w \in Nat /\ w \in Hunks /\ hash[s] = Keys(w) /\ Units \in Nat \ {0}
  BY <1>1, ToWrite, DataFacts DEF Shape, Types, TypeOK
<1>3. HasParent' = HasParent /\ \A n : At(n)' = At(n)
  BY <1>1, SetupSame
<1>4. CASE walking
  <2>1. parentMap' = AddUnits(parentMap, w, hash[s]) /\ currentMap' = currentMap
    BY <1>1, <1>4 DEF Record
  <2>2. currentMap' = {}
    BY <1>4, <2>1 DEF Mapped
  <2>3. HasParent
    BY <1>4 DEF Shape, Reads
  <2>4. ASSUME NEW e \in parentMap' PROVE e.num \in Nat /\ e.key = At(e.num)
    <3>1. CASE e \in parentMap
      BY <3>1 DEF Mapped
    <3>2. CASE e \notin parentMap
      <4>1. PICK u \in 0..(Windows(w) - 1) : e = [key |-> hash[s][u + 1], num |-> w * Units + u]
        BY <2>1, <3>2 DEF AddUnits
      <4>2. u + 1 \in 1..Windows(w) /\ (u + 1) - 1 = u /\ u \in Nat
        BY <1>2 DEF Windows
      <4>3. w * Units + u \in Nat
        BY <1>2, <4>2
      <4>4. hash[s][u + 1] = At(w * Units + ((u + 1) - 1))
        BY <1>2, <1>4, <4>2 DEF Keys
      <4>. QED  BY <4>1, <4>2, <4>3, <4>4
    <3>. QED  BY <3>1, <3>2
  <2>5. ASSUME NEW e \in parentMap' PROVE e.num \in Nat /\ e.key = At(e.num)'
    <3> DEFINE n == e.num
    <3>. HIDE DEF n
    <3>1. At(n)' = At(n)
      BY <1>3
    <3>. QED  BY <2>4, <3>1 DEF n
  <2>. QED  BY <1>3, <2>2, <2>3, <2>5 DEF Mapped
<1>5. CASE ~walking
  <2>1. /\ parentMap' = parentMap /\ walking' = walking /\ writeHunk' = w + 1
        /\ currentMap' = currentMap \/ currentMap' = Add(currentMap, hash[s][1], w)
    BY <1>1, <1>5 DEF Record, Store, WriteNext, WriteHunk, WriteLast, EndWalk, shared
  <2>2. hash[s][1] = Child[w]
    BY <1>2, <1>5 DEF Keys
  <2>3. ASSUME NEW e \in currentMap' PROVE e.num \in Nat /\ e.num < w + 1 /\ e.key = Child[e.num]
    <3>1. CASE e \in currentMap
      <4>1. e.num \in Nat /\ e.num < w /\ e.key = Child[e.num]
        BY <3>1 DEF Mapped
      <4>. QED  BY <1>2, <4>1
    <3>2. CASE e \notin currentMap
      <4>1. e = [key |-> hash[s][1], num |-> w]
        BY <2>1, <3>2 DEF Add
      <4>. QED  BY <1>2, <2>2, <4>1
    <3>. QED  BY <3>1, <3>2
  <2>4. ASSUME NEW e \in parentMap' PROVE HasParent /\ e.num \in Nat /\ e.key = At(e.num)'
    <3> DEFINE n == e.num
    <3>1. HasParent /\ n \in Nat /\ e.key = At(n)
      BY <2>1 DEF Mapped
    <3>. HIDE DEF n
    <3>2. At(n)' = At(n)
      BY <1>3
    <3>. QED  BY <3>1, <3>2 DEF n
  <2>. QED  BY <1>3, <1>5, <2>1, <2>3, <2>4 DEF Mapped
<1>. QED  BY <1>4, <1>5

\* Only writing a hunk changes the maps and the output.
LEMMA OnlyWriting ==
  ASSUME Next, ~WriteNext, ~EndWalk
  PROVE  UNCHANGED <<setup, parentMap, currentMap, output, writeHunk, walking>>
<1>1. CASE Main
  BY <1>1 DEF WriteNext, Main, Continue, QueueRead, Flush, ReleaseItem, WriteFails, Finish, WaitForWork,
     mapVars, shared
<1>2. CASE Reader
  BY <1>2 DEF Reader, BeginRead, ReadData, ReadFails, ClaimHunk, StoreItem, HashData, AdvanceRead,
     mapVars, shared
<1>3. ASSUME NEW j \in Jobs, Work(j)
      PROVE  UNCHANGED <<setup, parentMap, currentMap, output, writeHunk, walking>>
  BY <1>3 DEF Work, TakeJob, HashHunk, CompressHunk, MarkComplete, ItemDone, WorkUnchanged, mapVars, shared
<1>. QED  BY <1>1, <1>2, <1>3 DEF Next, Ended, vars, mapVars, shared

LEMMA MappedStays ==
  ASSUME Shape, Kept, Digested, Mapped, Next PROVE Mapped'
<1>1. CASE ~WriteNext /\ ~EndWalk
  <2>1. UNCHANGED <<setup, parentMap, currentMap, writeHunk, walking>>
    BY <1>1, OnlyWriting
  <2>. QED  BY <2>1 DEF Mapped, HasParent, ParentCount, At, ParentData, Parent
<1>. QED  BY <1>1, MappedWritten

\* What is stored, when a hunk is.
LEMMA WrittenRight ==
  ASSUME Shape, Kept, Digested, Mapped, Written, WriteNext PROVE Written'
<1> DEFINE w == writeHunk
           s == Slot(w)
<1>1. main = "write" /\ Record(s, w) /\ UNCHANGED <<setup, walking>> /\ writeHunk' = w + 1
  <2>1. main = "write" /\ Record(s, hunknum[s]) /\ UNCHANGED <<setup, walking>> /\ writeHunk' = w + 1
    BY DEF WriteNext, WriteHunk, WriteLast, readVars, shared
  <2>. QED  BY <2>1, ToWrite
<1>2. /\ w \in Nat /\ w \in Hunks /\ hash[s] = Keys(w)
      /\ (~walking => buffer[s] = Child[w] /\ Packed(w)) /\ DOMAIN output = Hunks
  BY <1>1, ToWrite DEF Written
<1>3. CASE walking
  BY <1>1, <1>2, <1>3 DEF Record, Written
<1>4. CASE ~walking
  <2>1. hash[s][1] = Child[w]
    BY <1>2, <1>4 DEF Keys
  <2> DEFINE Fits(r) ==
               \/ r.how = "here" /\ r.data = Child[w]
               \/ r.how = "none" /\ ~Compressed /\ Child[w] = Blank
               \/ r.how = "self" /\ Compressed /\ r.from \in 0..(w - 1) /\ Child[r.from] = Child[w]
               \/ r.how = "parent" /\ Compressed /\ r.from \in Nat /\ At(r.from) = Child[w]
  <2>2. \E r : output' = [output EXCEPT ![w] = r] /\ Fits(r)
    <3>1. CASE ~Compressed
      <4> DEFINE r == Raw(buffer[s])
      <4>1. output' = [output EXCEPT ![w] = r]
        BY <1>1, <1>4, <3>1 DEF Record
      <4>2. Fits(r)
        BY <1>2, <1>4, <3>1 DEF Raw
      <4>. QED  BY <4>1, <4>2
    <3>2. CASE Compressed /\ Found(currentMap, Child[w])
      <4> DEFINE r == [how |-> "self", from |-> Lookup(currentMap, Child[w])]
      <4>1. output' = [output EXCEPT ![w] = r]
        BY <1>1, <1>4, <2>1, <3>2 DEF Record, Store
      <4>2. PICK e \in currentMap : e.key = Child[w] /\ Lookup(currentMap, Child[w]) = e.num
        BY <3>2, LookedUp
      <4>3. e.num \in 0..(w - 1) /\ Child[e.num] = Child[w]
        BY <1>2, <4>2 DEF Mapped
      <4>4. Fits(r)
        BY <3>2, <4>2, <4>3
      <4>. QED  BY <4>1, <4>4
    <3>3. CASE Compressed /\ ~Found(currentMap, Child[w]) /\ Found(parentMap, Child[w])
      <4> DEFINE r == [how |-> "parent", from |-> Lookup(parentMap, Child[w])]
      <4>1. PICK e \in parentMap : e.key = Child[w] /\ Lookup(parentMap, Child[w]) = e.num
        BY <3>3, LookedUp
      <4>2. HasParent /\ e.num \in Nat /\ At(e.num) = Child[w]
        BY <4>1 DEF Mapped
      <4>3. output' = [output EXCEPT ![w] = r]
        BY <1>1, <1>4, <2>1, <3>3, <4>2 DEF Record, Store
      <4>4. Fits(r)
        BY <3>3, <4>1, <4>2
      <4>. QED  BY <4>3, <4>4
    <3>4. CASE Compressed /\ ~Found(currentMap, Child[w]) /\ ~Found(parentMap, Child[w])
      <4> DEFINE r == [how |-> "here", data |-> packed[s]]
      <4>1. output' = [output EXCEPT ![w] = r]
        BY <1>1, <1>4, <2>1, <3>4 DEF Record, Store
      <4>2. packed[s] = Child[w]
        BY <1>2, <1>4, <3>4 DEF Packed
      <4>3. Fits(r)
        BY <4>2
      <4>. QED  BY <4>1, <4>3
    <3>. QED  BY <3>1, <3>2, <3>3, <3>4
  <2>3. PICK r : output' = [output EXCEPT ![w] = r] /\ Fits(r)
    BY <2>2
  <2>. HIDE DEF w, s
  <2>4. ASSUME NEW h \in Nat, h < w + 1 PROVE Right(h)'
    <3>1. CASE h = w
      <4>1. output'[h] = r
        BY <1>2, <2>3, <3>1
      <4>. QED  BY <1>1, <2>3, <3>1, <4>1 DEF Right, At, ParentData, Parent, Compressed
    <3>2. CASE h # w
      <4>1. output'[h] = output[h]
        BY <2>3, <3>2
      <4>2. h < w
        BY <1>2, <2>4, <3>2
      <4>3. Right(h)
        BY <1>4, <4>2 DEF Written, w
      <4>. QED  BY <1>1, <4>1, <4>3 DEF Right, At, ParentData, Parent, Compressed
    <3>. QED  BY <3>1, <3>2
  <2>5. DOMAIN output' = Hunks
    BY <1>2, <2>3
  <2>. QED  BY <1>1, <2>4, <2>5 DEF Written, w
<1>. QED  BY <1>3, <1>4

LEMMA StoredStays ==
  ASSUME Inv, Stored, Idle, Covered, Next PROVE Stored'
<1>1. Held' /\ Digested' /\ Mapped'
  BY HeldStays, DigestedStays, MappedStays DEF Stored, Inv
<1>2. Written'
  <2>1. CASE WriteNext
    BY <2>1, WrittenRight DEF Stored, Inv
  <2>2. CASE EndWalk
    <3>1. writeHunk' = 0 /\ output' = output
      BY <2>2 DEF EndWalk, Record, Inv, Shape, Stored, Reads
    <3>. QED  BY <3>1 DEF Stored, Written
  <2>3. CASE ~WriteNext /\ ~EndWalk
    <3>1. UNCHANGED <<setup, output, writeHunk, walking>>
      BY <2>3, OnlyWriting
    <3>. QED  BY <3>1, ZenonT(30) DEF Stored, Written, Right, At, ParentData, Parent, Compressed
  <2>. QED  BY <2>1, <2>2, <2>3
<1>. QED  BY <1>1, <1>2 DEF Stored

LEMMA StoredBegins ==
  ASSUME Init PROVE Stored
<1>1. /\ setup \in Setups /\ writeHunk = 0 /\ parentMap = {} /\ currentMap = {}
      /\ hash = [s \in Slots |-> <<>>] /\ packed = [s \in Slots |-> Blank]
      /\ status = [s \in Slots |-> "ready"] /\ work = [j \in Jobs |-> "none"]
      /\ output = [h \in Hunks |-> [how |-> "none"]]
      /\ buffer = [s \in 0..Ring |-> Blank]
  BY DEF Init
<1>2. Held
  BY <1>1, DataFacts DEF Held
<1>3. Digested
  <2>1. ASSUME NEW h \in Nat PROVE status[Slot(h)] # "complete"
    <3>1. Slot(h) \in Slots
      BY SlotType
    <3>. QED  BY <1>1, <3>1
  <2>. QED  BY <1>1, <2>1 DEF Digested
<1>4. Mapped /\ Written
  BY <1>1 DEF Mapped, Written
<1>. QED  BY <1>2, <1>3, <1>4 DEF Stored

\* A non-empty set of natural numbers has a least element.
LEMMA LeastOf ==
  ASSUME NEW T, T \subseteq Nat, T # {}
  PROVE  \E x \in T : \A y \in T : x <= y
<1>1. PICK x \in T : \A y \in T : ~(<<y, x>> \in OpToRel(<, Nat))
  BY NatLessThanWellFounded, WFMin
<1>2. OpToRel(<, Nat) = {ss \in Nat \X Nat : ss[1] < ss[2]}
  BY Zenon DEF OpToRel
<1>3. ASSUME NEW y \in T, y < x PROVE FALSE
  <2>1. <<y, x>> \in Nat \X Nat /\ <<y, x>>[1] = y /\ <<y, x>>[2] = x
    OBVIOUS
  <2>. QED  BY <1>1, <1>2, <1>3, <2>1
<1>. QED  BY <1>3

\* When what is stored for each hunk is the hunk, it is read back, unless it is zeros that
\* the parent has something else for: a copy leads to an earlier hunk, which is not raw.
LEMMA ReadsBack ==
  ASSUME NEW h \in Nat, \A n \in 0..h : Right(n), ~Shadowed(h)
  PROVE  ReadBack(h) = Child[h]
<1> DEFINE IsIt(f) == f = [n \in 0..h |-> Reading(f, n)]
           f == CHOOSE g : IsIt(g)
           raw(n) == IF output[n].how = "here" THEN output[n].data ELSE Hole(n)
           c == [n \in 0..h |-> IF Shadowed(n) THEN raw(n) ELSE Child[n]]
<1>1. ReadBack(h) = f[h]
  BY DEF ReadBack
<1>2. ASSUME NEW n \in 0..h, NEW g, ~Shadowed(n), \A m \in 0..(n - 1) : Shadowed(m) \/ g[m] = Child[m]
      PROVE  Reading(g, n) = Child[n]
  <2>1. Right(n)
    OBVIOUS
  <2>2. CASE output[n].how = "here" /\ output[n].data = Child[n]
    BY <2>2 DEF Reading
  <2>3. CASE output[n].how = "none" /\ ~Compressed /\ Child[n] = Blank
    BY <1>2, <2>3 DEF Reading, Shadowed, Hole
  <2>4. CASE /\ output[n].how = "self" /\ Compressed
             /\ output[n].from \in 0..(n - 1) /\ Child[output[n].from] = Child[n]
    <3>1. output[n].from < n /\ g[output[n].from] = Child[output[n].from]
      BY <1>2, <2>4 DEF Shadowed
    <3>. QED  BY <2>4, <3>1 DEF Reading
  <2>5. CASE output[n].how = "parent" /\ At(output[n].from) = Child[n]
    BY <2>5 DEF Reading
  <2>. QED  BY <2>1, <2>2, <2>3, <2>4, <2>5 DEF Right
<1>3. ASSUME NEW n \in 0..h, NEW g, Shadowed(n) PROVE Reading(g, n) = raw(n)
  <2>1. ~Compressed /\ Right(n)
    BY <1>3 DEF Shadowed
  <2>2. CASE output[n].how = "here"
    BY <2>2 DEF Reading
  <2>3. CASE output[n].how = "none"
    BY <2>1, <2>3 DEF Reading
  <2>. QED  BY <2>1, <2>2, <2>3 DEF Right
<1>4. IsIt(c)
  <2>1. ASSUME NEW n \in 0..h PROVE Reading(c, n) = IF Shadowed(n) THEN raw(n) ELSE Child[n]
    BY <1>2, <1>3
  <2>. QED  BY <2>1
<1>5. IsIt(f)
  BY <1>4
<1>. HIDE DEF f, c
<1>6. \A n \in 0..h : f[n] = Reading(f, n)
  BY <1>5
<1> DEFINE T == {n \in 0..h : ~Shadowed(n) /\ f[n] # Child[n]}
<1>7. ASSUME T # {} PROVE FALSE
  <2>1. PICK x \in T : \A y \in T : x <= y
    <3>1. T \subseteq Nat
      OBVIOUS
    <3>. HIDE DEF T
    <3>. QED  BY <1>7, <3>1, LeastOf
  <2>2. \A m \in 0..(x - 1) : Shadowed(m) \/ f[m] = Child[m]
    <3>1. ASSUME NEW m \in 0..(x - 1), ~Shadowed(m), f[m] # Child[m] PROVE FALSE
      <4>1. m \in T /\ m < x
        BY <3>1
      <4>. QED  BY <2>1, <4>1
    <3>. QED  BY <3>1
  <2>3. Reading(f, x) = Child[x]
    BY <1>2, <2>2
  <2>. QED  BY <1>6, <2>3
<1>. QED  BY <1>1, <1>7

\* When the parent has what is read of it: what is hashed, compressed, mapped and stored,
\* whether raw, where zeros are not stored, or compressed.
THEOREM StoredInvariance == Spec /\ (HasParent => WalkWaits) => [](Covered => Inv /\ Stored)
<1> DEFINE S == Covered => Stored
<1>1. Init => S
  BY StoredBegins
<1>2. S /\ Inv /\ [Next]_vars /\ [EndWalk => reads = 0]_vars => S'
  <2>1. ASSUME S, Inv, Next, Idle PROVE S'
    <3>1. SUFFICES ASSUME Covered' PROVE Stored'
      OBVIOUS
    <3>2. Covered
      BY <2>1, <3>1, SetupStays, SetupSame
    <3>. QED  BY <2>1, <3>2, StoredStays
  <2>2. ASSUME S, UNCHANGED vars PROVE S'
    <3>1. setup' = setup
      BY <2>2 DEF vars, mapVars
    <3>2. Covered' = Covered
      BY <3>1, SetupSame
    <3>3. ASSUME Stored PROVE Stored'
      <4>1. /\ UNCHANGED <<buffer, hash, packed, status, work, writeHunk, walking, currentMap,
                           parentMap, output, setup>> /\ Claimed' = Claimed
        BY <2>2 DEF vars, shared, slotVars, mapVars, readVars, Claimed
      <4>2. Held' /\ Mapped' /\ Written'
        BY <3>3, <4>1, ZenonT(30) DEF Stored, Held, Mapped, Written, Right, At, ParentData, Parent, HasParent,
           ParentCount, Compressed
      <4>3. Digested'
        BY <3>3, <4>1, DigestedKept DEF Stored
      <4>. QED  BY <4>2, <4>3 DEF Stored
    <3>. QED  BY <2>2, <3>2, <3>3
  <2>. QED  BY <2>1, <2>2 DEF Idle
<1>3. S /\ Inv => (Covered => Inv /\ Stored)
  OBVIOUS
<1>. QED  BY <1>1, <1>2, <1>3, Invariance, NoWalk, PTL DEF Spec, WalkWaits

\* Every hunk written reads back as the hunk that was to be stored (compress_continue,
\* async_compress_hunk): the worker and the writer, which look into the maps at different
\* times, agree on whether it was compressed; it comes from the right place in the ring;
\* and a copy of the parent's units is "same as a hunk's worth of units in the parent chd"
\* (chd.cpp:73).  With a parent, if it has all the hunks that the walk over it reads and no
\* read is under way when that ends; and but for zeros that are not stored raw (write_hunk,
\* chd.cpp:1037-1051) where the parent has something else.
THEOREM ReadsBackRight == Spec /\ (HasParent => WalkWaits) => [](Covered => StoredRight)
<1>1. ASSUME Inv, Stored PROVE StoredRight
  <2>1. SUFFICES ASSUME ~walking, NEW h \in 0..(writeHunk - 1), ~Shadowed(h)
                 PROVE  ReadBack(h) = Child[h]
    BY DEF StoredRight
  <2>2. writeHunk \in Nat
    BY <1>1, Numbers DEF Inv, Shape
  <2>3. h \in Nat /\ \A n \in 0..h : n \in Nat /\ n < writeHunk
    BY <2>2
  <2>4. \A n \in 0..h : Right(n)
    BY <1>1, <2>1, <2>3 DEF Stored, Written
  <2>. QED  BY <2>1, <2>3, <2>4, ReadsBack
<1>2. (Covered => Inv /\ Stored) => (Covered => StoredRight)
  BY <1>1
<1>. QED  BY <1>2, StoredInvariance, PTL
================================================================================
