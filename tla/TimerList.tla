------------------------------ MODULE TimerList ------------------------------
(***************************************************************************)
(* The timer list of device_scheduler (src/emu/schedule.cpp, emu_timer and *)
(* the timer_list_* members).  All operators are pure: they map the timer  *)
(* state ts, a record with the m_timer_list order and the fields of every  *)
(* emu_timer the list operations read, to the state after the call.        *)
(*                                                                         *)
(* m_start, m_param and the callback's identity are left out: no list      *)
(* operation reads them.                                                   *)
(***************************************************************************)
EXTENDS Attotime, SequencesExt

CONSTANTS Timers,      \* the emu_timer objects of the allocator
          Anonymous,   \* those used for temporary timers (m_temporary)
          Sentinel     \* the never-expiring timer of the constructor

ASSUME TimerAssumption ==
  /\ Anonymous \subseteq Timers
  /\ Sentinel \in Anonymous

TimerState == [list    : Seq(Timers),
               enabled : [Timers -> BOOLEAN],
               period  : [Timers -> Time],
               expire  : [Timers -> Time]]

Queued(ts) == {ts.list[i] : i \in 1..Len(ts.list)}

\* where timer_list_insert sorts a timer: a disabled one goes to the end
SortKey(ts, t) == IF ts.enabled[t] THEN ts.expire[t] ELSE Never

-----------------------------------------------------------------------------
(* timer_list_insert compares the key with the RAW m_expire of the entries. *)

\* mutant: a timer goes before those with the same deadline
LaterOrSame(ts, k) == {i \in 1..Len(ts.list) : ts.expire[ts.list[i]] >= k}

Later(ts, k) == {i \in 1..Len(ts.list) : ts.expire[ts.list[i]] > k}

\* mutant: the search goes from the end and stops at the first later timer
InsertPosFromEnd(ts, k) ==
  IF Later(ts, k) = {} THEN Len(ts.list) + 1
                       ELSE CHOOSE i \in Later(ts, k) : \A j \in Later(ts, k) : j <= i

InsertPos(ts, k) ==
  IF Later(ts, k) = {} THEN Len(ts.list) + 1
                       ELSE CHOOSE i \in Later(ts, k) : \A j \in Later(ts, k) : i <= j

Insert(ts, t) == [ts EXCEPT !.list = InsertAt(@, InsertPos(ts, SortKey(ts, t)), t)]

Position(ts, t) == CHOOSE i \in 1..Len(ts.list) : ts.list[i] = t

Unlink(ts, t) == [ts EXCEPT !.list = RemoveAt(@, Position(ts, t))]

Reinsert(ts, t) == Insert(Unlink(ts, t), t)

-----------------------------------------------------------------------------
(* emu_timer's operations.                                                 *)

InitTimer(ts, t) ==
  Insert([ts EXCEPT !.enabled[t] = FALSE, !.period[t] = Never, !.expire[t] = Never], t)

\* mutant: only a timer that is disabled is sorted again
EnableInPlace(ts, t, on) ==
  IF ts.enabled[t] = on THEN ts
  ELSE IF on THEN [ts EXCEPT !.enabled[t] = TRUE] ELSE Reinsert([ts EXCEPT !.enabled[t] = FALSE], t)

Enable(ts, t, on) ==
  IF ts.enabled[t] = on THEN ts ELSE Reinsert([ts EXCEPT !.enabled[t] = on], t)

\* mutant: a delay may be negative
ClampNothing(delay) == delay

ClampDelay(delay) == IF delay < 0 THEN 0 ELSE delay

Adjust(ts, t, now, delay, period) ==
  Reinsert([ts EXCEPT !.enabled[t] = TRUE,
                      !.expire[t]  = Plus(now, ClampDelay(delay)),
                      !.period[t]  = period], t)

\* timer_set: an anonymous one-shot timer, initialised and started in one call
SetTimer(ts, t, now, delay) == Adjust(InitTimer(ts, t), t, now, delay, Never)

OneShot(ts, t) == ts.period[t] \in {0, Never}

\* mutant: the timer is not sorted again
NextPeriodInPlace(ts, t) == [ts EXCEPT !.expire[t] = Plus(@, ts.period[t])]

ScheduleNextPeriod(ts, t) ==
  Reinsert([ts EXCEPT !.expire[t] = Plus(@, ts.period[t])], t)

\* execute_timers, before the callback: a one-shot head is disabled in place
DisarmHead(ts) == [ts EXCEPT !.enabled[Head(ts.list)] = @ /\ ~OneShot(ts, Head(ts.list))]

\* mutant: a one-shot timer is removed once it has fired, whoever owns it
RetireOneShot(ts, t) ==
  IF t \in Anonymous \/ OneShot(ts, t) THEN Unlink(ts, t) ELSE ScheduleNextPeriod(ts, t)

\* execute_timers, after a callback that left its timer unmodified
Retire(ts, t) == IF t \in Anonymous THEN Unlink(ts, t) ELSE ScheduleNextPeriod(ts, t)

\* a live temporary timer: what keeps can_save from succeeding, and what
\* postload throws away
LiveAnonymous(ts, t) == t \in Anonymous /\ ts.expire[t] # Never

CanSave(ts) == \A t \in Queued(ts) : ~LiveAnonymous(ts, t)

-----------------------------------------------------------------------------
(* The list invariant: no entry's raw expiry is later than the key of an   *)
(* entry behind it.  It is weaker than "sorted by key" (a one-shot timer   *)
(* disabled in place keeps its position) and is what insertion preserves.  *)

Distinct(ts) == \A i, j \in 1..Len(ts.list) : ts.list[i] = ts.list[j] => i = j

Ordered(ts) == \A i, j \in 1..Len(ts.list) :
                 i < j => ts.expire[ts.list[i]] <= SortKey(ts, ts.list[j])

WellFormed(ts) == ts \in TimerState /\ Distinct(ts) /\ Ordered(ts)

=============================================================================
