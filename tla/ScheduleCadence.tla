--------------------------- MODULE ScheduleCadence ---------------------------
(***************************************************************************)
(* The pure parts of scheduling: NextAnchored for interval schedules, what *)
(* Recorder.RecordDue makes of a due time, and how the statuses of the     *)
(* tasks of an occurrence become the status of the occurrence.  Times are  *)
(* whole numbers of one unit; the calendar schedules are left out.         *)
(***************************************************************************)
EXTENDS Integers, FiniteSets

(* Go's integer division truncates towards zero.                           *)
Quotient(n, d) == IF n >= 0 THEN n \div d ELSE -((-n) \div d)

NextAnchored(interval, anchor, after) ==
  IF after < anchor
  THEN anchor + interval
  ELSE anchor + (Quotient(after - anchor, interval) + 1) * interval

(* RecordDue: only the newest due time runs, and only if it is not too old.*)
CanRun(scheduledAt, following, now, window, tolerance) ==
  /\ following > now
  /\ now - scheduledAt <= IF window > tolerance THEN window ELSE tolerance

-----------------------------------------------------------------------------

TaskStatuses == {"success", "partial", "failed", "cancelled", "skipped"}

Count(statuses, s) == Cardinality({t \in DOMAIN statuses : statuses[t] = s})

All(statuses, s) == Count(statuses, s) = Cardinality(DOMAIN statuses)

(* aggregateScheduleStatuses.                                              *)
Aggregate(statuses) ==
  CASE DOMAIN statuses = {} -> "failed"
    [] Count(statuses, "partial") > 0 -> "partial"
    [] OTHER ->
       IF \E s \in TaskStatuses : All(statuses, s)
       THEN CHOOSE s \in TaskStatuses : All(statuses, s)
       ELSE IF Count(statuses, "success") > 0 THEN "partial"
       ELSE IF Count(statuses, "failed") > 0 THEN "failed"
       ELSE "cancelled"

=============================================================================
