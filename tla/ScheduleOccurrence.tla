------------------------- MODULE ScheduleOccurrence -------------------------
(***************************************************************************)
(* Scheduled work: the dispatchers of plans and of repository maintenance, *)
(* which both record what is due with schedule.Recorder, claim it and run  *)
(* it in a goroutine, and the rows of schedule_occurrences.  (A policy of  *)
(* maintenance is a plan with one target.)                                 *)
(*                                                                         *)
(* A tick reads the plans once, before it takes the dispatcher's mutex,    *)
(* and then makes one statement per due time and per claim; plans may be   *)
(* edited, statements fail and the service stop between any two of them.   *)
(*                                                                         *)
(* Abstracted: an id is the pair of plan and due time it is the hash of;   *)
(* schedules are intervals in units of time (the calendar schedules differ *)
(* in NextAnchored only); how the tasks of an occurrence ended is "ended"  *)
(* (Aggregate of ScheduleCadence says what the row then shows).            *)
(***************************************************************************)
EXTENDS ScheduleCadence

CONSTANTS
  Dispatchers,  \* one in a service; tests run two on one store
  Plans,
  Targets,      \* tasks of a plan
  MaxParallel,  \* Plan.MaxParallel, at least 1
  Intervals,    \* intervals a plan can be given
  Window,       \* CatchUpWindowMinutes of each plan
  Tolerance,    \* OnlineTolerance
  MaxPerTick,   \* MaxOccurrencesPerTick
  Horizon,      \* bound on time, for TLC
  MaxRestarts, MaxFaults, MaxEdits,  \* bounds, for TLC
  None

ASSUME ParametersAssumption ==
  /\ IsFiniteSet(Targets) /\ Targets # {}
  /\ MaxParallel \in Nat \ {0} /\ Intervals \subseteq Nat \ {0}
  /\ Window \in [Plans -> Nat] /\ Tolerance \in Nat /\ MaxPerTick \in Nat \ {0}
  /\ Horizon \in Nat /\ MaxRestarts \in Nat /\ MaxFaults \in Nat /\ MaxEdits \in Nat
  /\ None \notin Plans

Times == 0..Horizon

VARIABLES
  now,
  plan,      \* the row of each plan: enabled, anchor, interval
  occ,       \* status of the row of each plan and due time, or "none"
  launches,  \* times each occurrence was handed to a goroutine
  task,      \* where each task of a launched occurrence is
  phase,     \* where Tick of each dispatcher is
  tick,      \* its local variables
  stopping,  \* the context is done: the service shuts down
  restarts, faults, edits

bounds == <<restarts, faults, edits>>
vars == <<now, plan, occ, launches, task, phase, tick, stopping, bounds>>

PlanRows == [enabled : BOOLEAN, anchor : Times, interval : Intervals]

NoTick == [observed |-> 0, rows |-> [p \in Plans |-> [enabled |-> FALSE]], todo |-> {},
           current |-> None, cursor |-> 0, count |-> 0, runnable |-> {}]

TypeOK ==
  /\ now \in Times
  /\ plan \in [Plans -> PlanRows]
  /\ occ \in [Plans -> [Times -> {"none", "pending", "running", "missed", "interrupted", "ended"}]]
  /\ launches \in [Plans -> [Times -> Nat]]
  /\ task \in [Plans -> [Times -> [Targets -> {"none", "waiting", "running", "done"}]]]
  /\ phase \in [Dispatchers -> {"idle", "planning", "recording", "claiming"}]
  /\ \A d \in Dispatchers :
       /\ tick[d].todo \subseteq Plans /\ tick[d].runnable \subseteq Times
       /\ tick[d].current \in Plans \cup {None}
       /\ tick[d].observed \in 0..now
       /\ phase[d] # "idle" => tick[d].rows \in [Plans -> PlanRows]
       /\ phase[d] \in {"recording", "claiming"} =>
            tick[d].current # None /\ tick[d].cursor \in 0..now
  /\ stopping \in BOOLEAN
  /\ restarts \in 0..MaxRestarts /\ faults \in 0..MaxFaults /\ edits \in 0..MaxEdits

Init ==
  /\ now = 0
  /\ plan \in [Plans -> {[enabled |-> TRUE, anchor |-> 0, interval |-> i] : i \in Intervals}]
  /\ occ = [p \in Plans |-> [t \in Times |-> "none"]]
  /\ launches = [p \in Plans |-> [t \in Times |-> 0]]
  /\ task = [p \in Plans |-> [t \in Times |-> [k \in Targets |-> "none"]]]
  /\ phase = [d \in Dispatchers |-> "idle"]
  /\ tick = [d \in Dispatchers |-> NoTick]
  /\ stopping = FALSE
  /\ restarts = 0 /\ faults = 0 /\ edits = 0

-----------------------------------------------------------------------------

Advance ==
  /\ now < Horizon
  /\ now' = now + 1
  /\ UNCHANGED <<plan, occ, launches, task, phase, tick, stopping, bounds>>

(* UpdatePlan: the anchor moves when the schedule changes or the plan is   *)
(* enabled again.                                                          *)
EditPlan(p) ==
  /\ edits < MaxEdits
  /\ edits' = edits + 1
  /\ \E e \in BOOLEAN, i \in Intervals :
       plan' = [plan EXCEPT ![p] =
         [enabled |-> e, interval |-> i,
          anchor |-> IF i # @.interval \/ (e /\ ~@.enabled) THEN now ELSE @.anchor]]
  /\ UNCHANGED <<now, occ, launches, task, phase, tick, stopping, restarts, faults>>

(* A statement that fails: the store does, or the context is done.         *)
StatementFails ==
  \/ stopping /\ UNCHANGED bounds
  \/ faults < MaxFaults /\ faults' = faults + 1 /\ UNCHANGED <<restarts, edits>>

-----------------------------------------------------------------------------
(* Dispatcher.Tick.                                                        *)

BeginTick(d) ==
  /\ phase[d] = "idle" /\ ~stopping
  /\ phase' = [phase EXCEPT ![d] = "planning"]
  /\ tick' = [tick EXCEPT ![d] = [NoTick EXCEPT !.observed = now, !.rows = plan,
                                    !.todo = {p \in Plans : plan[p].enabled}]]
  /\ UNCHANGED <<now, plan, occ, launches, task, stopping, bounds>>

Recorded(p, anchor) == {t \in Times : t >= anchor /\ occ[p][t] # "none"}

Newest(S) == CHOOSE t \in S : \A u \in S : u <= t

StartCursor_Recent(d, p) ==                \* mutant: a long absence is cut short
  IF tick[d].observed > 0 THEN tick[d].observed - 1 ELSE 0

(* LatestScheduleOccurrence, or the anchor.                                *)
StartCursor(d, p) ==
  LET anchor == tick[d].rows[p].anchor
      recorded == Recorded(p, anchor)
  IN  IF recorded = {} THEN anchor ELSE Newest(recorded)

TakePlan(d, p) ==
  /\ phase[d] = "planning"
  /\ p \in tick[d].todo
  /\ phase' = [phase EXCEPT ![d] = "recording"]
  /\ tick' = [tick EXCEPT ![d].todo = @ \ {p}, ![d].current = p,
                          ![d].cursor = StartCursor(d, p),
                          ![d].count = 0, ![d].runnable = {}]
  /\ UNCHANGED <<now, plan, occ, launches, task, stopping, bounds>>

Due(d, p, after) ==
  NextAnchored(tick[d].rows[p].interval, tick[d].rows[p].anchor, after)

DueNow(d, t) == t <= tick[d].observed

Runnable_NotNewest(d, p, t) ==   \* mutant: following is not looked at
  tick[d].observed - t <= Window[p]

Runnable(d, p, t) == CanRun(t, Due(d, p, t), tick[d].observed, Window[p], Tolerance)

Insert_Replace(p, t) == TRUE     \* mutant: INSERT OR REPLACE

(* INSERT OR IGNORE inserts only what is not there.                        *)
Insert(p, t) == occ[p][t] = "none"

(* One iteration of RecordDue.                                             *)
RecordDue(d) ==
  LET p == tick[d].current
      t == Due(d, p, tick[d].cursor)
      runnable == Runnable(d, p, t)
  IN
  /\ phase[d] = "recording"
  /\ DueNow(d, t) /\ tick[d].count < MaxPerTick
  /\ IF Insert(p, t)
     THEN occ' = [occ EXCEPT ![p][t] = IF runnable THEN "pending" ELSE "missed"]
     ELSE UNCHANGED occ
  /\ tick' = [tick EXCEPT ![d].cursor = t, ![d].count = @ + 1,
                          ![d].runnable = IF Insert(p, t) /\ runnable THEN @ \cup {t} ELSE @]
  /\ UNCHANGED <<now, plan, launches, task, phase, stopping, bounds>>

EndRecording(d) ==
  /\ phase[d] = "recording"
  /\ \/ ~DueNow(d, Due(d, tick[d].current, tick[d].cursor))
     \/ tick[d].count = MaxPerTick
  /\ phase' = [phase EXCEPT ![d] = "claiming"]
  /\ UNCHANGED <<now, plan, occ, launches, task, tick, stopping, bounds>>

Oldest(S) == CHOOSE t \in S : \A u \in S : t <= u

(* ClaimScheduleOccurrence, and the goroutine of executeOccurrence.        *)
Claim(d) ==
  LET p == tick[d].current
      t == Oldest(tick[d].runnable)
  IN
  /\ phase[d] = "claiming" /\ tick[d].runnable # {}
  /\ tick' = [tick EXCEPT ![d].runnable = @ \ {t}]
  /\ IF occ[p][t] = "pending"
     THEN /\ occ' = [occ EXCEPT ![p][t] = "running"]
          /\ launches' = [launches EXCEPT ![p][t] = @ + 1]
          /\ task' = [task EXCEPT ![p][t] = [k \in Targets |-> "waiting"]]
     ELSE UNCHANGED <<occ, launches, task>>
  /\ UNCHANGED <<now, plan, phase, stopping, bounds>>

EndClaims(d) ==
  /\ phase[d] = "claiming" /\ tick[d].runnable = {}
  /\ phase' = [phase EXCEPT ![d] = "planning"]
  /\ UNCHANGED <<now, plan, occ, launches, task, tick, stopping, bounds>>

(* A tick that is through, or that an error ends for all remaining plans.  *)
EndTick(d) ==
  /\ \/ phase[d] = "planning" /\ tick[d].todo = {} /\ UNCHANGED bounds
     \/ phase[d] # "idle" /\ StatementFails
  /\ phase' = [phase EXCEPT ![d] = "idle"]
  /\ tick' = [tick EXCEPT ![d] = NoTick]
  /\ UNCHANGED <<now, plan, occ, launches, task, stopping>>

-----------------------------------------------------------------------------
(* executeOccurrence.                                                      *)

RunningTasks(p, t) == {k \in Targets : task[p][t][k] = "running"}

Permitted(p, t) == Cardinality(RunningTasks(p, t)) < MaxParallel

StartTask(p, t, k) ==
  /\ task[p][t][k] = "waiting"
  /\ Permitted(p, t)
  /\ task' = [task EXCEPT ![p][t][k] = "running"]
  /\ UNCHANGED <<now, plan, occ, launches, phase, tick, stopping, bounds>>

(* The runner returns, or the context ends the wait for the semaphore.     *)
EndTask(p, t, k) ==
  /\ task[p][t][k] = "running" \/ (stopping /\ task[p][t][k] = "waiting")
  /\ task' = [task EXCEPT ![p][t][k] = "done"]
  /\ UNCHANGED <<now, plan, occ, launches, phase, tick, stopping, bounds>>

Ended(p, t) == \A k \in Targets : task[p][t][k] = "done"

Clear(p, t) == task' = [task EXCEPT ![p][t] = [k \in Targets |-> "none"]]

(* The error of FinishScheduleOccurrence is dropped; its context does not  *)
(* end with the service.                                                   *)
Finish(p, t) ==
  /\ Ended(p, t)
  /\ \/ occ' = [occ EXCEPT ![p][t] = IF @ = "running" THEN "ended" ELSE @] /\ UNCHANGED bounds
     \/ /\ faults < MaxFaults /\ faults' = faults + 1
        /\ UNCHANGED <<occ, restarts, edits>>
  /\ Clear(p, t)
  /\ UNCHANGED <<now, plan, launches, phase, tick, stopping>>

-----------------------------------------------------------------------------

Shutdown ==
  /\ restarts < MaxRestarts
  /\ ~stopping
  /\ stopping' = TRUE
  /\ UNCHANGED <<now, plan, occ, launches, task, phase, tick, bounds>>

Recovered_RunningOnly(s) ==      \* mutant: pending rows are left
  IF s = "running" THEN "interrupted" ELSE s

(* RecoverInterruptedScheduleOccurrences.                                  *)
Recovered(s) == IF s \in {"pending", "running"} THEN "interrupted" ELSE s

(* The service is started again, after a shutdown or a crash.              *)
Restart ==
  /\ restarts < MaxRestarts
  /\ restarts' = restarts + 1
  /\ occ' = [p \in Plans |-> [t \in Times |-> Recovered(occ[p][t])]]
  /\ task' = [p \in Plans |-> [t \in Times |-> [k \in Targets |-> "none"]]]
  /\ phase' = [d \in Dispatchers |-> "idle"]
  /\ tick' = [d \in Dispatchers |-> NoTick]
  /\ stopping' = FALSE
  /\ UNCHANGED <<now, plan, launches, faults, edits>>

Next ==
  \/ Advance
  \/ \E d \in Dispatchers :
       \/ BeginTick(d) \/ RecordDue(d) \/ EndRecording(d) \/ Claim(d)
       \/ EndClaims(d) \/ EndTick(d)
       \/ \E p \in Plans : TakePlan(d, p)
  \/ \E p \in Plans : EditPlan(p)
  \/ \E p \in Plans, t \in Times :
       \/ Finish(p, t)
       \/ \E k \in Targets : StartTask(p, t, k) \/ EndTask(p, t, k)
  \/ Shutdown \/ Restart

Spec == Init /\ [][Next]_vars

(* The ticker ticks, goroutines run and task runs come to an end; a        *)
(* service that shuts down is started again.                               *)
Fairness ==
  /\ WF_vars(Restart /\ stopping)
  /\ \A d \in Dispatchers :
       /\ WF_vars(BeginTick(d)) /\ WF_vars(RecordDue(d)) /\ WF_vars(EndRecording(d))
       /\ WF_vars(Claim(d)) /\ WF_vars(EndClaims(d)) /\ WF_vars(EndTick(d))
       /\ \A p \in Plans : WF_vars(TakePlan(d, p))
  /\ \A p \in Plans :
       /\ \A t \in Times :
            /\ WF_vars(Finish(p, t))
            /\ \A k \in Targets : WF_vars(StartTask(p, t, k)) /\ WF_vars(EndTask(p, t, k))

FairSpec == Spec /\ Fairness

-----------------------------------------------------------------------------
(* Properties.                                                             *)

(* The occurrence of a due time is run at most once, whatever restarts,    *)
(* edits and failures fall between recording, claiming and finishing it.   *)
AtMostOncePerDue == \A p \in Plans, t \in Times : launches[p][t] <= 1

(* Due times are recorded without gaps: when one is there, so are all the  *)
(* earlier ones of the schedule since its anchor, run or missed; a tick    *)
(* that fails half-way or records its maximum loses none.                  *)
NoGaps ==
  \A p \in Plans :
    LET recorded == Recorded(p, plan[p].anchor) IN
    \A t \in recorded, d \in Times :
      /\ plan[p].anchor < d /\ d < t
      /\ (d - plan[p].anchor) % plan[p].interval = 0
      => d \in recorded

(* A row that is not terminal is someone's: without store faults a pending *)
(* one is in the hands of the tick (or of a shutdown), a running one has   *)
(* its goroutine.                                                          *)
NoOrphans ==
  faults = 0 =>
    \A p \in Plans, t \in Times :
      /\ occ[p][t] = "pending" =>
           \/ stopping
           \/ \E d \in Dispatchers : /\ phase[d] \in {"recording", "claiming"}
                                     /\ tick[d].current = p /\ t \in tick[d].runnable
      /\ occ[p][t] = "running" => \E k \in Targets : task[p][t][k] # "none"

(* Work is running only for an occurrence whose row says so.               *)
RunningIsRecorded ==
  \A p \in Plans, t \in Times :
    (\E k \in Targets : task[p][t][k] # "none") => occ[p][t] = "running"

(* With one dispatcher, what is launched is the newest recorded due time of*)
(* its plan: catching up never runs an older one after a newer one.        *)
LaunchesNewest ==
  [][\A p \in Plans, t \in Times :
       launches'[p][t] # launches[p][t] => \A u \in Recorded(p, 0) : u <= t]_vars

(* At most MaxParallel tasks of an occurrence run at a time.               *)
OccurrenceParallelLimit ==
  \A p \in Plans, t \in Times : Cardinality(RunningTasks(p, t)) <= MaxParallel

(* With the store working, what is recorded as pending or running is       *)
(* eventually over.                                                        *)
OccurrencesEnd ==
  \A p \in Plans, t \in Times :
    occ[p][t] \in {"pending", "running"} ~> occ[p][t] \notin {"none", "pending", "running"}

=============================================================================
