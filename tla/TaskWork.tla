------------------------------ MODULE TaskWork ------------------------------
(***************************************************************************)
(* Everything that hangs on a task: the confirmation of its scope, the     *)
(* plans that run it and their occurrences, its runs, operations and Agent *)
(* leases, and the policy that verifies its restores.                      *)
(*                                                                         *)
(* A handler reads the task, consumes a preview of its scope if it needs   *)
(* one, and writes the whole row, each in a transaction of its own; so a   *)
(* task is edited, previewed, run and deleted by calls that overlap.  The  *)
(* deletion of a task removes what hangs on it in one transaction.         *)
(*                                                                         *)
(* A form stands for what a task protects, and for its fingerprint: two    *)
(* tasks have the same form if engine, kind, target, repository, paths,    *)
(* exclusions and deletion agree.  References of a task to repositories,   *)
(* hosts, Agents and connections are the subject of ResourceReferences.    *)
(***************************************************************************)
EXTENDS Naturals, FiniteSets

CONSTANTS
  Tasks, Plans, Occurrences, Works,  \* ids of the rows
  Forms,       \* what a task may protect
  Scoped,      \* those of Forms that are a directory or an rsync source
  Verifiable,  \* those of Scoped that Restic backs up from the local machine;
               \* they differ in their exclusions only
  MaxCalls     \* bound: calls in progress

None == "none"

VARIABLES
  tasks,        \* row of each task: [form, enabled, confirmed]
  previews,     \* usable previews of a scope: [task, form]
  policies,     \* restore verification policy of a task: enabled or not
  plans,        \* row of each plan: [enabled, tasks]
  occurrences,  \* row of each occurrence: [plan, status, targets]
  works,        \* rows of runs, operations and leases: [kind, task, plan, status]
  launched,     \* tasks of claimed occurrences in memory: [occurrence, plan, task, run]
  used,         \* ids that were given out
  calls         \* calls in progress: [do, task, row] or [do, plan, targets]

rows == <<tasks, previews, policies, plans, occurrences, works>>
vars == <<rows, launched, used, calls>>

Empty == [id \in {} |-> None]

Init ==
  /\ tasks = Empty /\ previews = {} /\ policies = Empty /\ plans = Empty
  /\ occurrences = Empty /\ works = Empty
  /\ launched = {} /\ used = {} /\ calls = {}

Set(table, id, row) ==
  [i \in DOMAIN table \cup {id} |-> IF i = id THEN row ELSE table[i]]
Only(table, ids) == [i \in ids |-> table[i]]

Unused(id) == id \notin used /\ used' = used \cup {id}

Begin(call) == Cardinality(calls) < MaxCalls /\ calls' = calls \cup {call}
End(call)   == calls' = calls \ {call}

Task(form, enabled, confirmed) ==
  [form |-> form, enabled |-> enabled, confirmed |-> confirmed]

Active(t)   == {w \in DOMAIN works : works[w].task = t /\ works[w].status = "open"}
GoodRuns(t) == {w \in DOMAIN works : works[w].task = t /\ works[w].status = "good"}

-----------------------------------------------------------------------------
(* Tasks and the confirmation of their scope.                              *)

CreateTask ==
  \E t \in Tasks, form \in Forms, enabled \in BOOLEAN :
    /\ form \in Scoped => ~enabled
    /\ Unused(t)
    /\ tasks' = Set(tasks, t, Task(form, enabled, None))
    /\ UNCHANGED <<previews, policies, plans, occurrences, works, launched, calls>>

(* A scan takes its time, and is recorded if the task still exists.  Only  *)
(* an operation may scan with other exclusions than those of the task.     *)
StartScan ==
  \E t \in DOMAIN tasks, form \in Scoped :
    /\ tasks[t].form \in Scoped
    /\ form # tasks[t].form =>
         /\ {form, tasks[t].form} \subseteq Verifiable
         /\ \E w \in Active(t) : works[w].kind = "operation"
    /\ Begin([do |-> "Scan", task |-> t, row |-> form])
    /\ UNCHANGED <<rows, launched, used>>

CreateTaskScopePreview ==
  \E call \in calls :
    /\ call.do = "Scan" /\ End(call)
    /\ previews' = previews \cup {[task |-> t, form |-> call.row] :
                                    t \in {call.task} \cap DOMAIN tasks}
    /\ UNCHANGED <<tasks, policies, plans, occurrences, works, launched, used>>

PreviewExpires ==
  \E p \in previews :
    /\ previews' = previews \ {p}
    /\ UNCHANGED <<tasks, policies, plans, occurrences, works, launched, used, calls>>

(* What the old row confirms of a new form.                                *)
Confirmed_Any(old, form) == old.confirmed  \* mutant: the fingerprint is not compared
Confirmed(old, form) ==
  IF form \in Scoped /\ old.confirmed = form THEN form ELSE None

(* updateTask reads the row.  A confirmation of the same scope is kept,    *)
(* and an enabled task without one needs a preview.                        *)
EditTask ==
  \E t \in DOMAIN tasks, form \in Forms, enabled \in BOOLEAN :
    LET row == Task(form, enabled, Confirmed(tasks[t], form)) IN
    /\ Begin([do |-> IF form \in Scoped /\ enabled /\ row.confirmed = None
                     THEN "Consume" ELSE "UpdateTask",
              task |-> t, row |-> row])
    /\ UNCHANGED <<rows, launched, used>>

(* saveTaskScopeRules writes back the row it read, with new exclusions.    *)
EditRules ==
  \E t \in DOMAIN tasks, form \in Scoped :
    /\ form = tasks[t].form \/ {form, tasks[t].form} \subseteq Verifiable
    /\ Begin([do |-> "Consume", task |-> t, row |-> Task(form, tasks[t].enabled, None)])
    /\ UNCHANGED <<rows, launched, used>>

ConsumeTaskScopePreview ==
  \E call \in calls :
    /\ call.do = "Consume"
    /\ LET p == [task |-> call.task, form |-> call.row.form] IN
       /\ previews' = previews \ {p}
       /\ calls' = (calls \ {call}) \cup
            {[call EXCEPT !.do = "UpdateTask", !.row.confirmed = q.form] :
               q \in {p} \cap previews}
    /\ UNCHANGED <<tasks, policies, plans, occurrences, works, launched, used>>

(* After a good run the form stays, and a policy keeps it verifiable.      *)
MayBecome(t, form) ==
  /\ t \in DOMAIN tasks
  /\ GoodRuns(t) # {} => form = tasks[t].form
  /\ t \in DOMAIN policies => form \in Verifiable

(* The policies after a task is written.                                   *)
Suspended(t, enabled) ==
  [u \in DOMAIN policies |-> policies[u] /\ (u = t => enabled)]

(* Refused also for reasons of other tables, see ResourceReferences.       *)
UpdateTask ==
  \E call \in calls :
    /\ call.do = "UpdateTask" /\ End(call)
    /\ \/ /\ MayBecome(call.task, call.row.form)
          /\ tasks' = [tasks EXCEPT ![call.task] = call.row]
          /\ policies' = Suspended(call.task, call.row.enabled)
       \/ UNCHANGED <<tasks, policies>>
    /\ UNCHANGED <<previews, plans, occurrences, works, launched, used>>

-----------------------------------------------------------------------------
(* Restore verification policies.                                          *)

SaveRestoreVerificationPolicy ==
  \E t \in DOMAIN tasks, enabled \in BOOLEAN :
    /\ tasks[t].form \in Verifiable
    /\ enabled => tasks[t].enabled
    /\ policies' = Set(policies, t, enabled)
    /\ UNCHANGED <<tasks, previews, plans, occurrences, works, launched, used, calls>>

DeleteRestoreVerificationPolicy ==
  \E t \in DOMAIN policies :
    /\ policies' = Only(policies, DOMAIN policies \ {t})
    /\ UNCHANGED <<tasks, previews, plans, occurrences, works, launched, used, calls>>

-----------------------------------------------------------------------------
(* Plans and their occurrences.                                            *)

PlanFits(targets, enabled) ==
  /\ targets # {} /\ targets \subseteq DOMAIN tasks
  /\ enabled => \A t \in targets : tasks[t].enabled

CreatePlan ==
  \E p \in Plans, targets \in SUBSET DOMAIN tasks, enabled \in BOOLEAN :
    /\ PlanFits(targets, enabled) /\ Unused(p)
    /\ plans' = Set(plans, p, [enabled |-> enabled, tasks |-> targets])
    /\ UNCHANGED <<tasks, previews, policies, occurrences, works, launched, calls>>

UpdatePlan ==
  \E p \in DOMAIN plans, targets \in SUBSET DOMAIN tasks, enabled \in BOOLEAN :
    /\ PlanFits(targets, enabled)
    /\ plans' = Set(plans, p, [enabled |-> enabled, tasks |-> targets])
    /\ UNCHANGED <<tasks, previews, policies, occurrences, works, launched, used, calls>>

(* deleteResourceOwnedRecords: the occurrences go, the runs forget it.     *)
Unplanned(table, gone) ==
  [w \in DOMAIN table |-> IF table[w].plan \in gone THEN [table[w] EXCEPT !.plan = None]
                          ELSE table[w]]

DeletePlan ==
  \E p \in DOMAIN plans :
    /\ plans' = Only(plans, DOMAIN plans \ {p})
    /\ occurrences' = Only(occurrences, {o \in DOMAIN occurrences : occurrences[o].plan # p})
    /\ works' = Unplanned(works, {p})
    /\ UNCHANGED <<tasks, previews, policies, launched, used, calls>>

(* A tick of the dispatcher works on the plan it has read.                 *)
ReadPlan ==
  \E p \in DOMAIN plans :
    /\ plans[p].enabled
    /\ Begin([do |-> "Record", plan |-> p, targets |-> plans[p].tasks])
    /\ UNCHANGED <<rows, launched, used>>

CreateScheduleOccurrence ==
  \E call \in calls, o \in Occurrences :
    /\ call.do = "Record" /\ End(call)
    /\ LET able == /\ call.plan \in DOMAIN plans
                   /\ call.targets \subseteq plans[call.plan].tasks
       IN IF able
          THEN /\ Unused(o)
               /\ occurrences' = Set(occurrences, o, [plan |-> call.plan, status |-> "pending",
                                                      targets |-> call.targets])
          ELSE UNCHANGED <<occurrences, used>>
    /\ UNCHANGED <<tasks, previews, policies, plans, works, launched>>

ClaimScheduleOccurrence ==
  \E o \in DOMAIN occurrences :
    /\ occurrences[o].status = "pending"
    /\ occurrences' = [occurrences EXCEPT ![o].status = "running"]
    /\ launched' = launched \cup
         {[occurrence |-> o, plan |-> occurrences[o].plan, task |-> t, run |-> None] :
            t \in occurrences[o].targets}
    /\ UNCHANGED <<tasks, previews, policies, plans, works, used, calls>>

FinishScheduleOccurrence ==
  \E o \in DOMAIN occurrences :
    /\ occurrences[o].status = "running"
    /\ \A l \in launched : l.occurrence # o
    /\ occurrences' = [occurrences EXCEPT ![o].status = "ended"]
    /\ UNCHANGED <<tasks, previews, policies, plans, works, launched, used, calls>>

-----------------------------------------------------------------------------
(* Work.                                                                   *)

Work(kind, t, p) == [kind |-> kind, task |-> t, plan |-> p, status |-> "open"]

(* taskrun.Run and StartRun for a task of a claimed occurrence: nothing    *)
(* starts when the task or the plan are gone.                              *)
StartPlannedRun ==
  \E l \in launched :
    /\ l.run = None
    /\ \/ \E w \in Works :
            /\ l.task \in DOMAIN tasks /\ l.plan \in DOMAIN plans /\ Unused(w)
            /\ works' = Set(works, w, Work("run", l.task, l.plan))
            /\ launched' = (launched \ {l}) \cup {[l EXCEPT !.run = w]}
       \/ launched' = launched \ {l} /\ UNCHANGED <<works, used>>
    /\ UNCHANGED <<tasks, previews, policies, plans, occurrences, calls>>

(* By hand: a run, or an operation that scans the task.                    *)
StartWork ==
  \E w \in Works, t \in DOMAIN tasks, kind \in {"run", "operation"} :
    /\ Unused(w)
    /\ works' = Set(works, w, Work(kind, t, None))
    /\ UNCHANGED <<tasks, previews, policies, plans, occurrences, launched, calls>>

(* The run of a task on an Agent has a lease; a task has one at a time.    *)
CreateAgentLease ==
  \E w \in Works, t \in DOMAIN tasks :
    /\ \E r \in Active(t) : works[r].kind = "run"
    /\ \A v \in Active(t) : works[v].kind # "lease"
    /\ Unused(w)
    /\ works' = Set(works, w, Work("lease", t, None))
    /\ UNCHANGED <<tasks, previews, policies, plans, occurrences, launched, calls>>

(* FinishRun, FinishOperation, completion or expiry of a lease.            *)
FinishWork ==
  \E w \in DOMAIN works, status \in {"good", "bad"} :
    /\ works[w].status = "open"
    /\ works[w].kind # "run" => status = "bad"
    /\ works' = [works EXCEPT ![w].status = status]
    /\ launched' = {l \in launched : l.run # w}
    /\ UNCHANGED <<tasks, previews, policies, plans, occurrences, used, calls>>

(* The lifecycle deletes old runs.                                         *)
RunExpires ==
  \E w \in DOMAIN works :
    /\ works[w].kind = "run" /\ works[w].status # "open"
    /\ works' = Only(works, DOMAIN works \ {w})
    /\ UNCHANGED <<tasks, previews, policies, plans, occurrences, launched, used, calls>>

-----------------------------------------------------------------------------
(* The deletion of a task.                                                 *)

PlansOf_Current(t) == {p \in DOMAIN plans : t \in plans[p].tasks}
                                              \* mutant: old occurrences are not searched

(* deleteTaskPlanAssociations: plans that have the task, or had it once.   *)
PlansOf(t) ==
  {p \in DOMAIN plans :
     \/ t \in plans[p].tasks
     \/ \E o \in DOMAIN occurrences : occurrences[o].plan = p /\ t \in occurrences[o].targets}

(* prunePlanOccurrencesForTask.                                            *)
Pruned(row, t) ==
  IF t \notin row.targets THEN row
  ELSE [row EXCEPT !.targets = @ \ {t},
                   !.status = IF @ \in {"pending", "running"} THEN "cancelled" ELSE @]

DeleteTask ==
  \E t \in DOMAIN tasks :
    LET gone == {p \in PlansOf(t) : plans[p].tasks \subseteq {t}} IN
    /\ ~tasks[t].enabled /\ Active(t) = {}
    /\ tasks' = Only(tasks, DOMAIN tasks \ {t})
    /\ previews' = {p \in previews : p.task # t}
    /\ policies' = Only(policies, DOMAIN policies \ {t})
    /\ plans' = [p \in DOMAIN plans \ gone |->
                   IF p \in PlansOf(t) THEN [plans[p] EXCEPT !.tasks = @ \ {t}] ELSE plans[p]]
    /\ occurrences' =
         [o \in {i \in DOMAIN occurrences :
                   /\ occurrences[i].plan \notin gone
                   /\ occurrences[i].plan \in PlansOf(t) => occurrences[i].targets # {t}} |->
            IF occurrences[o].plan \in PlansOf(t) THEN Pruned(occurrences[o], t)
            ELSE occurrences[o]]
    /\ works' = Unplanned(Only(works, {w \in DOMAIN works : works[w].task # t}), gone)
    /\ UNCHANGED <<launched, used, calls>>

(* The process stops; recovery closes runs, operations and occurrences,    *)
(* but no lease.                                                           *)
Restart ==
  /\ calls' = {} /\ launched' = {}
  /\ works' = [w \in DOMAIN works |->
                 IF works[w].status = "open" /\ works[w].kind # "lease"
                 THEN [works[w] EXCEPT !.status = "bad"] ELSE works[w]]
  /\ occurrences' = [o \in DOMAIN occurrences |->
                       IF occurrences[o].status \in {"pending", "running"}
                       THEN [occurrences[o] EXCEPT !.status = "ended"] ELSE occurrences[o]]
  /\ UNCHANGED <<tasks, previews, policies, plans, used>>

-----------------------------------------------------------------------------
Next ==
  \/ CreateTask \/ StartScan \/ CreateTaskScopePreview \/ PreviewExpires
  \/ EditTask \/ EditRules \/ ConsumeTaskScopePreview \/ UpdateTask
  \/ SaveRestoreVerificationPolicy \/ DeleteRestoreVerificationPolicy
  \/ CreatePlan \/ UpdatePlan \/ DeletePlan \/ ReadPlan \/ CreateScheduleOccurrence
  \/ ClaimScheduleOccurrence \/ FinishScheduleOccurrence
  \/ StartPlannedRun \/ StartWork \/ CreateAgentLease \/ FinishWork \/ RunExpires
  \/ DeleteTask \/ Restart

Spec == Init /\ [][Next]_vars

TypeOK ==
  /\ DOMAIN tasks \subseteq Tasks /\ DOMAIN plans \subseteq Plans
  /\ \A t \in DOMAIN tasks : tasks[t] \in [form : Forms, enabled : BOOLEAN,
                                           confirmed : Scoped \cup {None}]
  /\ \A p \in DOMAIN plans : plans[p] \in [enabled : BOOLEAN, tasks : SUBSET Tasks]

(* logical_references.go:18, CHANGELOG.md:32: whatever overlaps with the   *)
(* deletion of a task or a plan, no run, operation, lease, occurrence,     *)
(* preview or policy is left, or comes later, that names it, and no plan   *)
(* is left without a task.                                                 *)
WorkIsRooted ==
  /\ \A p \in DOMAIN plans : plans[p].tasks # {} /\ plans[p].tasks \subseteq DOMAIN tasks
  /\ \A o \in DOMAIN occurrences :
       /\ occurrences[o].plan \in DOMAIN plans
       /\ occurrences[o].targets # {} /\ occurrences[o].targets \subseteq DOMAIN tasks
  /\ \A w \in DOMAIN works :
       works[w].task \in DOMAIN tasks /\ works[w].plan \in DOMAIN plans \cup {None}
  /\ {p.task : p \in previews} \cup DOMAIN policies \subseteq DOMAIN tasks

ScopeConfirmed ==
  \A t \in DOMAIN tasks :
    tasks[t].enabled /\ tasks[t].form \in Scoped => tasks[t].confirmed = tasks[t].form

PoliciesFit ==
  \A t \in DOMAIN policies :
    /\ t \in DOMAIN tasks /\ tasks[t].form \in Verifiable
    /\ policies[t] => tasks[t].enabled

(* server.go:6925, restore_verification.go:62: an enabled task of a        *)
(* directory or rsync source has the confirmation of exactly the scope it  *)
(* has, and a verification policy is of a task it can verify and enabled   *)
(* only if its task is, whichever edits of form, rules and state overlap.  *)
TasksFit == ScopeConfirmed /\ PoliciesFit
=============================================================================
