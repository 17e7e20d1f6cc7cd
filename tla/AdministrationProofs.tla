------------------------- MODULE AdministrationProofs -------------------------
(***************************************************************************)
(* Proofs about the administration of the service: what hangs on a task,   *)
(* the endpoint for Agents, rows that refer to each other, and who may act *)
(* as an Agent; for any ids, forms, machines and ports, and any number of  *)
(* calls, requests, failures and restarts.                                 *)
(***************************************************************************)
EXTENDS Administration, TLAPS

TaskRows == [form : Forms \cup Scoped, enabled : BOOLEAN, confirmed : Scoped \cup {None}]

CallRows ==
  [do : {"Scan"}, task : Tasks, row : Scoped]
  \cup [do : {"Consume", "UpdateTask"}, task : Tasks, row : TaskRows]
  \cup [do : {"Record"}, plan : Plans, targets : SUBSET Tasks]

Types ==
  /\ tasks \in [DOMAIN tasks -> TaskRows] /\ DOMAIN tasks \subseteq Tasks
  /\ previews \subseteq [task : Tasks, form : Scoped]
  /\ policies \in [DOMAIN policies -> BOOLEAN]
  /\ plans \in [DOMAIN plans -> [enabled : BOOLEAN, tasks : SUBSET Tasks]]
  /\ DOMAIN plans \subseteq Plans
  /\ occurrences \in [DOMAIN occurrences -> [plan : Plans, targets : SUBSET Tasks,
                        status : {"pending", "running", "ended", "cancelled"}]]
  /\ works \in [DOMAIN works -> [kind : {"run", "operation", "lease"}, task : Tasks,
                  plan : Plans \cup {None}, status : {"open", "good", "bad"}]]
  /\ calls \subseteq CallRows

(* A call that is about to write an enabled task has its confirmation.     *)
RowsConfirmed ==
  \A call \in calls :
    /\ call.do = "UpdateTask" /\ call.row.enabled /\ call.row.form \in Scoped
    => call.row.confirmed = call.row.form

(* A tick works on a plan that had tasks.                                  *)
TargetsNamed == \A call \in calls : call.do = "Record" => call.targets # {}

(* The id of a task is not given out again.                                *)
IdsUsed == DOMAIN tasks \subseteq used

Linked == Types /\ WorkIsRooted /\ TasksFit /\ RowsConfirmed /\ TargetsNamed

IInv == Linked /\ IdsUsed

-----------------------------------------------------------------------------
LEMMA InitIInv == Init => IInv
BY DEF Init, Empty, IInv, Linked, IdsUsed, Types, WorkIsRooted, TasksFit, ScopeConfirmed,
     PoliciesFit,
       RowsConfirmed, TargetsNamed

(* Steps that only begin or end a call, or only remove a preview.          *)
LEMMA CallSteps ==
  ASSUME IInv, StartScan \/ PreviewExpires \/ EditTask \/ EditRules \/ ReadPlan
  PROVE  Linked'
<1> USE DEF IInv, Linked, rows
<1>1. CASE StartScan
  <2> USE <1>1 DEF StartScan, Begin
  <2>1. Types'  BY DEF Types, CallRows
  <2>2. WorkIsRooted' /\ TasksFit'
    BY DEF WorkIsRooted, TasksFit, ScopeConfirmed, PoliciesFit
  <2>3. RowsConfirmed' /\ TargetsNamed'  BY DEF RowsConfirmed, TargetsNamed
  <2>4. QED  BY <2>1, <2>2, <2>3
<1>2. CASE PreviewExpires
  <2> USE <1>2 DEF PreviewExpires
  <2>1. Types'  BY DEF Types
  <2>2. WorkIsRooted' /\ TasksFit'
    BY DEF WorkIsRooted, TasksFit, ScopeConfirmed, PoliciesFit
  <2>3. RowsConfirmed' /\ TargetsNamed'  BY DEF RowsConfirmed, TargetsNamed
  <2>4. QED  BY <2>1, <2>2, <2>3
<1>3. CASE EditTask
  <2>1. PICK t \in DOMAIN tasks, form \in Forms, enabled \in BOOLEAN :
          /\ calls' = calls \cup {[do |-> IF form \in Scoped /\ enabled
                                                /\ Confirmed(tasks[t], form) = None
                                             THEN "Consume" ELSE "UpdateTask",
                                   task |-> t,
                                   row |-> Task(form, enabled, Confirmed(tasks[t], form))]}
          /\ UNCHANGED <<rows, launched, used>>
    BY <1>3 DEF EditTask, Begin, Task
  <2>2. Confirmed(tasks[t], form) \in Scoped \cup {None}
        /\ (form \in Scoped /\ Confirmed(tasks[t], form) # None
              => Confirmed(tasks[t], form) = form)
    BY DEF Confirmed
  <2> DEFINE row == Task(form, enabled, Confirmed(tasks[t], form))
  <2>3. row \in TaskRows /\ row.enabled = enabled /\ row.form = form
        /\ row.confirmed = Confirmed(tasks[t], form)
    BY <2>2 DEF TaskRows, Task
  <2> HIDE DEF row
  <2>4. Types'  BY <2>1, <2>3 DEF Types, CallRows, row
  <2>5. WorkIsRooted' /\ TasksFit'
    BY <2>1 DEF WorkIsRooted, TasksFit, ScopeConfirmed, PoliciesFit
  <2>6. RowsConfirmed' /\ TargetsNamed'
    BY <2>1, <2>2, <2>3 DEF RowsConfirmed, TargetsNamed, row
  <2>7. QED  BY <2>4, <2>5, <2>6
<1>4. CASE EditRules
  <2> USE <1>4 DEF EditRules, Begin
  <2>1. Types'  BY DEF Types, CallRows, TaskRows, Task
  <2>2. WorkIsRooted' /\ TasksFit'
    BY DEF WorkIsRooted, TasksFit, ScopeConfirmed, PoliciesFit
  <2>3. RowsConfirmed' /\ TargetsNamed'  BY DEF RowsConfirmed, TargetsNamed
  <2>4. QED  BY <2>1, <2>2, <2>3
<1>5. CASE ReadPlan
  <2> USE <1>5 DEF ReadPlan, Begin
  <2>1. Types'  BY DEF Types, CallRows
  <2>2. WorkIsRooted' /\ TasksFit'
    BY DEF WorkIsRooted, TasksFit, ScopeConfirmed, PoliciesFit
  <2>3. RowsConfirmed' /\ TargetsNamed'
    BY DEF RowsConfirmed, TargetsNamed, WorkIsRooted
  <2>4. QED  BY <2>1, <2>2, <2>3
<1>6. QED  BY <1>1, <1>2, <1>3, <1>4, <1>5

(* Previews: what is consumed is the confirmation of that form.            *)
LEMMA PreviewSteps ==
  ASSUME IInv, CreateTaskScopePreview \/ ConsumeTaskScopePreview
  PROVE  Linked'
<1> USE DEF IInv, Linked
<1>1. CASE CreateTaskScopePreview
  <2>1. PICK call \in calls :
          /\ call.do = "Scan" /\ calls' = calls \ {call}
          /\ previews' = previews \cup {[task |-> t, form |-> call.row] :
                                          t \in {call.task} \cap DOMAIN tasks}
          /\ UNCHANGED <<tasks, policies, plans, occurrences, works, launched, used>>
    BY <1>1 DEF CreateTaskScopePreview, End
  <2>2. call.row \in Scoped
    BY <2>1 DEF Types, CallRows
  <2>3. Types'  BY <2>1, <2>2 DEF Types
  <2>4. WorkIsRooted' /\ TasksFit'
    BY <2>1 DEF WorkIsRooted, TasksFit, ScopeConfirmed, PoliciesFit
  <2>5. RowsConfirmed' /\ TargetsNamed'  BY <2>1 DEF RowsConfirmed, TargetsNamed
  <2>6. QED  BY <2>3, <2>4, <2>5
<1>2. CASE ConsumeTaskScopePreview
  <2>1. PICK call \in calls :
          LET p == [task |-> call.task, form |-> call.row.form] IN
          /\ call.do = "Consume" /\ previews' = previews \ {p}
          /\ calls' = (calls \ {call}) \cup
               {[call EXCEPT !.do = "UpdateTask", !.row.confirmed = q.form] :
                  q \in {p} \cap previews}
          /\ UNCHANGED <<tasks, policies, plans, occurrences, works, launched, used>>
    BY <1>2 DEF ConsumeTaskScopePreview
  <2> DEFINE p == [task |-> call.task, form |-> call.row.form]
             next == [call EXCEPT !.do = "UpdateTask", !.row.confirmed = p.form]
  <2>2. call \in [do : {"Consume", "UpdateTask"}, task : Tasks, row : TaskRows]
    BY <2>1 DEF Types, CallRows
  <2>3. \A c \in calls' : c \in calls \/ (c = next /\ p \in previews)
    BY <2>1
  <2>4. p \in previews => call.row.form \in Scoped
    BY DEF Types
  <2>5. p \in previews =>
          /\ next \in CallRows /\ next.do = "UpdateTask"
          /\ next.row.confirmed = next.row.form
    BY <2>2, <2>4 DEF CallRows, TaskRows
  <2>6. previews' \subseteq previews
    BY <2>1
  <2> HIDE DEF next, p
  <2>7. Types'  BY <2>1, <2>3, <2>5, <2>6 DEF Types
  <2>8. WorkIsRooted' /\ TasksFit'
    BY <2>1, <2>6 DEF WorkIsRooted, TasksFit, ScopeConfirmed, PoliciesFit
  <2>9. RowsConfirmed' /\ TargetsNamed'
    BY <2>3, <2>5 DEF RowsConfirmed, TargetsNamed
  <2>10. QED  BY <2>7, <2>8, <2>9
<1>3. QED  BY <1>1, <1>2

(* Tasks and their policies are written.                                   *)
LEMMA TaskSteps ==
  ASSUME IInv,
         \/ CreateTask \/ UpdateTask
         \/ SaveRestoreVerificationPolicy \/ DeleteRestoreVerificationPolicy
  PROVE  Linked'
<1> USE DEF IInv, Linked
<1>1. CASE CreateTask
  <2> USE <1>1 DEF CreateTask, Set, Task, Unused
  <2>1. Types'  BY DEF Types, TaskRows
  <2>2. WorkIsRooted'  BY DEF WorkIsRooted
  <2>3. TasksFit'  BY DEF TasksFit, ScopeConfirmed, PoliciesFit, IdsUsed
  <2>4. RowsConfirmed' /\ TargetsNamed'  BY DEF RowsConfirmed, TargetsNamed
  <2>5. QED  BY <2>1, <2>2, <2>3, <2>4
<1>2. CASE UpdateTask
  <2>1. PICK call \in calls :
          /\ call.do = "UpdateTask" /\ calls' = calls \ {call}
          /\ \/ /\ MayBecome(call.task, call.row.form)
                /\ tasks' = [tasks EXCEPT ![call.task] = call.row]
                /\ policies' = Suspended(call.task, call.row.enabled)
             \/ UNCHANGED <<tasks, policies>>
          /\ UNCHANGED <<previews, plans, occurrences, works, launched, used>>
    BY <1>2 DEF UpdateTask, End
  <2>2. call.task \in Tasks /\ call.row \in TaskRows /\ call.row.enabled \in BOOLEAN
        /\ (call.row.enabled /\ call.row.form \in Scoped => call.row.confirmed = call.row.form)
    BY <2>1 DEF Types, CallRows, TaskRows, RowsConfirmed
  <2>3. DOMAIN tasks' = DOMAIN tasks /\ DOMAIN policies' = DOMAIN policies
        /\ policies' \in [DOMAIN policies' -> BOOLEAN]
    BY <2>1, <2>2 DEF Suspended, Types
  <2>4. Types'  BY <2>1, <2>2, <2>3 DEF Types
  <2>5. WorkIsRooted'  BY <2>1, <2>3 DEF WorkIsRooted
  <2>6. TasksFit'
    BY <2>1, <2>2, <2>3 DEF TasksFit, ScopeConfirmed, PoliciesFit, MayBecome, Suspended, Types
  <2>7. RowsConfirmed' /\ TargetsNamed'  BY <2>1 DEF RowsConfirmed, TargetsNamed
  <2>8. QED  BY <2>4, <2>5, <2>6, <2>7
<1>3. CASE SaveRestoreVerificationPolicy
  <2> USE <1>3 DEF SaveRestoreVerificationPolicy, Set
  <2>1. Types'  BY DEF Types
  <2>2. WorkIsRooted'  BY DEF WorkIsRooted
  <2>3. TasksFit'  BY DEF TasksFit, ScopeConfirmed, PoliciesFit
  <2>4. RowsConfirmed' /\ TargetsNamed'  BY DEF RowsConfirmed, TargetsNamed
  <2>5. QED  BY <2>1, <2>2, <2>3, <2>4
<1>4. CASE DeleteRestoreVerificationPolicy
  <2> USE <1>4 DEF DeleteRestoreVerificationPolicy, Only
  <2>1. Types'  BY DEF Types
  <2>2. WorkIsRooted'  BY DEF WorkIsRooted
  <2>3. TasksFit'  BY DEF TasksFit, ScopeConfirmed, PoliciesFit
  <2>4. RowsConfirmed' /\ TargetsNamed'  BY DEF RowsConfirmed, TargetsNamed
  <2>5. QED  BY <2>1, <2>2, <2>3, <2>4
<1>5. QED  BY <1>1, <1>2, <1>3, <1>4

(* Plans and occurrences: an occurrence has targets of a plan that has     *)
(* them.                                                                   *)
LEMMA PlanSteps ==
  ASSUME IInv,
         \/ CreatePlan \/ UpdatePlan \/ DeletePlan \/ CreateScheduleOccurrence
         \/ ClaimScheduleOccurrence \/ FinishScheduleOccurrence
  PROVE  Linked'
<1> USE DEF IInv, Linked
<1>1. TasksFit'
  BY DEF CreatePlan, UpdatePlan, DeletePlan, CreateScheduleOccurrence,
         ClaimScheduleOccurrence, FinishScheduleOccurrence, TasksFit, ScopeConfirmed, PoliciesFit
<1>2. calls' \subseteq calls
  BY DEF CreatePlan, UpdatePlan, DeletePlan, CreateScheduleOccurrence,
         ClaimScheduleOccurrence, FinishScheduleOccurrence, End
<1>3. RowsConfirmed' /\ TargetsNamed'
  BY <1>2 DEF RowsConfirmed, TargetsNamed
<1>4. CASE CreatePlan \/ UpdatePlan
  <2>1. PICK p \in Plans, targets \in SUBSET DOMAIN tasks, enabled \in BOOLEAN :
          /\ PlanFits(targets, enabled)
          /\ plans' = Set(plans, p, [enabled |-> enabled, tasks |-> targets])
          /\ UNCHANGED <<tasks, previews, policies, occurrences, works, launched, calls>>
    BY <1>4 DEF CreatePlan, UpdatePlan, Types
  <2>2. Types'  BY <2>1 DEF Types, Set
  <2>3. WorkIsRooted'  BY <2>1 DEF WorkIsRooted, PlanFits, Set
  <2>4. QED  BY <1>1, <1>3, <2>2, <2>3
<1>5. CASE DeletePlan
  <2>1. PICK p \in DOMAIN plans :
          /\ plans' = Only(plans, DOMAIN plans \ {p})
          /\ occurrences' = Only(occurrences, {o \in DOMAIN occurrences : occurrences[o].plan # p})
          /\ works' = Unplanned(works, {p})
          /\ UNCHANGED <<tasks, previews, policies, launched, used, calls>>
    BY <1>5 DEF DeletePlan
  <2>2. /\ DOMAIN works' = DOMAIN works
        /\ \A w \in DOMAIN works :
             /\ works'[w] \in [kind : {"run", "operation", "lease"}, task : Tasks,
                               plan : Plans \cup {None}, status : {"open", "good", "bad"}]
             /\ works'[w].task = works[w].task
             /\ works'[w].plan = IF works[w].plan = p THEN None ELSE works[w].plan
    BY <2>1 DEF Unplanned, Types
  <2>3. works' \in [DOMAIN works' -> [kind : {"run", "operation", "lease"}, task : Tasks,
                      plan : Plans \cup {None}, status : {"open", "good", "bad"}]]
    BY <2>1, <2>2 DEF Unplanned
  <2>4. Types'  BY <2>1, <2>3 DEF Types, Only
  <2>5. WorkIsRooted'  BY <2>1, <2>2 DEF WorkIsRooted, Only
  <2>6. QED  BY <1>1, <1>3, <2>4, <2>5
<1>6. CASE CreateScheduleOccurrence
  <2>1. PICK call \in calls, o \in Occurrences :
          /\ call.do = "Record"
          /\ \/ /\ call.plan \in DOMAIN plans /\ call.targets \subseteq plans[call.plan].tasks
                /\ occurrences' = Set(occurrences, o, [plan |-> call.plan,
                                        status |-> "pending", targets |-> call.targets])
             \/ UNCHANGED occurrences
          /\ UNCHANGED <<tasks, previews, policies, plans, works, launched>>
    BY <1>6 DEF CreateScheduleOccurrence
  <2>2. call.targets # {} /\ call.plan \in Plans /\ call.targets \subseteq Tasks
    BY <2>1 DEF TargetsNamed, Types, CallRows
  <2>3. Types'  BY <1>2, <2>1, <2>2 DEF Types, Set
  <2>4. WorkIsRooted'  BY <2>1, <2>2 DEF WorkIsRooted, Set
  <2>5. QED  BY <1>1, <1>3, <2>3, <2>4
<1>7. CASE ClaimScheduleOccurrence \/ FinishScheduleOccurrence
  <2>1. PICK o \in DOMAIN occurrences, status \in {"running", "ended"} :
          /\ occurrences' = [occurrences EXCEPT ![o].status = status]
          /\ UNCHANGED <<tasks, previews, policies, plans, works, used, calls>>
    BY <1>7 DEF ClaimScheduleOccurrence, FinishScheduleOccurrence
  <2>2. Types'  BY <2>1 DEF Types
  <2>3. WorkIsRooted'  BY <2>1 DEF WorkIsRooted, Types
  <2>4. QED  BY <1>1, <1>3, <2>2, <2>3
<1>8. QED  BY <1>4, <1>5, <1>6, <1>7

(* Work starts for a task and a plan that are there.                       *)
LEMMA WorkSteps ==
  ASSUME IInv,
         StartPlannedRun \/ StartWork \/ CreateAgentLease \/ FinishWork \/ RunExpires
  PROVE  Linked'
<1> USE DEF IInv, Linked
<1>1. UNCHANGED <<tasks, previews, policies, plans, occurrences, calls>>
  BY DEF StartPlannedRun, StartWork, CreateAgentLease, FinishWork, RunExpires
<1>2. TasksFit' /\ RowsConfirmed' /\ TargetsNamed'
  BY <1>1 DEF TasksFit, ScopeConfirmed, PoliciesFit, RowsConfirmed, TargetsNamed
<1>3. CASE \E w \in Works, t \in DOMAIN tasks, p \in DOMAIN plans \cup {None},
             kind \in {"run", "operation", "lease"} : works' = Set(works, w, Work(kind, t, p))
  <2>1. PICK w \in Works, t \in DOMAIN tasks, p \in DOMAIN plans \cup {None},
             kind \in {"run", "operation", "lease"} : works' = Set(works, w, Work(kind, t, p))
    BY <1>3
  <2>2. Types'  BY <1>1, <2>1 DEF Types, Set, Work
  <2>3. WorkIsRooted'  BY <1>1, <2>1 DEF WorkIsRooted, Set, Work
  <2>4. QED  BY <1>2, <2>2, <2>3
<1>4. CASE \E w \in DOMAIN works, status \in {"good", "bad"} :
             works' = [works EXCEPT ![w].status = status]
  <2>1. PICK w \in DOMAIN works, status \in {"good", "bad"} :
             works' = [works EXCEPT ![w].status = status]
    BY <1>4
  <2>2. Types'  BY ZenonT(60), <1>1, <2>1 DEF Types
  <2>3. WorkIsRooted'  BY <1>1, <2>1 DEF WorkIsRooted, Types
  <2>4. QED  BY <1>2, <2>2, <2>3
<1>5. CASE \E w \in DOMAIN works : works' = Only(works, DOMAIN works \ {w})
  <2>1. Types'  BY <1>1, <1>5 DEF Types, Only
  <2>2. WorkIsRooted'  BY <1>1, <1>5 DEF WorkIsRooted, Only
  <2>3. QED  BY <1>2, <2>1, <2>2
<1>6. CASE works' = works
  BY <1>1, <1>2, <1>6 DEF Types, WorkIsRooted
<1>7. \/ \E w \in Works, t \in DOMAIN tasks, p \in DOMAIN plans \cup {None},
             kind \in {"run", "operation", "lease"} : works' = Set(works, w, Work(kind, t, p))
      \/ \E w \in DOMAIN works, status \in {"good", "bad"} :
             works' = [works EXCEPT ![w].status = status]
      \/ \E w \in DOMAIN works : works' = Only(works, DOMAIN works \ {w})
      \/ works' = works
  <2>1. CASE StartPlannedRun  BY <2>1 DEF StartPlannedRun
  <2>2. CASE StartWork  BY <2>2 DEF StartWork
  <2>3. CASE CreateAgentLease  BY <2>3 DEF CreateAgentLease
  <2>4. CASE FinishWork  BY <2>4 DEF FinishWork
  <2>5. CASE RunExpires  BY <2>5 DEF RunExpires
  <2>6. QED  BY <2>1, <2>2, <2>3, <2>4, <2>5
<1>8. QED  BY <1>3, <1>4, <1>5, <1>6, <1>7

(* The deletion of a task takes all that names it.                         *)
LEMMA DeleteStep == ASSUME IInv, DeleteTask PROVE Linked'
<1> USE DEF IInv, Linked
<1> DEFINE Gone(t) == {p \in PlansOf(t) : plans[p].tasks \subseteq {t}}
<1>1. PICK t \in DOMAIN tasks :
        /\ ~tasks[t].enabled /\ Active(t) = {}
        /\ tasks' = Only(tasks, DOMAIN tasks \ {t})
        /\ previews' = {p \in previews : p.task # t}
        /\ policies' = Only(policies, DOMAIN policies \ {t})
        /\ plans' = [p \in DOMAIN plans \ Gone(t) |->
             IF p \in PlansOf(t) THEN [plans[p] EXCEPT !.tasks = @ \ {t}] ELSE plans[p]]
        /\ occurrences' =
             [o \in {i \in DOMAIN occurrences :
                       /\ occurrences[i].plan \notin Gone(t)
                       /\ occurrences[i].plan \in PlansOf(t) => occurrences[i].targets # {t}} |->
                IF occurrences[o].plan \in PlansOf(t) THEN Pruned(occurrences[o], t)
                ELSE occurrences[o]]
        /\ works' = Unplanned(Only(works, {w \in DOMAIN works : works[w].task # t}), Gone(t))
        /\ UNCHANGED <<launched, used, calls>>
  BY DEF DeleteTask
<1>2. PICK gone : gone = Gone(t)
  OBVIOUS
<1>3. gone \subseteq DOMAIN plans
  BY <1>2 DEF PlansOf
<1>4. /\ DOMAIN plans' = DOMAIN plans \ gone
      /\ \A p \in DOMAIN plans \ gone :
           /\ plans'[p] \in [enabled : BOOLEAN, tasks : SUBSET Tasks]
           /\ plans'[p].tasks # {} /\ plans'[p].tasks \subseteq DOMAIN tasks \ {t}
  <2>1. DOMAIN plans' = DOMAIN plans \ gone
    BY <1>1, <1>2
  <2>2. ASSUME NEW p \in DOMAIN plans \ gone
        PROVE  /\ plans'[p] \in [enabled : BOOLEAN, tasks : SUBSET Tasks]
               /\ plans'[p].tasks # {} /\ plans'[p].tasks \subseteq DOMAIN tasks \ {t}
    <3>1. /\ plans[p] \in [enabled : BOOLEAN, tasks : SUBSET Tasks]
          /\ plans[p].tasks # {} /\ plans[p].tasks \subseteq DOMAIN tasks
      BY DEF Types, WorkIsRooted
    <3>2. CASE p \in PlansOf(t)
      <4>1. plans'[p] = [plans[p] EXCEPT !.tasks = @ \ {t}]
        BY <1>1, <1>2, <3>2
      <4>2. ~(plans[p].tasks \subseteq {t})
        BY <1>2, <3>2
      <4>3. QED  BY <3>1, <4>1, <4>2
    <3>3. CASE p \notin PlansOf(t)
      <4>1. plans'[p] = plans[p] /\ t \notin plans[p].tasks
        BY <1>1, <1>2, <3>3 DEF PlansOf
      <4>2. QED  BY <3>1, <4>1
    <3>4. QED  BY <3>2, <3>3
  <2>3. QED  BY <2>1, <2>2
<1>5. /\ DOMAIN occurrences' \subseteq DOMAIN occurrences
      /\ \A o \in DOMAIN occurrences' :
           /\ occurrences'[o] \in [plan : Plans, targets : SUBSET Tasks,
                                  status : {"pending", "running", "ended", "cancelled"}]
           /\ occurrences'[o].plan \in DOMAIN plans \ gone
           /\ occurrences'[o].targets # {}
           /\ occurrences'[o].targets \subseteq DOMAIN tasks \ {t}
  <2>1. DOMAIN occurrences' = {i \in DOMAIN occurrences :
          /\ occurrences[i].plan \notin gone
          /\ occurrences[i].plan \in PlansOf(t) => occurrences[i].targets # {t}}
    BY <1>1, <1>2
  <2>2. ASSUME NEW o \in DOMAIN occurrences'
        PROVE  /\ occurrences'[o] \in [plan : Plans, targets : SUBSET Tasks,
                                      status : {"pending", "running", "ended", "cancelled"}]
               /\ occurrences'[o].plan \in DOMAIN plans \ gone
               /\ occurrences'[o].targets # {}
               /\ occurrences'[o].targets \subseteq DOMAIN tasks \ {t}
    <3>1. /\ o \in DOMAIN occurrences
          /\ occurrences[o] \in [plan : Plans, targets : SUBSET Tasks,
                                 status : {"pending", "running", "ended", "cancelled"}]
          /\ occurrences[o].plan \in DOMAIN plans \ gone
          /\ occurrences[o].targets # {} /\ occurrences[o].targets \subseteq DOMAIN tasks
          /\ occurrences[o].plan \in PlansOf(t) => occurrences[o].targets # {t}
      BY <2>1 DEF Types, WorkIsRooted
    <3>2. CASE occurrences[o].plan \in PlansOf(t)
      <4>1. occurrences'[o] = Pruned(occurrences[o], t)
        BY <1>1, <2>1, <3>2
      <4>2. CASE t \in occurrences[o].targets
        <5>1. /\ occurrences'[o].plan = occurrences[o].plan
              /\ occurrences'[o].targets = occurrences[o].targets \ {t}
          BY <3>1, <4>1, <4>2 DEF Pruned
        <5>2. occurrences'[o] \in [plan : Plans, targets : SUBSET Tasks,
                                  status : {"pending", "running", "ended", "cancelled"}]
          <6>1. PICK status \in {"pending", "running", "ended", "cancelled"} :
                  occurrences'[o] = [occurrences[o] EXCEPT !.targets = @ \ {t}, !.status = status]
            BY <3>1, <4>1, <4>2 DEF Pruned
          <6>2. occurrences[o].targets \ {t} \in SUBSET Tasks
            BY <3>1
          <6>3. QED  BY <3>1, <6>1, <6>2
        <5>3. occurrences[o].targets \ {t} # {}
          BY <3>1, <3>2
        <5>4. QED  BY <3>1, <5>1, <5>2, <5>3
      <4>3. CASE t \notin occurrences[o].targets
        BY <3>1, <4>1, <4>3 DEF Pruned
      <4>4. QED  BY <4>2, <4>3
    <3>3. CASE occurrences[o].plan \notin PlansOf(t)
      <4>1. occurrences'[o] = occurrences[o]
        BY <1>1, <2>1, <3>3
      <4>2. t \notin occurrences[o].targets
        BY <3>1, <3>3 DEF PlansOf
      <4>3. QED  BY <3>1, <4>1, <4>2
    <3>4. QED  BY <3>2, <3>3
  <2>3. QED  BY <2>1, <2>2
<1>6. /\ DOMAIN works' = {w \in DOMAIN works : works[w].task # t}
      /\ \A w \in DOMAIN works' :
           /\ works'[w] \in [kind : {"run", "operation", "lease"}, task : Tasks,
                             plan : Plans \cup {None}, status : {"open", "good", "bad"}]
           /\ works'[w].task = works[w].task
           /\ works'[w].plan = IF works[w].plan \in gone THEN None ELSE works[w].plan
  <2> DEFINE left == Only(works, {w \in DOMAIN works : works[w].task # t})
  <2>1. /\ DOMAIN left = {w \in DOMAIN works : works[w].task # t}
        /\ \A w \in DOMAIN left : left[w] = works[w]
    BY DEF Only
  <2>2. works' = Unplanned(left, gone)
    BY <1>1, <1>2
  <2> HIDE DEF left
  <2>3. /\ DOMAIN works' = DOMAIN left
        /\ \A w \in DOMAIN left :
             works'[w] = IF left[w].plan \in gone THEN [left[w] EXCEPT !.plan = None] ELSE left[w]
    BY <2>2 DEF Unplanned
  <2>4. \A w \in DOMAIN works : works[w] \in [kind : {"run", "operation", "lease"}, task : Tasks,
                             plan : Plans \cup {None}, status : {"open", "good", "bad"}]
    BY DEF Types
  <2>5. ASSUME NEW w \in DOMAIN works'
        PROVE  /\ works'[w] \in [kind : {"run", "operation", "lease"}, task : Tasks,
                                plan : Plans \cup {None}, status : {"open", "good", "bad"}]
               /\ works'[w].task = works[w].task
               /\ works'[w].plan = IF works[w].plan \in gone THEN None ELSE works[w].plan
    <3>1. w \in DOMAIN works /\ left[w] = works[w]
      BY <2>1, <2>3
    <3>2. works'[w] = IF works[w].plan \in gone THEN [works[w] EXCEPT !.plan = None] ELSE works[w]
      BY <2>3, <3>1
    <3>3. QED  BY <2>4, <3>1, <3>2
  <2>6. QED  BY <2>1, <2>3, <2>5
<1>7. Types'
  <2>1. /\ plans' \in [DOMAIN plans' -> [enabled : BOOLEAN, tasks : SUBSET Tasks]]
        /\ DOMAIN plans' \subseteq Plans
    BY <1>1, <1>4 DEF Types
  <2>2. occurrences' \in [DOMAIN occurrences' -> [plan : Plans, targets : SUBSET Tasks,
                            status : {"pending", "running", "ended", "cancelled"}]]
    BY <1>1, <1>5
  <2>3. works' \in [DOMAIN works' -> [kind : {"run", "operation", "lease"}, task : Tasks,
                      plan : Plans \cup {None}, status : {"open", "good", "bad"}]]
    BY <1>1, <1>6 DEF Unplanned
  <2>4. QED  BY <1>1, <2>1, <2>2, <2>3 DEF Types, Only
<1>8. WorkIsRooted'
  <2>1. DOMAIN tasks' = DOMAIN tasks \ {t}
    BY <1>1 DEF Only
  <2>2. {p.task : p \in previews'} \cup DOMAIN policies' \subseteq DOMAIN tasks'
    BY <1>1, <2>1 DEF WorkIsRooted, Only
  <2>3. \A w \in DOMAIN works' :
          works'[w].task \in DOMAIN tasks' /\ works'[w].plan \in DOMAIN plans' \cup {None}
    BY <1>4, <1>6, <2>1 DEF WorkIsRooted
  <2>4. QED  BY <1>4, <1>5, <2>1, <2>2, <2>3 DEF WorkIsRooted
<1>9. TasksFit'
  BY <1>1 DEF TasksFit, ScopeConfirmed, PoliciesFit, Only
<1>10. RowsConfirmed' /\ TargetsNamed'
  BY <1>1 DEF RowsConfirmed, TargetsNamed
<1>11. QED  BY <1>7, <1>8, <1>9, <1>10

(* Recovery closes rows, and removes none.                                 *)
LEMMA RestartStep == ASSUME IInv, Restart PROVE Linked'
<1> USE DEF IInv, Linked, Restart
<1>1. /\ DOMAIN works' = DOMAIN works
      /\ \A w \in DOMAIN works :
           /\ works'[w] \in [kind : {"run", "operation", "lease"}, task : Tasks,
                             plan : Plans \cup {None}, status : {"open", "good", "bad"}]
           /\ works'[w].task = works[w].task /\ works'[w].plan = works[w].plan
  BY DEF Types
<1>2. /\ DOMAIN occurrences' = DOMAIN occurrences
      /\ \A o \in DOMAIN occurrences :
           /\ occurrences'[o] \in [plan : Plans, targets : SUBSET Tasks,
                                  status : {"pending", "running", "ended", "cancelled"}]
           /\ occurrences'[o].plan = occurrences[o].plan
           /\ occurrences'[o].targets = occurrences[o].targets
  BY DEF Types
<1>3. Types'
  <2>1. works' \in [DOMAIN works' -> [kind : {"run", "operation", "lease"}, task : Tasks,
                      plan : Plans \cup {None}, status : {"open", "good", "bad"}]]
    BY <1>1
  <2>2. occurrences' \in [DOMAIN occurrences' -> [plan : Plans, targets : SUBSET Tasks,
                            status : {"pending", "running", "ended", "cancelled"}]]
    BY <1>2
  <2>3. QED  BY <2>1, <2>2 DEF Types
<1>4. WorkIsRooted'
  BY <1>1, <1>2 DEF WorkIsRooted
<1>5. TasksFit'
  BY DEF TasksFit, ScopeConfirmed, PoliciesFit
<1>6. RowsConfirmed' /\ TargetsNamed'
  BY DEF RowsConfirmed, TargetsNamed
<1>7. QED  BY <1>3, <1>4, <1>5, <1>6

(* Ids are given out once.                                                 *)
LEMMA IdsStep == ASSUME IdsUsed, Next PROVE IdsUsed'
<1> USE DEF IdsUsed, rows
<1>1. CASE CreateTask
  BY <1>1 DEF CreateTask, Set, Unused
<1>2. CASE StartScan \/ EditTask \/ EditRules \/ ReadPlan
  BY <1>2 DEF StartScan, EditTask, EditRules, ReadPlan
<1>3. CASE CreateTaskScopePreview \/ PreviewExpires \/ ConsumeTaskScopePreview
  BY <1>3 DEF CreateTaskScopePreview, PreviewExpires, ConsumeTaskScopePreview
<1>4. CASE UpdateTask
  BY <1>4 DEF UpdateTask
<1>5. CASE SaveRestoreVerificationPolicy \/ DeleteRestoreVerificationPolicy
  BY <1>5 DEF SaveRestoreVerificationPolicy, DeleteRestoreVerificationPolicy
<1>6. CASE CreatePlan \/ UpdatePlan \/ DeletePlan \/ CreateScheduleOccurrence
  BY <1>6 DEF CreatePlan, UpdatePlan, DeletePlan, CreateScheduleOccurrence, Unused
<1>7. CASE ClaimScheduleOccurrence \/ FinishScheduleOccurrence
  BY <1>7 DEF ClaimScheduleOccurrence, FinishScheduleOccurrence
<1>8. CASE StartPlannedRun \/ StartWork \/ CreateAgentLease \/ FinishWork \/ RunExpires
  BY <1>8 DEF StartPlannedRun, StartWork, CreateAgentLease, FinishWork, RunExpires, Unused
<1>9. CASE DeleteTask \/ Restart
  BY <1>9 DEF DeleteTask, Restart, Only
<1>10. QED  BY <1>1, <1>2, <1>3, <1>4, <1>5, <1>6, <1>7, <1>8, <1>9 DEF Next

LEMMA Invariance == Spec => []IInv
<1>1. IInv /\ [Next]_vars => IInv'
  <2> SUFFICES ASSUME IInv, [Next]_vars PROVE IInv'  OBVIOUS
  <2>1. CASE Next
    <3>1. Linked'
      BY <2>1, CallSteps, PreviewSteps, TaskSteps, PlanSteps, WorkSteps, DeleteStep, RestartStep
         DEF Next
    <3>2. QED  BY <2>1, <3>1, IdsStep DEF IInv
  <2>2. CASE UNCHANGED vars
    BY <2>2 DEF vars, rows, IInv, Linked, IdsUsed, Types, WorkIsRooted, TasksFit,
         ScopeConfirmed, PoliciesFit,
                RowsConfirmed, TargetsNamed
  <2>3. QED  BY <2>1, <2>2
<1>2. QED  BY InitIInv, <1>1, PTL DEF Spec

-----------------------------------------------------------------------------
(* logical_references.go:18: for any tasks, plans and work, and any number *)
(* of calls that overlap with the deletion of a task or a plan, no row is  *)
(* left, or comes later, that names what is gone.                          *)
THEOREM NothingOutlivesItsTask == Spec => []WorkIsRooted
<1>1. IInv => WorkIsRooted
  BY DEF IInv, Linked
<1>2. QED  BY Invariance, <1>1, PTL

(* server.go:6925, restore_verification.go:62: for any number of edits,    *)
(* scans and confirmations that overlap, an enabled task has the           *)
(* confirmation of the scope it has, and a policy fits its task.           *)
THEOREM ConfirmationsFit == Spec => []TasksFit
<1>1. IInv => TasksFit
  BY DEF IInv, Linked
<1>2. QED  BY Invariance, <1>1, PTL

-----------------------------------------------------------------------------
(* AgentEndpoint: the settings in the store, in memory and in the listener *)
(* differ while Configure works, and each of its steps knows how.          *)

EndpointSteps == {"store", "stop", "build", "rollback", "undo"}

(* What a listener shows when it is the one that the settings ask for.     *)
Serves ==
  /\ listeners = IF instance = None THEN {} ELSE {instance}
  /\ instance \in {settings, None}
  /\ settings # "off" /\ instance = None => lastError

(* Until the settings are stored, the store has those to go back to.       *)
EndpointInv ==
  /\ stored \in Ports \cup {"off", None} /\ settings \in Ports \cup {"off", None}
  /\ settings = None => configuring = Endpoint!NoCall /\ instance = None /\ listeners = {}
  /\ configuring = Endpoint!NoCall /\ settings # None => stored \in {settings, None} /\ Serves
  /\ configuring # Endpoint!NoCall =>
       /\ configuring \in [at : EndpointSteps, requested : Endpoint!Settings, old : Endpoint!Settings]
       /\ stored \in {configuring.old, None}
       /\ configuring.at = "store" => settings = configuring.requested /\ Serves
       /\ configuring.at # "store" => instance = None
       /\ configuring.at \in {"build", "rollback"} => listeners = {}

LEMMA EndpointInductive ==
  ASSUME EndpointInv, [Endpoint!Next]_(Endpoint!vars)
  PROVE  EndpointInv'
<1> USE EndpointAssumption
    DEF EndpointInv, Serves, EndpointSteps, Endpoint!PortsAssumption, Endpoint!NoCall,
        Endpoint!None, Endpoint!Off, Endpoint!Settings, None
<1> USE DEF Endpoint!Go, Endpoint!Calm, Endpoint!Trouble, Endpoint!Listen,
            Endpoint!Unavailable
<1>1. CASE Endpoint!Start
  BY <1>1 DEF Endpoint!Start
<1>2. CASE Endpoint!Configure
  BY <1>2 DEF Endpoint!Configure
<1>3. CASE Endpoint!StopOld
  BY <1>3 DEF Endpoint!StopOld
<1>4. CASE Endpoint!Build
  BY <1>4 DEF Endpoint!Build
<1>5. CASE Endpoint!SaveAgentServiceSettings
  BY <1>5 DEF Endpoint!SaveAgentServiceSettings
<1>6. CASE Endpoint!StopNew
  BY <1>6 DEF Endpoint!StopNew, Endpoint!Undone
<1>7. CASE Endpoint!Rollback
  BY <1>7 DEF Endpoint!Rollback
<1>8. CASE Endpoint!ServeFails
  BY <1>8 DEF Endpoint!ServeFails
<1>9. CASE Endpoint!Stop
  BY <1>9 DEF Endpoint!Stop
<1>10. CASE UNCHANGED Endpoint!vars
  BY <1>10 DEF Endpoint!vars
<1> QED  BY <1>1, <1>2, <1>3, <1>4, <1>5, <1>6, <1>7, <1>8, <1>9, <1>10 DEF Endpoint!Next

(* manager.go:174-228: whenever no call is in progress, the endpoint does  *)
(* what the stored settings say, or shows that it could not, for any ports *)
(* and any number of calls, failures and crashes.                          *)
THEOREM EndpointFollowsStore == Endpoint!Spec => []EndpointAsStored
<1>1. Endpoint!Init => EndpointInv
  BY DEF Endpoint!Init, EndpointInv, Endpoint!NoCall, Endpoint!None, None
<1>2. EndpointInv => EndpointAsStored
  BY DEF EndpointInv, Serves, EndpointAsStored, Endpoint!EndpointAsStored, Endpoint!None,
         Endpoint!Off, None
<1> QED  BY <1>1, <1>2, EndpointInductive, PTL DEF Endpoint!Spec

-----------------------------------------------------------------------------
(* ResourceReferences: what a transaction has checked stays true, because  *)
(* whoever would make it false checks the same rows in its own transaction.*)

Maybe(ids) == ids \cup {None}

AgentRows      == [revoked : BOOLEAN, host : Maybe(Hosts)]
RepositoryRows == [engine : {"restic", "rsync"}, place : Hosts \cup Agents \cup {"control", "s3"},
                   ready : BOOLEAN, password : Maybe(Secrets), backend : Maybe(Secrets)]
(* What an edit writes, and the credentials it has put.                    *)
RepositoryEdits ==
  [engine : {"restic", "rsync"}, place : Hosts \cup Agents \cup {"control", "s3"},
   ready : BOOLEAN, put : Maybe(Secrets), backend : Maybe(Secrets)]
ConnectionRows == [purpose : {"backup", "restore"}, secret : Maybe(Secrets)]
ReferenceRows  == [kind : {"directory", "database", "rsync"}, place : Agents \cup {"control"},
                   repo : Maybe(Repos), host : Maybe(Hosts), conn : Maybe(Conns),
                   enabled : BOOLEAN, ran : BOOLEAN]

HostRowsTyped       == DOMAIN hosts \subseteq Hosts
AgentRowsTyped      == DOMAIN agents \subseteq Agents /\ \A g \in DOMAIN agents : agents[g] \in AgentRows
RepositoryRowsTyped == DOMAIN repos \subseteq Repos /\ \A r \in DOMAIN repos : repos[r] \in RepositoryRows
ConnectionRowsTyped == DOMAIN conns \subseteq Conns /\ \A c \in DOMAIN conns : conns[c] \in ConnectionRows
TaskRowsTyped ==
  /\ DOMAIN taskRows \subseteq TaskIds
  /\ \A t \in DOMAIN taskRows :
       taskRows[t] \in ReferenceRows /\ References!Form(taskRows[t]) \in TaskForms

RowsTyped ==
  /\ HostRowsTyped /\ AgentRowsTyped /\ RepositoryRowsTyped /\ ConnectionRowsTyped
  /\ TaskRowsTyped /\ vault \subseteq Secrets

(* The rows that calls are about to write; a new id belongs to one call.   *)
CallTyped(c) ==
  /\ c.do \in {"CreateHost", "UpdateHost"} => c.id \in Hosts
  /\ c.do = "CreateRepository" => c.id \in Repos /\ c.row \in RepositoryRows
  /\ c.do = "UpdateRepository" => c.id \in Repos /\ c.row \in RepositoryEdits
  /\ c.do \in {"CreateConnection", "UpdateConnection"} =>
       c.id \in Conns /\ c.row \in ConnectionRows
  /\ c.do \in {"CreateTask", "UpdateTask"} =>
       /\ c.id \in TaskIds /\ c.row \in ReferenceRows
       /\ References!Form(c.row) \in TaskForms /\ c.row.ran = FALSE

CallsTyped == \A c \in calls : CallTyped(c)

Creating == {"CreateRepository", "CreateConnection"}

NewIds ==
  /\ DOMAIN repos \cup DOMAIN conns \subseteq used
  /\ \A c \in calls :
       /\ c.do \in Creating => c.id \in used
       /\ c.do = "CreateRepository" => c.id \notin DOMAIN repos
       /\ c.do = "CreateConnection" => c.id \notin DOMAIN conns
  /\ \A c, d \in calls : c.do \in Creating /\ c.do = d.do /\ c.id = d.id => c = d

ReferencesInv ==
  RowsTyped /\ CallsTyped /\ NewIds /\ References!ReferencesHold

LEMMA CallsThatEnd ==
  ASSUME CallsTyped, NEW c, NEW secrets,
         References!End(c, secrets) \/ References!EndAtOnce(secrets)
  PROVE  CallsTyped'
BY DEF CallsTyped, CallTyped, References!End, References!EndAtOnce, References!Discards,
       References!Call

LEMMA CallsThatBegin ==
  ASSUME CallsTyped, NEW do, NEW id, NEW row, References!Begin(do, id, row),
         CallTyped(References!Call(do, id, row))
  PROVE  CallsTyped'
BY DEF CallsTyped, References!Begin

LEMMA IdsThatEnd ==
  ASSUME NewIds, NEW c, NEW secrets,
         References!End(c, secrets) \/ References!EndAtOnce(secrets),
         DOMAIN repos' = DOMAIN repos, DOMAIN conns' = DOMAIN conns, used' = used
  PROVE  NewIds'
BY DEF NewIds, Creating, References!End, References!EndAtOnce, References!Discards,
       References!Call

LEMMA IdsThatBegin ==
  ASSUME NewIds, NEW do, NEW id, NEW row, References!Begin(do, id, row), do \notin Creating,
         UNCHANGED <<repos, conns>>, used \subseteq used'
  PROVE  NewIds'
BY DEF NewIds, Creating, References!Begin, References!Call

(* What a transaction has checked of the row that it writes is enough.     *)
LEMMA RepositoryWritten ==
  ASSUME ReferencesInv, NEW r \in Repos, NEW row \in RepositoryRows,
         repos' = References!Set(repos, r, row), UNCHANGED <<hosts, agents, taskRows, conns, vault>>,
         References!PlaceExists(row.place), References!SecretsExist(row),
         r \in DOMAIN repos =>
           row.place = repos[r].place \/ ~References!LocationIsFixed(r)
  PROVE  RowsTyped' /\ References!ReferencesHold'
<1> USE DEF ReferencesInv, References!ReferencesHold, References!NoDanglingReferences,
            References!None, References!Control, References!S3, None, Maybe
<1>0. DOMAIN repos' = DOMAIN repos \cup {r} /\ repos'[r] = row
      /\ \A i \in DOMAIN repos \ {r} : repos'[i] = repos[i]
  BY DEF References!Set
<1>1. RowsTyped'
  BY <1>0 DEF RowsTyped, HostRowsTyped, AgentRowsTyped, RepositoryRowsTyped,
     ConnectionRowsTyped,
              TaskRowsTyped
<1>2. References!NoDanglingReferences'
  BY <1>0 DEF References!PlaceExists, References!SecretsExist
<1>3. References!PathsKeepTheirOwner'
  <2> SUFFICES ASSUME NEW t \in DOMAIN taskRows, taskRows[t].repo \in DOMAIN repos \cup {r},
                      repos'[taskRows[t].repo].place \in Agents \cup {"control"}
               PROVE  repos'[taskRows[t].repo].place = taskRows[t].place
    BY <1>0 DEF References!PathsKeepTheirOwner
  <2>1. r # None
    BY ReferencesAssumption DEF References!IdsAssumption
  <2>2. taskRows[t].repo \in DOMAIN repos
    BY <2>1
  <2> QED
    BY <1>0, <2>2 DEF References!PathsKeepTheirOwner, References!LocationIsFixed
<1> QED  BY <1>1, <1>2, <1>3

LEMMA ConnectionWritten ==
  ASSUME ReferencesInv, NEW c \in Conns, NEW row \in ConnectionRows,
         conns' = References!Set(conns, c, row), UNCHANGED <<hosts, agents, taskRows, repos, vault>>,
         row.secret \in vault,
         c \in DOMAIN conns =>
           row.purpose = conns[c].purpose \/ References!ConnectionIsFree(c)
  PROVE  RowsTyped' /\ References!ReferencesHold'
<1> USE DEF ReferencesInv, References!ReferencesHold, References!NoDanglingReferences,
            References!None, References!Control, References!S3, None, Maybe
<1>0. DOMAIN conns' = DOMAIN conns \cup {c} /\ conns'[c] = row
      /\ \A i \in DOMAIN conns \ {c} : conns'[i] = conns[i]
  BY DEF References!Set
<1>1. RowsTyped'
  BY <1>0 DEF RowsTyped, HostRowsTyped, AgentRowsTyped, RepositoryRowsTyped,
     ConnectionRowsTyped,
              TaskRowsTyped
<1>2. References!NoDanglingReferences'
  BY <1>0 DEF References!PlaceExists, References!SecretsExist,
     References!ConnectionIsFree
<1> QED  BY <1>1, <1>2 DEF References!PathsKeepTheirOwner

LEMMA TaskWritten ==
  ASSUME ReferencesInv, NEW t \in TaskIds, NEW row \in ReferenceRows,
         References!Form(row) \in TaskForms, References!ReferencesExist(t, References!Form(row)),
         taskRows' = References!Set(taskRows, t, row), UNCHANGED <<hosts, agents, conns, repos, vault>>
  PROVE  RowsTyped' /\ References!ReferencesHold'
<1> USE DEF ReferencesInv, References!ReferencesHold, References!NoDanglingReferences,
            References!None, References!Control, References!S3, None, Maybe
<1>0. DOMAIN taskRows' = DOMAIN taskRows \cup {t} /\ taskRows'[t] = row
      /\ \A i \in DOMAIN taskRows \ {t} : taskRows'[i] = taskRows[i]
  BY DEF References!Set
<1>1. RowsTyped'
  BY <1>0 DEF RowsTyped, HostRowsTyped, AgentRowsTyped, RepositoryRowsTyped,
     ConnectionRowsTyped,
              TaskRowsTyped
<1>2. /\ row.place \in DOMAIN agents \cup {"control"}
      /\ row.repo \in DOMAIN repos \cup {None} /\ row.host \in DOMAIN hosts \cup {None}
      /\ row.conn # None => row.conn \in DOMAIN conns /\ conns[row.conn].purpose = "backup"
  BY ReferencesAssumption DEF References!Form, References!ReferencesExist,
     References!OwnsPath,
     References!IdsAssumption, References!ValidTask, ReferenceRows
<1>3. References!NoDanglingReferences'
  BY <1>0, <1>2 DEF References!PlaceExists, References!SecretsExist
<1>4. row.repo \in DOMAIN repos /\ repos[row.repo].place \in Agents \cup {"control"} =>
        repos[row.repo].place = row.place
  <2> SUFFICES ASSUME row.repo # None  PROVE References!OwnsPath(References!Form(row))
    BY ReferencesAssumption DEF References!OwnsPath, References!Form,
       References!IdsAssumption, RowsTyped, RepositoryRowsTyped
  <2> QED  BY DEF References!Form, References!ReferencesExist
<1>5. References!PathsKeepTheirOwner'
  BY <1>0, <1>4 DEF References!PathsKeepTheirOwner
<1> QED  BY <1>1, <1>3, <1>5

(* The steps of each kind of resource keep the invariant.                 *)
LEMMA HostStepKeeps ==
  ASSUME ReferencesInv, References!HostStep
  PROVE  ReferencesInv'
<1> USE DEF ReferencesInv, References!None, References!Control, References!S3, None, Maybe
<1>1. CASE References!NewHost
  <2>1. RowsTyped'
    BY <1>1 DEF References!NewHost, RowsTyped, References!rows, HostRowsTyped,
       AgentRowsTyped, RepositoryRowsTyped, ConnectionRowsTyped, TaskRowsTyped,
       References!Put, References!Fresh
  <2>2. CallsTyped'
    BY <1>1, CallsThatBegin, ReferencesAssumption DEF References!NewHost, CallTyped,
       References!Call, References!IdsAssumption, RowsTyped, HostRowsTyped
  <2>3. NewIds'
    BY <1>1 DEF References!NewHost, NewIds, Creating, References!Begin, References!Call,
       References!Unused, References!rows
  <2>4. References!NoDanglingReferences'
    BY <1>1 DEF References!NewHost, References!ReferencesHold,
       References!NoDanglingReferences, References!PlaceExists, References!SecretsExist,
       References!rows, References!Put
  <2>5. References!PathsKeepTheirOwner'
    BY <1>1 DEF References!NewHost, References!ReferencesHold,
       References!PathsKeepTheirOwner, References!rows
  <2> QED  BY <2>1, <2>2, <2>3, <2>4, <2>5 DEF References!ReferencesHold
<1>2. CASE References!CreateHost
  <2> PICK c \in calls : References!CreateHost!(c)
    BY <1>2 DEF References!CreateHost
  <2>1. RowsTyped'
    <3>1. HostRowsTyped'
      BY DEF References!Set, RowsTyped, CallsTyped, CallTyped, HostRowsTyped
    <3> QED
      BY <3>1 DEF References!Set, RowsTyped, AgentRowsTyped, RepositoryRowsTyped,
         ConnectionRowsTyped, TaskRowsTyped
  <2>2. CallsTyped'
    BY CallsThatEnd
  <2>3. NewIds'
    BY IdsThatEnd
  <2>4. References!NoDanglingReferences'
    BY DEF References!Set, References!ReferencesHold, References!NoDanglingReferences,
       References!PlaceExists, References!SecretsExist, References!HostIsFree,
       RowsTyped, HostRowsTyped, CallsTyped, CallTyped
  <2>5. References!PathsKeepTheirOwner'
    BY DEF References!Set, References!ReferencesHold, References!PathsKeepTheirOwner
  <2> QED  BY <2>1, <2>2, <2>3, <2>4, <2>5 DEF References!ReferencesHold
<1>3. CASE References!EditHost
  <2>1. RowsTyped'
    BY <1>3 DEF References!EditHost, RowsTyped, References!rows, HostRowsTyped,
       AgentRowsTyped, RepositoryRowsTyped, ConnectionRowsTyped, TaskRowsTyped,
       References!Put, References!Fresh
  <2>2. CallsTyped'
    BY <1>3, CallsThatBegin, ReferencesAssumption DEF References!EditHost, CallTyped,
       References!Call, References!IdsAssumption, RowsTyped, HostRowsTyped
  <2>3. NewIds'
    BY <1>3, IdsThatBegin DEF References!EditHost, Creating, References!rows,
       References!Unused
  <2>4. References!NoDanglingReferences'
    BY <1>3 DEF References!EditHost, References!ReferencesHold,
       References!NoDanglingReferences, References!PlaceExists, References!SecretsExist,
       References!rows, References!Put
  <2>5. References!PathsKeepTheirOwner'
    BY <1>3 DEF References!EditHost, References!ReferencesHold,
       References!PathsKeepTheirOwner, References!rows
  <2> QED  BY <2>1, <2>2, <2>3, <2>4, <2>5 DEF References!ReferencesHold
<1>4. CASE References!UpdateHost
  <2> PICK c \in calls : References!UpdateHost!(c)
    BY <1>4 DEF References!UpdateHost
  <2>1. RowsTyped'
    <3>1. HostRowsTyped'
      BY DEF References!Set, RowsTyped, CallsTyped, CallTyped, HostRowsTyped
    <3> QED
      BY <3>1 DEF References!Set, RowsTyped, AgentRowsTyped, RepositoryRowsTyped,
         ConnectionRowsTyped, TaskRowsTyped
  <2>2. CallsTyped'
    BY CallsThatEnd
  <2>3. NewIds'
    BY IdsThatEnd
  <2>4. References!NoDanglingReferences'
    BY DEF References!Set, References!ReferencesHold, References!NoDanglingReferences,
       References!PlaceExists, References!SecretsExist, References!HostIsFree,
       RowsTyped, HostRowsTyped, CallsTyped, CallTyped
  <2>5. References!PathsKeepTheirOwner'
    BY DEF References!Set, References!ReferencesHold, References!PathsKeepTheirOwner
  <2> QED  BY <2>1, <2>2, <2>3, <2>4, <2>5 DEF References!ReferencesHold
<1>5. CASE References!DeleteHost
  <2>1. RowsTyped'
    <3>1. HostRowsTyped'
      BY <1>5 DEF References!DeleteHost, References!Without, RowsTyped, CallsTyped,
         CallTyped, HostRowsTyped
    <3>2. AgentRowsTyped'
      BY <1>5 DEF References!DeleteHost, References!Without, RowsTyped, AgentRowsTyped,
         AgentRows
    <3> QED
      BY <1>5, <3>1, <3>2 DEF References!DeleteHost, References!Without, RowsTyped,
         RepositoryRowsTyped, ConnectionRowsTyped, TaskRowsTyped
  <2>2. CallsTyped'
    BY <1>5, CallsThatEnd DEF References!DeleteHost
  <2>3. NewIds'
    BY <1>5, IdsThatEnd DEF References!DeleteHost
  <2>4. References!NoDanglingReferences'
    BY <1>5 DEF References!DeleteHost, References!Without, References!ReferencesHold,
       References!NoDanglingReferences, References!PlaceExists, References!SecretsExist,
       References!HostIsFree, RowsTyped, HostRowsTyped, CallsTyped, CallTyped
  <2>5. References!PathsKeepTheirOwner'
    BY <1>5 DEF References!DeleteHost, References!Without, References!ReferencesHold,
       References!PathsKeepTheirOwner
  <2> QED  BY <2>1, <2>2, <2>3, <2>4, <2>5 DEF References!ReferencesHold
<1> QED  BY <1>1, <1>2, <1>3, <1>4, <1>5 DEF References!HostStep

LEMMA AgentStepKeeps ==
  ASSUME ReferencesInv, References!AgentStep
  PROVE  ReferencesInv'
<1> USE DEF ReferencesInv, References!None, References!Control, References!S3, None, Maybe
<1>1. CASE References!EnrollAgent
  <2>1. RowsTyped'
    <3>1. AgentRowsTyped'
      BY <1>1 DEF References!EnrollAgent, References!Set, RowsTyped, CallsTyped,
         CallTyped, AgentRowsTyped, AgentRows
    <3> QED
      BY <1>1, <3>1 DEF References!EnrollAgent, References!Set, RowsTyped,
         HostRowsTyped, RepositoryRowsTyped, ConnectionRowsTyped, TaskRowsTyped
  <2>2. CallsTyped'
    BY <1>1 DEF References!EnrollAgent, References!Set, CallsTyped
  <2>3. NewIds'
    BY <1>1 DEF References!EnrollAgent, References!Set, NewIds
  <2>4. References!NoDanglingReferences'
    BY <1>1 DEF References!EnrollAgent, References!Set, References!ReferencesHold,
       References!NoDanglingReferences, References!PlaceExists, References!SecretsExist,
       References!AgentIsFree, RowsTyped, AgentRowsTyped, AgentRows, CallsTyped,
       CallTyped
  <2>5. References!PathsKeepTheirOwner'
    BY <1>1 DEF References!EnrollAgent, References!Set, References!ReferencesHold,
       References!PathsKeepTheirOwner
  <2> QED  BY <2>1, <2>2, <2>3, <2>4, <2>5 DEF References!ReferencesHold
<1>2. CASE References!BindAgent
  <2>1. RowsTyped'
    BY <1>2 DEF References!BindAgent, RowsTyped, HostRowsTyped, AgentRowsTyped,
       AgentRows,
                 RepositoryRowsTyped, ConnectionRowsTyped, TaskRowsTyped
  <2>2. CallsTyped'
    BY <1>2 DEF References!BindAgent, CallsTyped
  <2>3. NewIds'
    BY <1>2 DEF References!BindAgent, NewIds
  <2>4. References!NoDanglingReferences'
    BY <1>2 DEF References!BindAgent, References!ReferencesHold,
       References!NoDanglingReferences, References!PlaceExists, References!SecretsExist,
       References!AgentIsFree, RowsTyped, AgentRowsTyped, AgentRows, CallsTyped,
       CallTyped
  <2>5. References!PathsKeepTheirOwner'
    BY <1>2 DEF References!BindAgent, References!ReferencesHold,
       References!PathsKeepTheirOwner
  <2> QED  BY <2>1, <2>2, <2>3, <2>4, <2>5 DEF References!ReferencesHold
<1>3. CASE References!RevokeAgent
  <2>1. RowsTyped'
    <3>1. AgentRowsTyped'
      BY ZenonT(60), <1>3 DEF References!RevokeAgent, RowsTyped, CallsTyped, CallTyped,
         AgentRowsTyped, AgentRows
    <3> QED
      BY <1>3, <3>1 DEF References!RevokeAgent, RowsTyped, HostRowsTyped,
         RepositoryRowsTyped, ConnectionRowsTyped, TaskRowsTyped
  <2>2. CallsTyped'
    BY <1>3 DEF References!RevokeAgent, CallsTyped
  <2>3. NewIds'
    BY <1>3 DEF References!RevokeAgent, NewIds
  <2>4. References!NoDanglingReferences'
    BY <1>3 DEF References!RevokeAgent, References!ReferencesHold,
       References!NoDanglingReferences, References!PlaceExists, References!SecretsExist,
       References!AgentIsFree, RowsTyped, AgentRowsTyped, AgentRows, CallsTyped,
       CallTyped
  <2>5. References!PathsKeepTheirOwner'
    BY <1>3 DEF References!RevokeAgent, References!ReferencesHold,
       References!PathsKeepTheirOwner
  <2> QED  BY <2>1, <2>2, <2>3, <2>4, <2>5 DEF References!ReferencesHold
<1>4. CASE References!DeleteAgent
  <2>1. RowsTyped'
    <3>1. AgentRowsTyped'
      BY <1>4 DEF References!DeleteAgent, References!Without, RowsTyped, CallsTyped,
         CallTyped, AgentRowsTyped, AgentRows
    <3> QED
      BY <1>4, <3>1 DEF References!DeleteAgent, References!Without, RowsTyped,
         HostRowsTyped, RepositoryRowsTyped, ConnectionRowsTyped, TaskRowsTyped
  <2>2. CallsTyped'
    BY <1>4 DEF References!DeleteAgent, References!Without, CallsTyped
  <2>3. NewIds'
    BY <1>4 DEF References!DeleteAgent, References!Without, NewIds
  <2>4. References!NoDanglingReferences'
    BY <1>4 DEF References!DeleteAgent, References!Without, References!ReferencesHold,
       References!NoDanglingReferences, References!PlaceExists, References!SecretsExist,
       References!AgentIsFree, RowsTyped, AgentRowsTyped, AgentRows, CallsTyped,
       CallTyped
  <2>5. References!PathsKeepTheirOwner'
    BY <1>4 DEF References!DeleteAgent, References!Without, References!ReferencesHold,
       References!PathsKeepTheirOwner
  <2> QED  BY <2>1, <2>2, <2>3, <2>4, <2>5 DEF References!ReferencesHold
<1> QED  BY <1>1, <1>2, <1>3, <1>4 DEF References!AgentStep

LEMMA RepositoryStepKeeps ==
  ASSUME ReferencesInv, References!RepositoryStep
  PROVE  ReferencesInv'
<1> USE DEF ReferencesInv, References!None, References!Control, References!S3, None, Maybe
<1>1. CASE References!NewRepository
  <2>1. RowsTyped'
    BY <1>1 DEF References!NewRepository, RowsTyped, References!rows, HostRowsTyped,
       AgentRowsTyped, RepositoryRowsTyped, ConnectionRowsTyped, TaskRowsTyped,
       References!Put, References!Fresh
  <2>2. CallsTyped'
    BY ZenonT(60), <1>1, CallsThatBegin, ReferencesAssumption DEF References!NewRepository,
       CallTyped, References!Call, References!IdsAssumption, RowsTyped,
       RepositoryRowsTyped, RepositoryRows
  <2>3. NewIds'
    BY <1>1 DEF References!NewRepository, NewIds, Creating, References!Begin,
       References!Call, References!Unused, References!rows
  <2>4. References!NoDanglingReferences'
    BY <1>1 DEF References!NewRepository, References!ReferencesHold,
       References!NoDanglingReferences, References!PlaceExists, References!SecretsExist,
       References!rows, References!Put
  <2>5. References!PathsKeepTheirOwner'
    BY <1>1 DEF References!NewRepository, References!ReferencesHold,
       References!PathsKeepTheirOwner, References!rows
  <2> QED  BY <2>1, <2>2, <2>3, <2>4, <2>5 DEF References!ReferencesHold
<1>2. CASE References!CreateRepository
  <2> PICK c \in calls : References!CreateRepository!(c)
    BY <1>2 DEF References!CreateRepository
  <2>0. c.id \in Repos /\ c.row \in RepositoryRows /\ c.id \notin DOMAIN repos
    BY DEF CallsTyped, CallTyped, NewIds
  <2>1. RowsTyped' /\ References!ReferencesHold'
    <3>1. CASE repos' = repos
      BY <3>1 DEF RowsTyped, HostRowsTyped, AgentRowsTyped, RepositoryRowsTyped,
         ConnectionRowsTyped,
             TaskRowsTyped, References!ReferencesHold, References!NoDanglingReferences,
             References!PathsKeepTheirOwner, References!PlaceExists, References!SecretsExist
    <3>2. CASE repos' # repos
      BY <3>2, <2>0, RepositoryWritten
    <3> QED  BY <3>1, <3>2
  <2>2. CallsTyped'
    BY CallsThatEnd
  <2>3. NewIds'
    BY DEF NewIds, Creating, References!End, References!Discards, References!Call,
       References!Set
  <2> QED  BY <2>1, <2>2, <2>3
<1>3. CASE References!RepositoryReady
  <2>1. RowsTyped'
    <3> PICK r \in DOMAIN repos : References!RepositoryReady!(r)
      BY <1>3 DEF References!RepositoryReady
    <3>1. [repos[r] EXCEPT !.ready = TRUE] \in RepositoryRows
      BY DEF RowsTyped, RepositoryRowsTyped, RepositoryRows
    <3>2. RepositoryRowsTyped'
      BY <3>1 DEF RowsTyped, RepositoryRowsTyped
    <3> QED
      BY <3>2 DEF RowsTyped, HostRowsTyped, AgentRowsTyped, ConnectionRowsTyped,
         TaskRowsTyped
  <2>2. CallsTyped'
    BY <1>3 DEF References!RepositoryReady, CallsTyped
  <2>3. NewIds'
    BY <1>3 DEF References!RepositoryReady, NewIds
  <2>4. References!NoDanglingReferences'
    BY <1>3 DEF References!RepositoryReady, References!ReferencesHold,
       References!NoDanglingReferences, References!PlaceExists, References!SecretsExist,
       References!LocationIsFixed, RowsTyped, RepositoryRowsTyped, RepositoryRows,
       CallsTyped, CallTyped
  <2>5. References!PathsKeepTheirOwner'
    BY <1>3 DEF References!RepositoryReady, References!ReferencesHold,
       References!PathsKeepTheirOwner, References!NoDanglingReferences, NewIds,
       Creating, References!LocationIsFixed
  <2> QED  BY <2>1, <2>2, <2>3, <2>4, <2>5 DEF References!ReferencesHold
<1>4. CASE References!EditRepository
  <2>1. RowsTyped'
    BY <1>4 DEF References!EditRepository, RowsTyped, References!rows, HostRowsTyped,
       AgentRowsTyped, RepositoryRowsTyped, ConnectionRowsTyped, TaskRowsTyped,
       References!Put, References!Fresh
  <2>2. CallsTyped'
    <3>1. PICK r \in DOMAIN repos, row \in RepositoryEdits :
             References!Begin("UpdateRepository", r, row)
      <4>1. PICK r \in DOMAIN repos, form \in RepositoryForms,
                 b \in Secrets \cup {"none"}, ready \in BOOLEAN,
                 backend \in Secrets \cup {"none"} :
              References!Begin("UpdateRepository", r,
                [engine |-> form.engine, place |-> form.place, ready |-> ready,
                 put |-> b, backend |-> backend])
        BY <1>4 DEF References!EditRepository, References!None, RowsTyped,
           RepositoryRowsTyped, RepositoryRows, Maybe
      <4>2. [engine |-> form.engine, place |-> form.place, ready |-> ready,
             put |-> b, backend |-> backend] \in RepositoryEdits
        BY ReferencesAssumption DEF References!IdsAssumption, RepositoryEdits, Maybe
      <4>3. QED  BY <4>1, <4>2
    <3>2. CallTyped(References!Call("UpdateRepository", r, row))
      BY <3>1 DEF CallTyped, References!Call, RowsTyped, RepositoryRowsTyped
    <3>3. QED  BY <3>1, <3>2, CallsThatBegin
  <2>3. NewIds'
    BY <1>4 DEF References!EditRepository, NewIds, Creating, References!Begin,
       References!Call, References!Unused, References!rows
  <2>4. References!NoDanglingReferences'
    BY <1>4 DEF References!EditRepository, References!ReferencesHold,
       References!NoDanglingReferences, References!PlaceExists, References!SecretsExist,
       References!rows, References!Put
  <2>5. References!PathsKeepTheirOwner'
    BY <1>4 DEF References!EditRepository, References!ReferencesHold,
       References!PathsKeepTheirOwner, References!rows
  <2> QED  BY <2>1, <2>2, <2>3, <2>4, <2>5 DEF References!ReferencesHold
<1>5. CASE References!UpdateRepository
  <2> PICK c \in calls : References!UpdateRepository!(c)
    BY <1>5 DEF References!UpdateRepository
  <2> DEFINE r    == c.id
             new  == [engine |-> c.row.engine, place |-> c.row.place, ready |-> c.row.ready,
                      password |-> repos[r].password, backend |-> c.row.backend]
  <2>0. r \in Repos /\ c.row \in RepositoryEdits
    BY DEF CallsTyped, CallTyped
  <2>1. \/ repos' = repos
        \/ /\ r \in DOMAIN repos /\ repos' = References!Set(repos, r, new)
           /\ new.place = repos[r].place \/ ~References!LocationIsFixed(r)
           /\ References!PlaceExists(new.place) /\ References!SecretsExist(new)
    OBVIOUS
  <2>2. CallsTyped'
    BY CallsThatEnd
  <2>3. DOMAIN repos' = DOMAIN repos
    BY <2>1 DEF References!Set
  <2>4. NewIds'
    BY <2>3, IdsThatEnd
  <2>5. RowsTyped' /\ References!ReferencesHold'
    <3>1. CASE repos' = repos
      BY <3>1 DEF RowsTyped, HostRowsTyped, AgentRowsTyped, RepositoryRowsTyped,
         ConnectionRowsTyped,
             TaskRowsTyped, References!ReferencesHold, References!NoDanglingReferences,
             References!PathsKeepTheirOwner, References!PlaceExists, References!SecretsExist
    <3>2. CASE repos' # repos
      <4>1. new \in RepositoryRows
        BY <2>0, <2>1, <3>2 DEF RowsTyped, RepositoryRowsTyped, RepositoryRows, RepositoryEdits
      <4> HIDE DEF new, r
      <4> QED  BY <4>1, <2>0, <2>1, <3>2, RepositoryWritten
    <3> QED  BY <3>1, <3>2
  <2> QED  BY <2>2, <2>4, <2>5
<1>6. CASE References!DeleteRepository
  <2>1. RowsTyped'
    <3>1. RepositoryRowsTyped'
      BY <1>6 DEF References!DeleteRepository, References!Without, RowsTyped,
         CallsTyped, CallTyped, RepositoryRowsTyped, RepositoryRows
    <3> QED
      BY <1>6, <3>1 DEF References!DeleteRepository, References!Without, RowsTyped,
         HostRowsTyped, AgentRowsTyped, ConnectionRowsTyped, TaskRowsTyped
  <2>2. CallsTyped'
    BY <1>6, CallsThatEnd DEF References!DeleteRepository
  <2>3. NewIds'
    BY <1>6 DEF References!DeleteRepository, References!Without, NewIds, Creating,
       References!End, References!EndAtOnce, References!Discards, References!Call
  <2>4. References!NoDanglingReferences'
    BY <1>6 DEF References!DeleteRepository, References!Without,
       References!ReferencesHold, References!NoDanglingReferences,
       References!PlaceExists, References!SecretsExist, References!LocationIsFixed,
       RowsTyped, RepositoryRowsTyped, RepositoryRows, CallsTyped, CallTyped
  <2>5. References!PathsKeepTheirOwner'
    BY <1>6 DEF References!DeleteRepository, References!Without,
       References!ReferencesHold, References!PathsKeepTheirOwner,
       References!NoDanglingReferences, NewIds, Creating, References!LocationIsFixed
  <2> QED  BY <2>1, <2>2, <2>3, <2>4, <2>5 DEF References!ReferencesHold
<1> QED  BY <1>1, <1>2, <1>3, <1>4, <1>5, <1>6 DEF References!RepositoryStep

LEMMA ConnectionStepKeeps ==
  ASSUME ReferencesInv, References!ConnectionStep
  PROVE  ReferencesInv'
<1> USE DEF ReferencesInv, References!None, References!Control, References!S3, None, Maybe
<1>1. CASE References!NewConnection
  <2>1. RowsTyped'
    BY <1>1 DEF References!NewConnection, RowsTyped, References!rows, HostRowsTyped,
       AgentRowsTyped, RepositoryRowsTyped, ConnectionRowsTyped, TaskRowsTyped,
       References!Put, References!Fresh
  <2>2. CallsTyped'
    BY <1>1, CallsThatBegin, ReferencesAssumption DEF References!NewConnection,
       CallTyped, References!Call, References!IdsAssumption, RowsTyped,
       ConnectionRowsTyped, ConnectionRows
  <2>3. NewIds'
    BY <1>1 DEF References!NewConnection, NewIds, Creating, References!Begin,
       References!Call, References!Unused, References!rows
  <2>4. References!NoDanglingReferences'
    BY <1>1 DEF References!NewConnection, References!ReferencesHold,
       References!NoDanglingReferences, References!PlaceExists, References!SecretsExist,
       References!rows, References!Put
  <2>5. References!PathsKeepTheirOwner'
    BY <1>1 DEF References!NewConnection, References!ReferencesHold,
       References!PathsKeepTheirOwner, References!rows
  <2> QED  BY <2>1, <2>2, <2>3, <2>4, <2>5 DEF References!ReferencesHold
<1>2. CASE References!CreateConnection
  <2> PICK c \in calls : References!CreateConnection!(c)
    BY <1>2 DEF References!CreateConnection
  <2>0. c.id \in Conns /\ c.row \in ConnectionRows /\ c.id \notin DOMAIN conns
    BY DEF CallsTyped, CallTyped, NewIds
  <2>1. RowsTyped' /\ References!ReferencesHold'
    <3>1. CASE conns' = conns
      BY <3>1 DEF RowsTyped, HostRowsTyped, AgentRowsTyped, RepositoryRowsTyped,
         ConnectionRowsTyped,
             TaskRowsTyped, References!ReferencesHold, References!NoDanglingReferences,
             References!PathsKeepTheirOwner, References!PlaceExists, References!SecretsExist
    <3>2. CASE conns' # conns
      BY <3>2, <2>0, ConnectionWritten
    <3> QED  BY <3>1, <3>2
  <2>2. CallsTyped'
    BY CallsThatEnd
  <2>3. NewIds'
    BY DEF NewIds, Creating, References!End, References!Discards, References!Call,
       References!Set
  <2> QED  BY <2>1, <2>2, <2>3
<1>3. CASE References!EditConnection
  <2>1. RowsTyped'
    BY <1>3 DEF References!EditConnection, RowsTyped, References!rows, HostRowsTyped,
       AgentRowsTyped, RepositoryRowsTyped, ConnectionRowsTyped, TaskRowsTyped,
       References!Put, References!Fresh
  <2>2. CallsTyped'
    BY <1>3, CallsThatBegin, ReferencesAssumption DEF References!EditConnection,
       CallTyped, References!Call, References!IdsAssumption, RowsTyped,
       ConnectionRowsTyped, ConnectionRows
  <2>3. NewIds'
    BY <1>3 DEF References!EditConnection, NewIds, Creating, References!Begin,
       References!Call, References!Unused, References!rows
  <2>4. References!NoDanglingReferences'
    BY <1>3 DEF References!EditConnection, References!ReferencesHold,
       References!NoDanglingReferences, References!PlaceExists, References!SecretsExist,
       References!rows, References!Put
  <2>5. References!PathsKeepTheirOwner'
    BY <1>3 DEF References!EditConnection, References!ReferencesHold,
       References!PathsKeepTheirOwner, References!rows
  <2> QED  BY <2>1, <2>2, <2>3, <2>4, <2>5 DEF References!ReferencesHold
<1>4. CASE References!UpdateConnection
  <2> PICK c \in calls : References!UpdateConnection!(c)
    BY <1>4 DEF References!UpdateConnection
  <2> DEFINE new == [c.row EXCEPT !.secret = IF c.row.secret = None THEN conns[c.id].secret
                                              ELSE c.row.secret]
  <2>0. c.id \in Conns /\ c.row \in ConnectionRows
    BY DEF CallsTyped, CallTyped
  <2>1. \/ conns' = conns
        \/ /\ c.id \in DOMAIN conns /\ conns' = References!Set(conns, c.id, new)
           /\ new.purpose = conns[c.id].purpose \/ References!ConnectionIsFree(c.id)
           /\ new.secret \in vault
    OBVIOUS
  <2>2. CallsTyped'
    BY CallsThatEnd
  <2>3. DOMAIN conns' = DOMAIN conns
    BY <2>1 DEF References!Set
  <2>4. NewIds'
    BY <2>3, IdsThatEnd
  <2>5. RowsTyped' /\ References!ReferencesHold'
    <3>1. CASE conns' = conns
      BY <3>1 DEF RowsTyped, HostRowsTyped, AgentRowsTyped, RepositoryRowsTyped,
         ConnectionRowsTyped,
             TaskRowsTyped, References!ReferencesHold, References!NoDanglingReferences,
             References!PathsKeepTheirOwner, References!PlaceExists, References!SecretsExist
    <3>2. CASE conns' # conns
      <4>1. new \in ConnectionRows
        BY <2>0, <2>1, <3>2 DEF RowsTyped, ConnectionRowsTyped, ConnectionRows
      <4> HIDE DEF new
      <4> QED  BY <4>1, <2>0, <2>1, <3>2, ConnectionWritten
    <3> QED  BY <3>1, <3>2
  <2> QED  BY <2>2, <2>4, <2>5
<1>5. CASE References!DeleteConnection
  <2>1. RowsTyped'
    <3>1. ConnectionRowsTyped'
      BY <1>5 DEF References!DeleteConnection, References!Without, RowsTyped,
         CallsTyped, CallTyped, ConnectionRowsTyped, ConnectionRows
    <3> QED
      BY <1>5, <3>1 DEF References!DeleteConnection, References!Without, RowsTyped,
         HostRowsTyped, AgentRowsTyped, RepositoryRowsTyped, TaskRowsTyped
  <2>2. CallsTyped'
    BY <1>5, CallsThatEnd DEF References!DeleteConnection
  <2>3. NewIds'
    BY <1>5 DEF References!DeleteConnection, References!Without, NewIds, Creating,
       References!End, References!EndAtOnce, References!Discards, References!Call
  <2>4. References!NoDanglingReferences'
    BY <1>5 DEF References!DeleteConnection, References!Without,
       References!ReferencesHold, References!NoDanglingReferences,
       References!PlaceExists, References!SecretsExist, References!ConnectionIsFree,
       RowsTyped, ConnectionRowsTyped, ConnectionRows, CallsTyped, CallTyped
  <2>5. References!PathsKeepTheirOwner'
    BY <1>5 DEF References!DeleteConnection, References!Without,
       References!ReferencesHold, References!PathsKeepTheirOwner
  <2> QED  BY <2>1, <2>2, <2>3, <2>4, <2>5 DEF References!ReferencesHold
<1> QED  BY <1>1, <1>2, <1>3, <1>4, <1>5 DEF References!ConnectionStep

LEMMA TaskStepKeeps ==
  ASSUME ReferencesInv, References!TaskStep
  PROVE  ReferencesInv'
<1> USE DEF ReferencesInv, References!None, References!Control, References!S3, None, Maybe
<1>1. CASE References!NewTask
  <2>1. RowsTyped'
    BY <1>1 DEF References!NewTask, RowsTyped, References!rows, HostRowsTyped,
       AgentRowsTyped, RepositoryRowsTyped, ConnectionRowsTyped, TaskRowsTyped,
       References!Put, References!Fresh
  <2>2. CallsTyped'
    <3> PICK t \in TaskIds, form \in TaskForms, enabled \in BOOLEAN :
               References!Begin("CreateTask", t, References!Row(form, enabled, FALSE))
      BY <1>1 DEF References!NewTask, RowsTyped, TaskRowsTyped
    <3>1. form \in [kind : {"directory", "database", "rsync"}, place : Agents \cup {"control"},
                   repo : Maybe(Repos), host : Maybe(Hosts), conn : Maybe(Conns)]
      BY ReferencesAssumption DEF References!IdsAssumption
    <3>2. References!Row(form, enabled, FALSE) \in ReferenceRows
      BY <3>1 DEF References!Row, ReferenceRows
    <3>3. References!Form(References!Row(form, enabled, FALSE)) = form
      BY <3>1 DEF References!Row, References!Form
    <3>4. References!Row(form, enabled, FALSE).ran = FALSE
      BY DEF References!Row
    <3> QED  BY <3>2, <3>3, <3>4, CallsThatBegin DEF CallTyped, References!Call
  <2>3. NewIds'
    <3> PICK t, row : References!Begin("CreateTask", t, row)
      BY <1>1 DEF References!NewTask
    <3>1. UNCHANGED <<repos, conns>> /\ used \subseteq used'
      BY <1>1 DEF References!NewTask, References!rows, References!Unused
    <3> QED  BY <3>1, IdsThatBegin DEF Creating
  <2>4. References!NoDanglingReferences'
    BY <1>1 DEF References!NewTask, References!ReferencesHold,
       References!NoDanglingReferences, References!PlaceExists, References!SecretsExist,
       References!rows, References!Put
  <2>5. References!PathsKeepTheirOwner'
    BY <1>1 DEF References!NewTask, References!ReferencesHold,
       References!PathsKeepTheirOwner, References!rows
  <2> QED  BY <2>1, <2>2, <2>3, <2>4, <2>5 DEF References!ReferencesHold
<1>2. CASE References!CreateTask
  <2> PICK c \in calls : References!CreateTask!(c)
    BY <1>2 DEF References!CreateTask
  <2>0. c.id \in TaskIds /\ c.row \in ReferenceRows /\ References!Form(c.row) \in TaskForms
    BY DEF CallsTyped, CallTyped
  <2>1. RowsTyped' /\ References!ReferencesHold'
    <3>1. CASE taskRows' = taskRows
      BY <3>1 DEF RowsTyped, HostRowsTyped, AgentRowsTyped, RepositoryRowsTyped,
         ConnectionRowsTyped,
             TaskRowsTyped, References!ReferencesHold, References!NoDanglingReferences,
             References!PathsKeepTheirOwner, References!PlaceExists, References!SecretsExist
    <3>2. CASE taskRows' # taskRows
      BY <3>2, <2>0, TaskWritten
    <3> QED  BY <3>1, <3>2
  <2>2. CallsTyped'
    BY CallsThatEnd
  <2>3. NewIds'
    BY IdsThatEnd
  <2> QED  BY <2>1, <2>2, <2>3
<1>3. CASE References!EditTask
  <2>1. RowsTyped'
    BY <1>3 DEF References!EditTask, RowsTyped, References!rows, HostRowsTyped,
       AgentRowsTyped, RepositoryRowsTyped, ConnectionRowsTyped, TaskRowsTyped,
       References!Put, References!Fresh
  <2>2. CallsTyped'
    <3> PICK t \in TaskIds, form \in TaskForms, enabled \in BOOLEAN :
               References!Begin("UpdateTask", t, References!Row(form, enabled, FALSE))
      BY <1>3 DEF References!EditTask, RowsTyped, TaskRowsTyped
    <3>1. form \in [kind : {"directory", "database", "rsync"}, place : Agents \cup {"control"},
                   repo : Maybe(Repos), host : Maybe(Hosts), conn : Maybe(Conns)]
      BY ReferencesAssumption DEF References!IdsAssumption
    <3>2. References!Row(form, enabled, FALSE) \in ReferenceRows
      BY <3>1 DEF References!Row, ReferenceRows
    <3>3. References!Form(References!Row(form, enabled, FALSE)) = form
      BY <3>1 DEF References!Row, References!Form
    <3>4. References!Row(form, enabled, FALSE).ran = FALSE
      BY DEF References!Row
    <3> QED  BY <3>2, <3>3, <3>4, CallsThatBegin DEF CallTyped, References!Call
  <2>3. NewIds'
    <3> PICK t, row : References!Begin("UpdateTask", t, row)
      BY <1>3 DEF References!EditTask
    <3>1. UNCHANGED <<repos, conns>> /\ used \subseteq used'
      BY <1>3 DEF References!EditTask, References!rows, References!Unused
    <3> QED  BY <3>1, IdsThatBegin DEF Creating
  <2>4. References!NoDanglingReferences'
    BY <1>3 DEF References!EditTask, References!ReferencesHold,
       References!NoDanglingReferences, References!PlaceExists, References!SecretsExist,
       References!rows, References!Put
  <2>5. References!PathsKeepTheirOwner'
    BY <1>3 DEF References!EditTask, References!ReferencesHold,
       References!PathsKeepTheirOwner, References!rows
  <2> QED  BY <2>1, <2>2, <2>3, <2>4, <2>5 DEF References!ReferencesHold
<1>4. CASE References!UpdateTask
  <2> PICK c \in calls : References!UpdateTask!(c)
    BY <1>4 DEF References!UpdateTask
  <2> DEFINE row == References!Row(References!Form(c.row), c.row.enabled, taskRows[c.id].ran)
  <2>0. c.id \in TaskIds /\ c.row \in ReferenceRows /\ References!Form(c.row) \in TaskForms
    BY DEF CallsTyped, CallTyped
  <2>1. RowsTyped' /\ References!ReferencesHold'
    <3>1. CASE taskRows' = taskRows
      BY <3>1 DEF RowsTyped, HostRowsTyped, AgentRowsTyped, RepositoryRowsTyped,
         ConnectionRowsTyped,
             TaskRowsTyped, References!ReferencesHold, References!NoDanglingReferences,
             References!PathsKeepTheirOwner, References!PlaceExists, References!SecretsExist
    <3>2. CASE taskRows' # taskRows
      <4>1. /\ c.id \in DOMAIN taskRows /\ References!ReferencesExist(c.id, References!Form(c.row))
            /\ taskRows' = References!Set(taskRows, c.id, row)
        BY <3>2
      <4>2. row \in ReferenceRows /\ References!Form(row) = References!Form(c.row)
        BY <2>0, <4>1 DEF References!Row, References!Form, RowsTyped, TaskRowsTyped,
           ReferenceRows
      <4> HIDE DEF row
      <4> QED  BY <4>1, <4>2, <2>0, TaskWritten
    <3> QED  BY <3>1, <3>2
  <2>2. CallsTyped'
    BY CallsThatEnd
  <2>3. NewIds'
    BY IdsThatEnd
  <2> QED  BY <2>1, <2>2, <2>3
<1>5. CASE References!DeleteTask
  <2>1. RowsTyped'
    <3>1. TaskRowsTyped'
      BY <1>5 DEF References!DeleteTask, References!Without, RowsTyped, CallsTyped,
         CallTyped, TaskRowsTyped, ReferenceRows, References!Row, References!Form
    <3> QED
      BY <1>5, <3>1 DEF References!DeleteTask, References!Without, RowsTyped,
         HostRowsTyped, AgentRowsTyped, RepositoryRowsTyped, ConnectionRowsTyped
  <2>2. CallsTyped'
    BY <1>5 DEF References!DeleteTask, References!Without, CallsTyped
  <2>3. NewIds'
    BY <1>5 DEF References!DeleteTask, References!Without, NewIds
  <2>4. References!NoDanglingReferences'
    BY <1>5 DEF References!DeleteTask, References!Without, References!ReferencesHold,
       References!NoDanglingReferences, References!PlaceExists, References!SecretsExist
  <2>5. References!PathsKeepTheirOwner'
    BY <1>5 DEF References!DeleteTask, References!Without, References!ReferencesHold,
       References!PathsKeepTheirOwner, References!NoDanglingReferences,
       References!ReferencesExist, References!OwnsPath, References!Form, References!Row
  <2> QED  BY <2>1, <2>2, <2>3, <2>4, <2>5 DEF References!ReferencesHold
<1>6. CASE References!RunSucceeds
  <2>1. RowsTyped'
    <3> PICK t \in DOMAIN taskRows : References!RunSucceeds!(t)
      BY <1>6 DEF References!RunSucceeds
    <3>1. /\ [taskRows[t] EXCEPT !.ran = TRUE] \in ReferenceRows
          /\ References!Form([taskRows[t] EXCEPT !.ran = TRUE]) = References!Form(taskRows[t])
      BY DEF RowsTyped, TaskRowsTyped, ReferenceRows, References!Form
    <3>2. TaskRowsTyped'
      BY <3>1 DEF RowsTyped, TaskRowsTyped
    <3> QED
      BY <3>2 DEF RowsTyped, HostRowsTyped, AgentRowsTyped, RepositoryRowsTyped,
         ConnectionRowsTyped
  <2>2. CallsTyped'
    BY <1>6 DEF References!RunSucceeds, CallsTyped
  <2>3. NewIds'
    BY <1>6 DEF References!RunSucceeds, NewIds
  <2>4. References!NoDanglingReferences'
    BY <1>6 DEF References!RunSucceeds, References!ReferencesHold,
       References!NoDanglingReferences, References!PlaceExists, References!SecretsExist
  <2>5. References!PathsKeepTheirOwner'
    BY <1>6 DEF References!RunSucceeds, References!ReferencesHold,
       References!PathsKeepTheirOwner, References!NoDanglingReferences,
       References!ReferencesExist, References!OwnsPath, References!Form, References!Row
  <2> QED  BY <2>1, <2>2, <2>3, <2>4, <2>5 DEF References!ReferencesHold
<1>7. CASE References!RunsExpire
  <2>1. RowsTyped'
    <3> PICK t \in DOMAIN taskRows : References!RunsExpire!(t)
      BY <1>7 DEF References!RunsExpire
    <3>1. /\ [taskRows[t] EXCEPT !.ran = FALSE] \in ReferenceRows
          /\ References!Form([taskRows[t] EXCEPT !.ran = FALSE]) = References!Form(taskRows[t])
      BY DEF RowsTyped, TaskRowsTyped, ReferenceRows, References!Form
    <3>2. TaskRowsTyped'
      BY <3>1 DEF RowsTyped, TaskRowsTyped
    <3> QED
      BY <3>2 DEF RowsTyped, HostRowsTyped, AgentRowsTyped, RepositoryRowsTyped,
         ConnectionRowsTyped
  <2>2. CallsTyped'
    BY <1>7 DEF References!RunsExpire, CallsTyped
  <2>3. NewIds'
    BY <1>7 DEF References!RunsExpire, NewIds
  <2>4. References!NoDanglingReferences'
    BY <1>7 DEF References!RunsExpire, References!ReferencesHold,
       References!NoDanglingReferences, References!PlaceExists, References!SecretsExist
  <2>5. References!PathsKeepTheirOwner'
    BY <1>7 DEF References!RunsExpire, References!ReferencesHold,
       References!PathsKeepTheirOwner, References!NoDanglingReferences,
       References!ReferencesExist, References!OwnsPath, References!Form, References!Row
  <2> QED  BY <2>1, <2>2, <2>3, <2>4, <2>5 DEF References!ReferencesHold
<1> QED  BY <1>1, <1>2, <1>3, <1>4, <1>5, <1>6, <1>7 DEF References!TaskStep

(* A secret goes only when no row has it.                                  *)
LEMMA DiscardKeeps ==
  ASSUME ReferencesInv, References!Discard
  PROVE  ReferencesInv'
<1> USE DEF ReferencesInv, References!rows, References!None, References!Control,
     References!S3, None
<1> PICK c \in calls : References!Discard!(c)
  BY DEF References!Discard
<1>1. vault' \subseteq vault /\ (vault' = vault \/ (~References!Referenced(c.id) /\ vault' = vault \ {c.id}))
  OBVIOUS
<1>2. RowsTyped'
  BY <1>1 DEF RowsTyped, HostRowsTyped, AgentRowsTyped, RepositoryRowsTyped,
     ConnectionRowsTyped,
              TaskRowsTyped
<1>3. References!ReferencesHold'
  BY <1>1 DEF References!ReferencesHold, References!NoDanglingReferences,
     References!Referenced,
              References!PathsKeepTheirOwner, References!PlaceExists, References!SecretsExist
<1> QED  BY <1>2, <1>3, CallsThatEnd, IdsThatEnd

LEMMA NothingHappens ==
  ASSUME ReferencesInv, UNCHANGED <<References!rows, vault, used>>, calls' \subseteq calls
  PROVE  ReferencesInv'
BY DEF ReferencesInv, References!rows, References!ReferencesHold, RowsTyped,
   HostRowsTyped, AgentRowsTyped,
       RepositoryRowsTyped, ConnectionRowsTyped, TaskRowsTyped, CallsTyped, NewIds,
       References!NoDanglingReferences, References!PathsKeepTheirOwner, References!PlaceExists,
       References!SecretsExist

LEMMA ReferencesInductive == References!Spec => []ReferencesInv
<1>1. References!Init => ReferencesInv
  BY DEF References!Init, References!Empty, ReferencesInv, RowsTyped, HostRowsTyped,
     AgentRowsTyped,
         RepositoryRowsTyped, ConnectionRowsTyped, TaskRowsTyped, CallsTyped, NewIds,
         References!ReferencesHold, References!NoDanglingReferences,
         References!PathsKeepTheirOwner
<1>2. ReferencesInv /\ [References!Next]_(References!vars) => ReferencesInv'
  <2> SUFFICES ASSUME ReferencesInv, [References!Next]_(References!vars) PROVE ReferencesInv'
    OBVIOUS
  <2>1. CASE References!Restart
    BY <2>1, NothingHappens DEF References!Restart
  <2>2. CASE UNCHANGED References!vars
    BY <2>2, NothingHappens DEF References!vars, References!rows
  <2> QED
    BY <2>1, <2>2, HostStepKeeps, AgentStepKeeps, RepositoryStepKeeps,
       ConnectionStepKeeps,
       TaskStepKeeps, DiscardKeeps DEF References!Next
<1> QED  BY <1>1, <1>2, PTL DEF References!Spec

(* CHANGELOG.md:32, logical_references.go:18: for any rows, any number of  *)
(* calls that overlap, and any failures and restarts, no row refers to a   *)
(* row or a secret that does not exist, and a task never gets to write to  *)
(* the path of a local repository on another machine than its own.         *)
THEOREM ReferencesStayValid == References!Spec => []ReferencesHold
<1>1. ReferencesInv => ReferencesHold
  BY DEF ReferencesInv, ReferencesHold
<1> QED  BY <1>1, ReferencesInductive, PTL

-----------------------------------------------------------------------------
(* Where the backups of a task are: neither its form nor the place of its  *)
(* repository moves while it has a good run.                               *)

LEMMA FormsStay ==
  ASSUME ReferencesInv, References!Next, NEW t \in DOMAIN taskRows \cap DOMAIN taskRows',
         taskRows[t].ran, taskRows'[t].ran
  PROVE  References!Form(taskRows'[t]) = References!Form(taskRows[t])
<1>1. CASE References!TaskStep
  <2>1. CASE References!CreateTask
    BY <2>1 DEF References!CreateTask, References!Set, ReferencesInv, CallsTyped,
       CallTyped
  <2>2. CASE References!UpdateTask
    <3> PICK c \in calls : References!UpdateTask!(c)
      BY <2>2 DEF References!UpdateTask
    <3> DEFINE row == References!Row(References!Form(c.row), c.row.enabled, taskRows[c.id].ran)
    <3>1. References!Form(row) = References!Form(c.row) /\ row.ran = taskRows[c.id].ran
      BY DEF References!Row, References!Form
    <3>2. CASE taskRows'[t] = taskRows[t]
      BY <3>2
    <3>3. CASE taskRows'[t] # taskRows[t]
      <4>1. /\ taskRows' = References!Set(taskRows, c.id, row)
            /\ taskRows[c.id].ran => References!Form(c.row) = References!Form(taskRows[c.id])
        BY <3>3
      <4> HIDE DEF row
      <4>2. t = c.id /\ taskRows'[t] = row
        BY <4>1, <3>3 DEF References!Set
      <4> QED  BY <3>1, <4>1, <4>2
    <3> QED  BY <3>2, <3>3
  <2>3. CASE References!DeleteTask
    BY <2>3 DEF References!DeleteTask, References!Without
  <2>4. CASE References!RunSucceeds
    BY <2>4 DEF References!RunSucceeds, References!Form
  <2>5. CASE References!RunsExpire
    BY <2>5 DEF References!RunsExpire, References!Form
  <2>6. CASE References!NewTask \/ References!EditTask
    BY <2>6 DEF References!NewTask, References!EditTask, References!rows
  <2> QED  BY <1>1, <2>1, <2>2, <2>3, <2>4, <2>5, <2>6 DEF References!TaskStep
<1>2. CASE ~References!TaskStep
  <2>1. taskRows' = taskRows
    BY <1>2 DEF References!Next, References!HostStep, References!AgentStep,
       References!RepositoryStep,
       References!ConnectionStep, References!Discard, References!Restart, References!rows,
       References!NewHost, References!CreateHost, References!EditHost, References!UpdateHost,
       References!DeleteHost, References!EnrollAgent, References!BindAgent,
       References!RevokeAgent,
       References!DeleteAgent, References!NewRepository, References!CreateRepository,
       References!RepositoryReady, References!EditRepository, References!UpdateRepository,
       References!DeleteRepository, References!NewConnection, References!CreateConnection,
       References!EditConnection, References!UpdateConnection, References!DeleteConnection
  <2> QED  BY <2>1
<1> QED  BY <1>1, <1>2

LEMMA PlacesStay ==
  ASSUME ReferencesInv, References!Next, NEW t \in DOMAIN taskRows,
         taskRows[t].repo \in DOMAIN repos
  PROVE  /\ taskRows[t].repo \in DOMAIN repos'
         /\ repos'[taskRows[t].repo].place = repos[taskRows[t].repo].place
<1> DEFINE r == taskRows[t].repo
<1>1. CASE References!RepositoryStep
  <2>1. CASE References!CreateRepository
    BY <2>1 DEF References!CreateRepository, References!Set, ReferencesInv, NewIds
  <2>2. CASE References!RepositoryReady
    BY <2>2 DEF References!RepositoryReady
  <2>3. CASE References!UpdateRepository
    BY <2>3 DEF References!UpdateRepository, References!Set, References!LocationIsFixed
  <2>4. CASE References!DeleteRepository
    BY <2>4 DEF References!DeleteRepository, References!Without,
       References!LocationIsFixed
  <2>5. CASE References!NewRepository \/ References!EditRepository
    BY <2>5 DEF References!NewRepository, References!EditRepository, References!rows
  <2> QED  BY <1>1, <2>1, <2>2, <2>3, <2>4, <2>5 DEF References!RepositoryStep
<1>2. CASE ~References!RepositoryStep
  <2>1. repos' = repos
    BY <1>2 DEF References!Next, References!HostStep, References!AgentStep,
       References!TaskStep,
       References!ConnectionStep, References!Discard, References!Restart, References!rows,
       References!NewHost, References!CreateHost, References!EditHost, References!UpdateHost,
       References!DeleteHost, References!EnrollAgent, References!BindAgent,
       References!RevokeAgent,
       References!DeleteAgent, References!NewConnection, References!CreateConnection,
       References!EditConnection, References!UpdateConnection, References!DeleteConnection,
       References!NewTask, References!CreateTask, References!EditTask, References!UpdateTask,
       References!DeleteTask, References!RunSucceeds, References!RunsExpire
  <2> QED  BY <2>1
<1> QED  BY <1>1, <1>2

(* crud.go:322: for any forms and any number of calls that overlap, no     *)
(* step moves the backups of a task while a good run of it is on record.   *)
THEOREM BackupsNeverMove == References!Spec => BackupsStayPut
<1> DEFINE Stay ==
      \A t \in DOMAIN taskRows \cap DOMAIN taskRows' :
        taskRows[t].ran /\ taskRows'[t].ran =>
          /\ References!Form(taskRows'[t]) = References!Form(taskRows[t])
          /\ taskRows[t].repo \in DOMAIN repos =>
               /\ taskRows[t].repo \in DOMAIN repos'
               /\ repos'[taskRows[t].repo].place = repos[taskRows[t].repo].place
<1>1. ReferencesInv /\ [References!Next]_(References!vars) => [Stay]_(References!vars)
  BY FormsStay, PlacesStay
<1> QED  BY <1>1, ReferencesInductive, PTL DEF References!Spec, BackupsStayPut,
   References!BackupsStayPut

-----------------------------------------------------------------------------
(* AgentIdentity: at most two certificates open the service, that of the   *)
(* Agent and one that may take its place; who may get the latter is known. *)

RequestRows == [do : {None, "enroll", "heartbeat", "renew"},
                at : {None, "consume", "authorize", "save", "answered"},
                serial : Serials \cup {None}, token : Tokens \cup {None}]
CertificateRows == [status : {"active", "pending", "retired"}, holder : Machines]

IdentityTyped ==
  /\ identity \in [status : {"absent", "active", "revoked"}, serial : Serials \cup {None}]
  /\ DOMAIN certs \subseteq Serials /\ \A s \in DOMAIN certs : certs[s] \in CertificateRows
  /\ age \in [Serials -> {"fresh", "due", "expired"}]
  /\ disk \in [Machines -> Serials \cup {None}]
  /\ requests \in [Machines -> RequestRows] /\ overtaken \subseteq Machines

(* A serial is of one certificate, for ever.                               *)
SerialsIssued ==
  /\ DOMAIN certs \subseteq given
  /\ \A m \in Machines : disk[m] # None => disk[m] \in given
  /\ \A s \in Serials \ given : age[s] = "fresh"

(* A machine has one request at a time, with the certificate it has.       *)
Asks(m) == requests[m].do \in {"heartbeat", "renew"} /\ requests[m].at # "answered"
RequestsFit ==
  \A m \in Machines :
    /\ requests[m].at = "answered" => requests[m].serial \in given
    /\ Asks(m) => requests[m].serial = disk[m] /\ disk[m] # None
    /\ Asks(m) /\ requests[m].do = "renew" => age[disk[m]] # "fresh"
    /\ requests[m].do = "enroll" /\ requests[m].at # "answered" => disk[m] = None

(* A machine has its own certificates only.                                *)
CertificatesAreOwn ==
  \A m \in Machines :
    /\ disk[m] # None /\ disk[m] \in DOMAIN certs => certs[disk[m]].holder = m
    /\ requests[m].at = "answered" /\ requests[m].serial \in DOMAIN certs =>
         certs[requests[m].serial].holder = m

OneOfEach ==
  /\ identity.status = "absent" => DOMAIN certs = {}
  /\ identity.status # "absent" =>
       identity.serial \in DOMAIN certs /\ certs[identity.serial].status = "active"
  /\ \A s \in DOMAIN certs : certs[s].status = "active" => s = identity.serial
  /\ \A s, r \in DOMAIN certs : certs[s].status = "pending" /\ certs[r].status = "pending" => s = r
  /\ \A s \in DOMAIN certs : certs[s].status = "pending" => age[s] = "fresh"

Owner == certs[identity.serial].holder

(* Besides machines that a revocation overtook, the one that enrolled last *)
(* has certificates that open the service, and no other is to get one.     *)
RenewersAre(first) ==
  /\ \A s \in DOMAIN certs : Identity!Live(s) => certs[s].holder \in overtaken \cup {first}
  /\ \A m \in Machines : Identity!At(m, "renew", "save") =>
       m \in overtaken \/ (identity.status = "active" /\ m = first)
RenewersKnown == \E first \in Machines \cup {None} : RenewersAre(first)

(* The Agent has a certificate that opens the service, or is sent one.     *)
OwnerKeepsAccess ==
  identity.status = "active" /\ overtaken = {} =>
    /\ disk[Owner] # None => Identity!Live(disk[Owner])
    /\ requests[Owner].at = "answered" => Identity!Live(requests[Owner].serial)

IdentityInv ==
  /\ IdentityTyped /\ SerialsIssued /\ RequestsFit /\ CertificatesAreOwn
  /\ OneOfEach /\ RenewersKnown /\ OwnerKeepsAccess

(* What a step makes of the certificates: they are retired, never altered. *)
Succeed(s, status, m, retired) ==
  /\ DOMAIN certs' = DOMAIN certs \cup {s} /\ certs'[s] = [status |-> status, holder |-> m]
  /\ \A r \in DOMAIN certs : certs'[r].holder = certs[r].holder
  /\ \A r \in DOMAIN certs : certs'[r] \in CertificateRows
  /\ \A r \in DOMAIN certs :
       certs'[r].status = IF certs[r].status \in retired THEN "retired" ELSE certs[r].status

LEMMA CertificateIssued ==
  ASSUME IdentityInv, NEW s \in Serials \ given, NEW m \in Machines
  PROVE  /\ certs' = Identity!Issue(Identity!Retired, s, "active", m) =>
              Succeed(s, "active", m, {"active", "pending"})
         /\ certs' = Identity!Issue(Identity!Replaced, s, "pending", m) =>
              Succeed(s, "pending", m, {"pending"})
<1> USE DEF IdentityInv, IdentityTyped, CertificateRows, SerialsIssued, Succeed, Identity!Issue
<1>1. certs' = Identity!Issue(Identity!Retired, s, "active", m) =>
        Succeed(s, "active", m, {"active", "pending"})
  BY DEF Identity!Retired, Identity!Retire, Identity!Live
<1>2. certs' = Identity!Issue(Identity!Replaced, s, "pending", m) =>
        Succeed(s, "pending", m, {"pending"})
  BY DEF Identity!Replaced, Identity!Retire, Identity!Live
<1> QED  BY <1>1, <1>2

LEMMA CertificateUsed ==
  ASSUME IdentityInv, NEW s \in DOMAIN certs, certs' = Identity!Activated(s),
         certs[s].status \in {"active", "pending"}
  PROVE  /\ DOMAIN certs' = DOMAIN certs /\ certs'[s].status = "active"
         /\ \A r \in DOMAIN certs : certs'[r] \in CertificateRows
         /\ \A r \in DOMAIN certs : certs'[r].holder = certs[r].holder
         /\ \A r \in DOMAIN certs \ {s} :
              certs'[r].status = IF certs[r].status = "active" THEN "retired" ELSE certs[r].status
BY DEF IdentityInv, IdentityTyped, CertificateRows, OneOfEach, Identity!Activated

LEMMA RequestDropped ==
  ASSUME IdentityInv, NEW m \in Machines, requests' = [requests EXCEPT ![m] = Identity!NoRequest],
         UNCHANGED <<identity, certs, given, age, disk, overtaken>>
  PROVE  IdentityInv'
<1> USE DEF IdentityInv, IdentityTyped, RequestRows, Identity!NoRequest, Identity!Request,
     Identity!None, None
<1>1. IdentityTyped' /\ SerialsIssued' /\ OneOfEach'
  BY DEF SerialsIssued, OneOfEach
<1>2. RequestsFit' /\ CertificatesAreOwn'
  BY DEF RequestsFit, Asks, CertificatesAreOwn
<1> PICK first \in Machines \cup {None} : RenewersAre(first)
  BY DEF RenewersKnown
<1>3. RenewersAre(first)'
  BY DEF RenewersAre, Identity!Live, Identity!At
<1>4. OwnerKeepsAccess'
  BY DEF OwnerKeepsAccess, Owner, Identity!Live
<1> QED  BY <1>1, <1>2, <1>3, <1>4 DEF RenewersKnown

LEMMA IdentityInductive ==
  ASSUME IdentityInv, [Identity!Next]_(Identity!vars)
  PROVE  IdentityInv'
<1> USE DEF IdentityInv, Identity!None, None, Identity!At
<1>1. CASE Identity!CreateEnrollmentToken
  <2>1. IdentityTyped'
    BY <1>1 DEF Identity!CreateEnrollmentToken, Identity!Request, Identity!NoRequest,
       Identity!Send, Identity!Move, Identity!Drop, Identity!Answer, IdentityTyped,
       RequestRows, CertificateRows
  <2>2. SerialsIssued'
    BY <1>1 DEF Identity!CreateEnrollmentToken, Identity!Request, Identity!NoRequest,
       Identity!Send, Identity!Move, Identity!Drop, Identity!Answer, IdentityTyped,
       RequestRows, SerialsIssued, RequestsFit, Asks
  <2>3. RequestsFit'
    BY <1>1 DEF Identity!CreateEnrollmentToken, Identity!Request, Identity!NoRequest,
       Identity!Send, Identity!Move, Identity!Drop, Identity!Answer, IdentityTyped,
       RequestRows, SerialsIssued, RequestsFit, Asks
  <2>4. CertificatesAreOwn'
    BY <1>1 DEF Identity!CreateEnrollmentToken, Identity!Request, Identity!NoRequest,
       Identity!Send, Identity!Move, Identity!Drop, Identity!Answer, IdentityTyped,
       RequestRows, CertificateRows, SerialsIssued, RequestsFit, Asks,
       CertificatesAreOwn
  <2>5. OneOfEach'
    BY <1>1 DEF Identity!CreateEnrollmentToken, Identity!Request, Identity!NoRequest,
       Identity!Send, Identity!Move, Identity!Drop, Identity!Answer, IdentityTyped,
       CertificateRows, SerialsIssued, OneOfEach, Identity!Live
  <2>6. RenewersKnown'
    BY <1>1 DEF Identity!CreateEnrollmentToken, Identity!Request, Identity!NoRequest,
       Identity!Send, Identity!Move, Identity!Drop, Identity!Answer, IdentityTyped,
       RequestRows, CertificateRows, SerialsIssued, RequestsFit, Asks,
       CertificatesAreOwn, OneOfEach, RenewersKnown, RenewersAre, Identity!Live
  <2>7. OwnerKeepsAccess'
    BY <1>1 DEF Identity!CreateEnrollmentToken, Identity!Request, Identity!NoRequest,
       Identity!Send, Identity!Move, Identity!Drop, Identity!Answer, IdentityTyped,
       RequestRows, CertificateRows, SerialsIssued, RequestsFit, Asks,
       CertificatesAreOwn, OneOfEach, OwnerKeepsAccess, Owner, RenewersKnown,
       RenewersAre, Identity!Live
  <2> QED  BY <2>1, <2>2, <2>3, <2>4, <2>5, <2>6, <2>7
<1>2. CASE Identity!TokenExpires
  <2>1. IdentityTyped'
    BY <1>2 DEF Identity!TokenExpires, Identity!Request, Identity!NoRequest,
       Identity!Send, Identity!Move, Identity!Drop, Identity!Answer, IdentityTyped,
       RequestRows, CertificateRows
  <2>2. SerialsIssued'
    BY <1>2 DEF Identity!TokenExpires, Identity!Request, Identity!NoRequest,
       Identity!Send, Identity!Move, Identity!Drop, Identity!Answer, IdentityTyped,
       RequestRows, SerialsIssued, RequestsFit, Asks
  <2>3. RequestsFit'
    BY <1>2 DEF Identity!TokenExpires, Identity!Request, Identity!NoRequest,
       Identity!Send, Identity!Move, Identity!Drop, Identity!Answer, IdentityTyped,
       RequestRows, SerialsIssued, RequestsFit, Asks
  <2>4. CertificatesAreOwn'
    BY <1>2 DEF Identity!TokenExpires, Identity!Request, Identity!NoRequest,
       Identity!Send, Identity!Move, Identity!Drop, Identity!Answer, IdentityTyped,
       RequestRows, CertificateRows, SerialsIssued, RequestsFit, Asks,
       CertificatesAreOwn
  <2>5. OneOfEach'
    BY <1>2 DEF Identity!TokenExpires, Identity!Request, Identity!NoRequest,
       Identity!Send, Identity!Move, Identity!Drop, Identity!Answer, IdentityTyped,
       CertificateRows, SerialsIssued, OneOfEach, Identity!Live
  <2>6. RenewersKnown'
    BY <1>2 DEF Identity!TokenExpires, Identity!Request, Identity!NoRequest,
       Identity!Send, Identity!Move, Identity!Drop, Identity!Answer, IdentityTyped,
       RequestRows, CertificateRows, SerialsIssued, RequestsFit, Asks,
       CertificatesAreOwn, OneOfEach, RenewersKnown, RenewersAre, Identity!Live
  <2>7. OwnerKeepsAccess'
    BY <1>2 DEF Identity!TokenExpires, Identity!Request, Identity!NoRequest,
       Identity!Send, Identity!Move, Identity!Drop, Identity!Answer, IdentityTyped,
       RequestRows, CertificateRows, SerialsIssued, RequestsFit, Asks,
       CertificatesAreOwn, OneOfEach, OwnerKeepsAccess, Owner, RenewersKnown,
       RenewersAre, Identity!Live
  <2> QED  BY <2>1, <2>2, <2>3, <2>4, <2>5, <2>6, <2>7
<1>3. CASE Identity!StartEnroll
  <2>1. IdentityTyped'
    BY <1>3 DEF Identity!StartEnroll, Identity!Request, Identity!NoRequest,
       Identity!Send, Identity!Move, Identity!Drop, Identity!Answer, IdentityTyped,
       RequestRows, CertificateRows
  <2>2. SerialsIssued'
    BY <1>3 DEF Identity!StartEnroll, Identity!Request, Identity!NoRequest,
       Identity!Send, Identity!Move, Identity!Drop, Identity!Answer, IdentityTyped,
       RequestRows, SerialsIssued, RequestsFit, Asks
  <2>3. RequestsFit'
    BY <1>3 DEF Identity!StartEnroll, Identity!Request, Identity!NoRequest,
       Identity!Send, Identity!Move, Identity!Drop, Identity!Answer, IdentityTyped,
       RequestRows, SerialsIssued, RequestsFit, Asks
  <2>4. CertificatesAreOwn'
    BY <1>3 DEF Identity!StartEnroll, Identity!Request, Identity!NoRequest,
       Identity!Send, Identity!Move, Identity!Drop, Identity!Answer, IdentityTyped,
       RequestRows, CertificateRows, SerialsIssued, RequestsFit, Asks,
       CertificatesAreOwn
  <2>5. OneOfEach'
    BY <1>3 DEF Identity!StartEnroll, Identity!Request, Identity!NoRequest,
       Identity!Send, Identity!Move, Identity!Drop, Identity!Answer, IdentityTyped,
       CertificateRows, SerialsIssued, OneOfEach, Identity!Live
  <2>6. RenewersKnown'
    <3> PICK first \in Machines \cup {None} : RenewersAre(first)
      BY DEF RenewersKnown
    <3>1. RenewersAre(first)'
      BY <1>3 DEF Identity!StartEnroll, Identity!Request, Identity!NoRequest,
         Identity!Send, Identity!Move, Identity!Drop, Identity!Answer, IdentityTyped,
         RequestRows, RenewersAre, Identity!Live
    <3> QED  BY <3>1 DEF RenewersKnown
  <2>7. OwnerKeepsAccess'
    BY <1>3 DEF Identity!StartEnroll, Identity!Request, Identity!NoRequest,
       Identity!Send, Identity!Move, Identity!Drop, Identity!Answer, IdentityTyped,
       RequestRows, CertificateRows, SerialsIssued, RequestsFit, Asks,
       CertificatesAreOwn, OneOfEach, OwnerKeepsAccess, Owner, RenewersKnown,
       RenewersAre, Identity!Live
  <2> QED  BY <2>1, <2>2, <2>3, <2>4, <2>5, <2>6, <2>7
<1>4. CASE Identity!ConsumeAgentEnrollmentToken
  <2>1. IdentityTyped'
    BY <1>4 DEF Identity!ConsumeAgentEnrollmentToken, Identity!Request,
       Identity!NoRequest, Identity!Send, Identity!Move, Identity!Drop, Identity!Answer,
       IdentityTyped, RequestRows, CertificateRows
  <2>2. SerialsIssued'
    BY <1>4 DEF Identity!ConsumeAgentEnrollmentToken, Identity!Request,
       Identity!NoRequest, Identity!Send, Identity!Move, Identity!Drop, Identity!Answer,
       IdentityTyped, RequestRows, SerialsIssued, RequestsFit, Asks
  <2>3. RequestsFit'
    BY <1>4 DEF Identity!ConsumeAgentEnrollmentToken, Identity!Request,
       Identity!NoRequest, Identity!Send, Identity!Move, Identity!Drop, Identity!Answer,
       IdentityTyped, RequestRows, SerialsIssued, RequestsFit, Asks
  <2>4. CertificatesAreOwn'
    BY <1>4 DEF Identity!ConsumeAgentEnrollmentToken, Identity!Request,
       Identity!NoRequest, Identity!Send, Identity!Move, Identity!Drop, Identity!Answer,
       IdentityTyped, RequestRows, CertificateRows, SerialsIssued, RequestsFit, Asks,
       CertificatesAreOwn
  <2>5. OneOfEach'
    BY <1>4 DEF Identity!ConsumeAgentEnrollmentToken, Identity!Request,
       Identity!NoRequest, Identity!Send, Identity!Move, Identity!Drop, Identity!Answer,
       IdentityTyped, CertificateRows, SerialsIssued, OneOfEach, Identity!Live
  <2>6. RenewersKnown'
    <3> PICK first \in Machines \cup {None} : RenewersAre(first)
      BY DEF RenewersKnown
    <3>1. RenewersAre(first)'
      BY <1>4 DEF Identity!ConsumeAgentEnrollmentToken, Identity!Request,
         Identity!NoRequest, Identity!Send, Identity!Move, Identity!Drop,
         Identity!Answer, IdentityTyped, RequestRows, RenewersAre, Identity!Live
    <3> QED  BY <3>1 DEF RenewersKnown
  <2>7. OwnerKeepsAccess'
    BY <1>4 DEF Identity!ConsumeAgentEnrollmentToken, Identity!Request,
       Identity!NoRequest, Identity!Send, Identity!Move, Identity!Drop, Identity!Answer,
       IdentityTyped, RequestRows, CertificateRows, SerialsIssued, RequestsFit, Asks,
       CertificatesAreOwn, OneOfEach, OwnerKeepsAccess, Owner, RenewersKnown,
       RenewersAre, Identity!Live
  <2> QED  BY <2>1, <2>2, <2>3, <2>4, <2>5, <2>6, <2>7
<1>5. CASE Identity!EnrollAgent
  <2> PICK m \in Machines, s \in Serials \ given : Identity!EnrollAgent!(m, s)
    BY <1>5 DEF Identity!EnrollAgent
  <2>1. CASE identity.status = "active"
    <3>1. requests' = [requests EXCEPT ![m] = Identity!NoRequest]
      BY <2>1 DEF Identity!Drop
    <3>2. UNCHANGED <<identity, certs, given, age, tokens, disk, overtaken>>
      BY <2>1
    <3> QED  BY <3>1, <3>2, RequestDropped
  <2>2. CASE identity.status # "active"
    <3> USE DEF IdentityTyped
    <3>1. /\ given' = given \cup {s} /\ identity' = [status |-> "active", serial |-> s]
          /\ certs' = Identity!Issue(Identity!Retired, s, "active", m)
          /\ requests' = [requests EXCEPT ![m].at = "answered", ![m].serial = s]
          /\ UNCHANGED <<age, tokens, disk, overtaken>>
      BY <2>2 DEF Identity!Answer
    <3>2. Succeed(s, "active", m, {"active", "pending"})
      BY <3>1, CertificateIssued
    <3>3. s \notin DOMAIN certs
      BY DEF SerialsIssued
    <3> HIDE DEF IdentityInv
    <3>4. IdentityTyped'
      <4>1. requests' \in [Machines -> RequestRows]
        <5>1. [requests[m] EXCEPT !.at = "answered", !.serial = s] \in RequestRows
          BY DEF IdentityInv, RequestRows
        <5>2. requests' = [requests EXCEPT ![m] = [requests[m] EXCEPT !.at = "answered", !.serial = s]]
          BY <3>1 DEF IdentityInv, RequestRows
        <5> QED  BY <5>1, <5>2 DEF IdentityInv
      <4>2. DOMAIN certs' \subseteq Serials /\ \A r \in DOMAIN certs' : certs'[r] \in CertificateRows
        BY <3>2 DEF IdentityInv, CertificateRows, Succeed
      <4> QED  BY <3>1, <4>1, <4>2 DEF IdentityInv
    <3>5. SerialsIssued'
      BY <3>1, <3>2 DEF IdentityInv, SerialsIssued, Succeed
    <3>6. RequestsFit'
      BY <3>1 DEF IdentityInv, RequestRows, RequestsFit, Asks
    <3>7. CertificatesAreOwn'
      BY <3>1, <3>2, <3>3 DEF IdentityInv, RequestRows, RequestsFit, SerialsIssued,
         CertificatesAreOwn, Succeed
    <3>8. OneOfEach'
      BY <3>1, <3>2, <3>3 DEF OneOfEach, Succeed, IdentityInv, CertificateRows
    <3>9. RenewersAre(m)'
      BY SMTT(30), <3>1, <3>2, <2>2 DEF IdentityInv, RequestRows, RenewersKnown, RenewersAre,
         Identity!Live, Succeed, CertificateRows
    <3>10. OwnerKeepsAccess'
      <4>1. Owner' = m /\ Identity!Live(s)'
        BY <3>1, <3>2 DEF Owner, Succeed, Identity!Live
      <4>2. disk'[m] = None
        BY <3>1 DEF IdentityInv, RequestsFit, Identity!None
      <4>3. requests'[m].serial = s
        BY <3>1 DEF IdentityInv, RequestRows
      <4>4. QED  BY <4>1, <4>2, <4>3 DEF OwnerKeepsAccess, Identity!Live
    <3> QED  BY <3>4, <3>5, <3>6, <3>7, <3>8, <3>9, <3>10 DEF IdentityInv, RenewersKnown
  <2> QED  BY <2>1, <2>2
<1>6. CASE Identity!StartHeartbeat
  <2>1. IdentityTyped'
    BY <1>6 DEF Identity!StartHeartbeat, Identity!Request, Identity!NoRequest,
       Identity!Send, Identity!Move, Identity!Drop, Identity!Answer, IdentityTyped,
       RequestRows, CertificateRows
  <2>2. SerialsIssued'
    BY <1>6 DEF Identity!StartHeartbeat, Identity!Request, Identity!NoRequest,
       Identity!Send, Identity!Move, Identity!Drop, Identity!Answer, IdentityTyped,
       RequestRows, SerialsIssued, RequestsFit, Asks
  <2>3. RequestsFit'
    BY <1>6 DEF Identity!StartHeartbeat, Identity!Request, Identity!NoRequest,
       Identity!Send, Identity!Move, Identity!Drop, Identity!Answer, IdentityTyped,
       RequestRows, SerialsIssued, RequestsFit, Asks
  <2>4. CertificatesAreOwn'
    BY <1>6 DEF Identity!StartHeartbeat, Identity!Request, Identity!NoRequest,
       Identity!Send, Identity!Move, Identity!Drop, Identity!Answer, IdentityTyped,
       RequestRows, CertificateRows, SerialsIssued, RequestsFit, Asks,
       CertificatesAreOwn
  <2>5. OneOfEach'
    BY <1>6 DEF Identity!StartHeartbeat, Identity!Request, Identity!NoRequest,
       Identity!Send, Identity!Move, Identity!Drop, Identity!Answer, IdentityTyped,
       CertificateRows, SerialsIssued, OneOfEach, Identity!Live
  <2>6. RenewersKnown'
    <3> PICK first \in Machines \cup {None} : RenewersAre(first)
      BY DEF RenewersKnown
    <3>1. RenewersAre(first)'
      BY <1>6 DEF Identity!StartHeartbeat, Identity!Request, Identity!NoRequest,
         Identity!Send, Identity!Move, Identity!Drop, Identity!Answer, IdentityTyped,
         RequestRows, RenewersAre, Identity!Live
    <3> QED  BY <3>1 DEF RenewersKnown
  <2>7. OwnerKeepsAccess'
    BY <1>6 DEF Identity!StartHeartbeat, Identity!Request, Identity!NoRequest,
       Identity!Send, Identity!Move, Identity!Drop, Identity!Answer, IdentityTyped,
       RequestRows, CertificateRows, SerialsIssued, RequestsFit, Asks,
       CertificatesAreOwn, OneOfEach, OwnerKeepsAccess, Owner, RenewersKnown,
       RenewersAre, Identity!Live
  <2> QED  BY <2>1, <2>2, <2>3, <2>4, <2>5, <2>6, <2>7
<1>7. CASE Identity!StartRenewal
  <2>1. IdentityTyped'
    BY <1>7 DEF Identity!StartRenewal, Identity!Request, Identity!NoRequest,
       Identity!Send, Identity!Move, Identity!Drop, Identity!Answer, IdentityTyped,
       RequestRows, CertificateRows
  <2>2. SerialsIssued'
    BY <1>7 DEF Identity!StartRenewal, Identity!Request, Identity!NoRequest,
       Identity!Send, Identity!Move, Identity!Drop, Identity!Answer, IdentityTyped,
       RequestRows, SerialsIssued, RequestsFit, Asks
  <2>3. RequestsFit'
    BY <1>7 DEF Identity!StartRenewal, Identity!Request, Identity!NoRequest,
       Identity!Send, Identity!Move, Identity!Drop, Identity!Answer, IdentityTyped,
       RequestRows, SerialsIssued, RequestsFit, Asks
  <2>4. CertificatesAreOwn'
    BY <1>7 DEF Identity!StartRenewal, Identity!Request, Identity!NoRequest,
       Identity!Send, Identity!Move, Identity!Drop, Identity!Answer, IdentityTyped,
       RequestRows, CertificateRows, SerialsIssued, RequestsFit, Asks,
       CertificatesAreOwn
  <2>5. OneOfEach'
    BY <1>7 DEF Identity!StartRenewal, Identity!Request, Identity!NoRequest,
       Identity!Send, Identity!Move, Identity!Drop, Identity!Answer, IdentityTyped,
       CertificateRows, SerialsIssued, OneOfEach, Identity!Live
  <2>6. RenewersKnown'
    <3> PICK first \in Machines \cup {None} : RenewersAre(first)
      BY DEF RenewersKnown
    <3>1. RenewersAre(first)'
      BY <1>7 DEF Identity!StartRenewal, Identity!Request, Identity!NoRequest,
         Identity!Send, Identity!Move, Identity!Drop, Identity!Answer, IdentityTyped,
         RequestRows, RenewersAre, Identity!Live
    <3> QED  BY <3>1 DEF RenewersKnown
  <2>7. OwnerKeepsAccess'
    BY <1>7 DEF Identity!StartRenewal, Identity!Request, Identity!NoRequest,
       Identity!Send, Identity!Move, Identity!Drop, Identity!Answer, IdentityTyped,
       RequestRows, CertificateRows, SerialsIssued, RequestsFit, Asks,
       CertificatesAreOwn, OneOfEach, OwnerKeepsAccess, Owner, RenewersKnown,
       RenewersAre, Identity!Live
  <2> QED  BY <2>1, <2>2, <2>3, <2>4, <2>5, <2>6, <2>7
<1>8. CASE Identity!Authorize
  <2>1. IdentityTyped'
    BY <1>8 DEF Identity!Authorize, Identity!Request, Identity!NoRequest, Identity!Send,
       Identity!Move, Identity!Drop, Identity!Answer, Identity!Usable, Identity!Live,
       IdentityTyped, RequestRows, CertificateRows
  <2>2. SerialsIssued'
    BY <1>8 DEF Identity!Authorize, Identity!Request, Identity!NoRequest, Identity!Send,
       Identity!Move, Identity!Drop, Identity!Answer, Identity!Usable, Identity!Live,
       IdentityTyped, RequestRows, SerialsIssued, RequestsFit, Asks
  <2>3. RequestsFit'
    BY <1>8 DEF Identity!Authorize, Identity!Request, Identity!NoRequest, Identity!Send,
       Identity!Move, Identity!Drop, Identity!Answer, Identity!Usable, Identity!Live,
       IdentityTyped, RequestRows, SerialsIssued, RequestsFit, Asks
  <2>4. CertificatesAreOwn'
    BY <1>8 DEF Identity!Authorize, Identity!Request, Identity!NoRequest, Identity!Send,
       Identity!Move, Identity!Drop, Identity!Answer, IdentityTyped, RequestRows,
       CertificatesAreOwn
  <2>5. OneOfEach'
    BY <1>8 DEF Identity!Authorize, Identity!Request, Identity!NoRequest, Identity!Send,
       Identity!Move, Identity!Drop, Identity!Answer, Identity!Usable, Identity!Live,
       IdentityTyped, CertificateRows, SerialsIssued, OneOfEach, Identity!Live
  <2>6. RenewersKnown'
    <3> PICK first \in Machines \cup {None} : RenewersAre(first)
      BY DEF RenewersKnown
    <3> PICK m \in Machines, do \in {"heartbeat", "renew"} : Identity!Authorize!(m, do)
      BY <1>8 DEF Identity!Authorize
    <3>1. Identity!Usable(requests[m].serial) => m \in overtaken \cup {first} /\ identity.status = "active"
      BY DEF RequestsFit, Asks, CertificatesAreOwn, RenewersAre, Identity!Usable,
         Identity!Live
    <3>2. RenewersAre(first)'
      BY <3>1 DEF Identity!Request, Identity!NoRequest, Identity!Send, Identity!Move,
         Identity!Drop, Identity!Answer, IdentityTyped, RequestRows, RenewersAre,
         Identity!Live
    <3> QED  BY <3>2 DEF RenewersKnown
  <2>7. OwnerKeepsAccess'
    BY <1>8 DEF Identity!Authorize, Identity!Request, Identity!NoRequest, Identity!Send,
       Identity!Move, Identity!Drop, Identity!Answer, Identity!Usable, Identity!Live,
       IdentityTyped, RequestRows, CertificateRows, SerialsIssued, RequestsFit, Asks,
       CertificatesAreOwn, OneOfEach, OwnerKeepsAccess, Owner, RenewersKnown,
       RenewersAre, Identity!Live
  <2> QED  BY <2>1, <2>2, <2>3, <2>4, <2>5, <2>6, <2>7
<1>9. CASE Identity!RecordAgentHeartbeat
  <2> PICK m \in Machines : Identity!RecordAgentHeartbeat!(m)
    BY <1>9 DEF Identity!RecordAgentHeartbeat
  <2> PICK s : s = requests[m].serial
    OBVIOUS
  <2>0. requests' = [requests EXCEPT ![m] = Identity!NoRequest] /\ UNCHANGED <<age, tokens, given, disk, overtaken>>
    BY DEF Identity!Drop
  <2>1. CASE ~Identity!Usable(s)
    BY <2>0, <2>1, RequestDropped
  <2>2. CASE Identity!Usable(s)
    <3>1. certs' = Identity!Activated(s) /\ identity' = [identity EXCEPT !.serial = s]
      BY <2>2
    <3>2. s \in DOMAIN certs /\ certs[s].status \in {"active", "pending"} /\ identity.status = "active"
      BY <2>2 DEF Identity!Usable, Identity!Live
    <3>3. /\ DOMAIN certs' = DOMAIN certs /\ certs'[s].status = "active"
          /\ \A r \in DOMAIN certs : certs'[r] \in CertificateRows
          /\ \A r \in DOMAIN certs : certs'[r].holder = certs[r].holder
          /\ \A r \in DOMAIN certs \ {s} :
               certs'[r].status = IF certs[r].status = "active" THEN "retired" ELSE certs[r].status
      BY <3>1, <3>2, CertificateUsed
    <3>4. s = disk[m] /\ disk[m] # None
      BY DEF RequestsFit, Asks
    <3> HIDE DEF IdentityInv
    <3>5. IdentityTyped'
      BY <2>0, <3>1, <3>2, <3>3 DEF IdentityInv, IdentityTyped, RequestRows,
         Identity!NoRequest, Identity!Request
    <3>6. SerialsIssued'
      BY <2>0, <3>3 DEF IdentityInv, SerialsIssued
    <3>7. RequestsFit'
      BY <2>0 DEF IdentityInv, IdentityTyped, RequestRows, RequestsFit, Asks,
         Identity!NoRequest, Identity!Request
    <3>8. CertificatesAreOwn'
      BY <2>0, <3>3 DEF IdentityInv, IdentityTyped, RequestRows, CertificatesAreOwn,
         Identity!NoRequest, Identity!Request
    <3>9. OneOfEach'
      BY <2>0, <3>1, <3>2, <3>3 DEF IdentityInv, IdentityTyped, OneOfEach
    <3> PICK first \in Machines \cup {None} : RenewersAre(first)
      BY DEF IdentityInv, RenewersKnown
    <3>10. \A r \in DOMAIN certs : Identity!Live(r)' => Identity!Live(r)
      BY <3>2, <3>3 DEF Identity!Live
    <3>11. RenewersAre(first)'
      BY <2>0, <3>1, <3>3, <3>10 DEF IdentityInv, IdentityTyped, RequestRows,
         RenewersAre, Identity!Live, Identity!NoRequest,
            Identity!Request
    <3>12. OwnerKeepsAccess'
      <4> SUFFICES ASSUME overtaken = {}  PROVE OwnerKeepsAccess'
        BY <2>0 DEF OwnerKeepsAccess
      <4>1. certs[s].holder = m
        BY <3>2, <3>4 DEF IdentityInv, CertificatesAreOwn
      <4>2. Owner' = m
        BY <4>1, <3>1, <3>2, <3>3 DEF IdentityInv, IdentityTyped, Owner
      <4>3. Identity!Live(s)'
        BY <3>2, <3>3 DEF Identity!Live
      <4> QED  BY <2>0, <3>4, <4>2, <4>3 DEF OwnerKeepsAccess, IdentityInv,
         IdentityTyped, RequestRows, Identity!NoRequest, Identity!Request
    <3> QED  BY <3>5, <3>6, <3>7, <3>8, <3>9, <3>11, <3>12 DEF IdentityInv,
       RenewersKnown
  <2> QED  BY <2>1, <2>2
<1>10. CASE Identity!SavePendingAgentCertificate
  <2> PICK m \in Machines, s \in Serials \ given : Identity!SavePendingAgentCertificate!(m, s)
    BY <1>10 DEF Identity!SavePendingAgentCertificate
  <2>1. CASE identity.status # "active"
    <3>1. requests' = [requests EXCEPT ![m] = Identity!NoRequest]
      BY <2>1 DEF Identity!Drop
    <3>2. UNCHANGED <<identity, certs, given, age, tokens, disk, overtaken>>
      BY <2>1
    <3> QED  BY <3>1, <3>2, RequestDropped
  <2>2. CASE identity.status = "active"
    <3> USE DEF IdentityTyped
    <3>1. /\ given' = given \cup {s}
          /\ certs' = Identity!Issue(Identity!Replaced, s, "pending", m)
          /\ requests' = [requests EXCEPT ![m].at = "answered", ![m].serial = s]
          /\ UNCHANGED <<identity, age, tokens, disk, overtaken>>
      BY <2>2 DEF Identity!Answer
    <3>2. Succeed(s, "pending", m, {"pending"})
      BY <3>1, CertificateIssued
    <3>3. s \notin DOMAIN certs
      BY DEF SerialsIssued
    <3>0. Asks(m) /\ requests[m].do = "renew" /\ requests[m].at = "save"
      BY DEF Asks
    <3> HIDE DEF IdentityInv
    <3>4. IdentityTyped'
      <4>1. requests' \in [Machines -> RequestRows]
        <5>1. [requests[m] EXCEPT !.at = "answered", !.serial = s] \in RequestRows
          BY DEF IdentityInv, RequestRows
        <5>2. requests' = [requests EXCEPT ![m] = [requests[m] EXCEPT !.at = "answered", !.serial = s]]
          BY <3>1 DEF IdentityInv, RequestRows
        <5> QED  BY <5>1, <5>2 DEF IdentityInv
      <4>2. DOMAIN certs' \subseteq Serials /\ \A r \in DOMAIN certs' : certs'[r] \in CertificateRows
        BY <3>2 DEF IdentityInv, CertificateRows, Succeed
      <4> QED  BY <3>1, <4>1, <4>2 DEF IdentityInv
    <3>5. SerialsIssued'
      BY <3>1, <3>2 DEF IdentityInv, SerialsIssued, Succeed
    <3>6. RequestsFit'
      BY <3>1 DEF IdentityInv, RequestRows, RequestsFit, Asks
    <3>7. CertificatesAreOwn'
      BY <3>1, <3>2, <3>3 DEF IdentityInv, RequestRows, RequestsFit, SerialsIssued,
         CertificatesAreOwn, Succeed
    <3>8. OneOfEach'
      BY <3>1, <3>2, <3>3, <2>2 DEF Succeed, IdentityInv, CertificateRows, OneOfEach,
         SerialsIssued
    <3> PICK first \in Machines \cup {None} : RenewersAre(first)
      BY DEF IdentityInv, RenewersKnown
    <3>9. RenewersAre(first)'
      BY <3>0, <3>1, <3>2, <2>2 DEF IdentityInv, RequestRows, RenewersAre,
         Identity!Live, Succeed
    <3>10. OwnerKeepsAccess'
      <4> SUFFICES ASSUME overtaken = {}  PROVE OwnerKeepsAccess'
        BY <3>1 DEF OwnerKeepsAccess
      <4>1. m = first /\ Owner = first /\ Owner' = Owner
        BY <3>0, <3>1, <3>2, <3>3, <2>2 DEF RenewersAre, IdentityInv, OneOfEach, Owner,
           Identity!Live, Succeed
      <4>2. disk[m] # None /\ age[disk[m]] # "fresh" /\ Identity!Live(disk[m])
        BY <3>0, <4>1, <2>2 DEF IdentityInv, RequestsFit, OwnerKeepsAccess
      <4>3. Identity!Live(disk[m])'
        BY <4>2, <3>1, <3>2, <3>3 DEF IdentityInv, OneOfEach, Identity!Live, Succeed
      <4>4. Identity!Live(s)'
        BY <3>2 DEF Identity!Live, Succeed
      <4> QED  BY <3>1, <4>1, <4>3, <4>4 DEF OwnerKeepsAccess, IdentityInv, RequestRows
    <3> QED  BY <3>4, <3>5, <3>6, <3>7, <3>8, <3>9, <3>10 DEF IdentityInv, RenewersKnown
  <2> QED  BY <2>1, <2>2
<1>11. CASE Identity!StoreCertificate
  <2>1. IdentityTyped'
    BY <1>11 DEF Identity!StoreCertificate, Identity!Request, Identity!NoRequest,
       Identity!Send, Identity!Move, Identity!Drop, Identity!Answer, IdentityTyped,
       RequestRows, CertificateRows
  <2>2. SerialsIssued'
    BY <1>11 DEF Identity!StoreCertificate, Identity!Request, Identity!NoRequest,
       Identity!Send, Identity!Move, Identity!Drop, Identity!Answer, IdentityTyped,
       RequestRows, SerialsIssued, RequestsFit, Asks
  <2>3. RequestsFit'
    BY <1>11 DEF Identity!StoreCertificate, Identity!Request, Identity!NoRequest,
       Identity!Send, Identity!Move, Identity!Drop, Identity!Answer, IdentityTyped,
       RequestRows, SerialsIssued, RequestsFit, Asks
  <2>4. CertificatesAreOwn'
    BY <1>11 DEF Identity!StoreCertificate, Identity!Request, Identity!NoRequest,
       Identity!Send, Identity!Move, Identity!Drop, Identity!Answer, IdentityTyped,
       RequestRows, CertificateRows, SerialsIssued, RequestsFit, Asks,
       CertificatesAreOwn
  <2>5. OneOfEach'
    BY <1>11 DEF Identity!StoreCertificate, Identity!Request, Identity!NoRequest,
       Identity!Send, Identity!Move, Identity!Drop, Identity!Answer, IdentityTyped,
       CertificateRows, SerialsIssued, OneOfEach, Identity!Live
  <2>6. RenewersKnown'
    <3> PICK first \in Machines \cup {None} : RenewersAre(first)
      BY DEF RenewersKnown
    <3>1. RenewersAre(first)'
      BY <1>11 DEF Identity!StoreCertificate, Identity!Request, Identity!NoRequest,
         Identity!Send, Identity!Move, Identity!Drop, Identity!Answer, IdentityTyped,
         RequestRows, RenewersAre, Identity!Live
    <3> QED  BY <3>1 DEF RenewersKnown
  <2>7. OwnerKeepsAccess'
    BY <1>11 DEF Identity!StoreCertificate, Identity!Request, Identity!NoRequest,
       Identity!Send, Identity!Move, Identity!Drop, Identity!Answer, IdentityTyped,
       RequestRows, CertificateRows, SerialsIssued, RequestsFit, Asks,
       CertificatesAreOwn, OneOfEach, OwnerKeepsAccess, Owner, RenewersKnown,
       RenewersAre, Identity!Live
  <2> QED  BY <2>1, <2>2, <2>3, <2>4, <2>5, <2>6, <2>7
<1>12. CASE Identity!GiveUp
  BY <1>12, RequestDropped DEF Identity!GiveUp, Identity!Drop
<1>13. CASE Identity!RevokeAgent
  <2>1. IdentityTyped'
    BY <1>13 DEF Identity!RevokeAgent, Identity!Request, Identity!NoRequest,
       Identity!Send, Identity!Move, Identity!Drop, Identity!Answer, IdentityTyped,
       RequestRows, CertificateRows
  <2>2. SerialsIssued'
    BY <1>13 DEF Identity!RevokeAgent, Identity!Request, Identity!NoRequest,
       Identity!Send, Identity!Move, Identity!Drop, Identity!Answer, IdentityTyped,
       RequestRows, SerialsIssued, RequestsFit, Asks
  <2>3. RequestsFit'
    BY <1>13 DEF Identity!RevokeAgent, Identity!Request, Identity!NoRequest,
       Identity!Send, Identity!Move, Identity!Drop, Identity!Answer, IdentityTyped,
       RequestRows, SerialsIssued, RequestsFit, Asks
  <2>4. CertificatesAreOwn'
    BY <1>13 DEF Identity!RevokeAgent, Identity!Request, Identity!NoRequest,
       Identity!Send, Identity!Move, Identity!Drop, Identity!Answer, IdentityTyped,
       RequestRows, CertificateRows, SerialsIssued, RequestsFit, Asks,
       CertificatesAreOwn
  <2>5. OneOfEach'
    BY <1>13 DEF Identity!RevokeAgent, Identity!Request, Identity!NoRequest,
       Identity!Send, Identity!Move, Identity!Drop, Identity!Answer, IdentityTyped,
       CertificateRows, SerialsIssued, OneOfEach, Identity!Live
  <2>6. RenewersKnown'
    BY <1>13 DEF Identity!RevokeAgent, Identity!Request, Identity!NoRequest,
       Identity!Send, Identity!Move, Identity!Drop, Identity!Answer, IdentityTyped,
       RequestRows, CertificateRows, SerialsIssued, RequestsFit, Asks,
       CertificatesAreOwn, OneOfEach, RenewersKnown, RenewersAre, Identity!Live
  <2>7. OwnerKeepsAccess'
    BY <1>13 DEF Identity!RevokeAgent, Identity!Request, Identity!NoRequest,
       Identity!Send, Identity!Move, Identity!Drop, Identity!Answer, IdentityTyped,
       RequestRows, CertificateRows, SerialsIssued, RequestsFit, Asks,
       CertificatesAreOwn, OneOfEach, OwnerKeepsAccess, Owner, RenewersKnown,
       RenewersAre, Identity!Live
  <2> QED  BY <2>1, <2>2, <2>3, <2>4, <2>5, <2>6, <2>7
<1>14. CASE Identity!DeleteAgent
  <2>1. IdentityTyped'
    BY <1>14 DEF Identity!DeleteAgent, Identity!Request, Identity!NoRequest,
       Identity!Send, Identity!Move, Identity!Drop, Identity!Answer, IdentityTyped,
       RequestRows, CertificateRows
  <2>2. SerialsIssued'
    BY <1>14 DEF Identity!DeleteAgent, Identity!Request, Identity!NoRequest,
       Identity!Send, Identity!Move, Identity!Drop, Identity!Answer, IdentityTyped,
       RequestRows, SerialsIssued, RequestsFit, Asks
  <2>3. RequestsFit'
    BY <1>14 DEF Identity!DeleteAgent, Identity!Request, Identity!NoRequest,
       Identity!Send, Identity!Move, Identity!Drop, Identity!Answer, IdentityTyped,
       RequestRows, SerialsIssued, RequestsFit, Asks
  <2>4. CertificatesAreOwn'
    BY <1>14 DEF Identity!DeleteAgent, Identity!Request, Identity!NoRequest,
       Identity!Send, Identity!Move, Identity!Drop, Identity!Answer, IdentityTyped,
       RequestRows, CertificateRows, SerialsIssued, RequestsFit, Asks,
       CertificatesAreOwn
  <2>5. OneOfEach'
    BY <1>14 DEF Identity!DeleteAgent, Identity!Request, Identity!NoRequest,
       Identity!Send, Identity!Move, Identity!Drop, Identity!Answer, IdentityTyped,
       CertificateRows, SerialsIssued, OneOfEach, Identity!Live
  <2>6. RenewersKnown'
    BY <1>14 DEF Identity!DeleteAgent, Identity!Request, Identity!NoRequest,
       Identity!Send, Identity!Move, Identity!Drop, Identity!Answer, IdentityTyped,
       RequestRows, CertificateRows, SerialsIssued, RequestsFit, Asks,
       CertificatesAreOwn, OneOfEach, RenewersKnown, RenewersAre, Identity!Live
  <2>7. OwnerKeepsAccess'
    BY <1>14 DEF Identity!DeleteAgent, Identity!Request, Identity!NoRequest,
       Identity!Send, Identity!Move, Identity!Drop, Identity!Answer, IdentityTyped,
       RequestRows, CertificateRows, SerialsIssued, RequestsFit, Asks,
       CertificatesAreOwn, OneOfEach, OwnerKeepsAccess, Owner, RenewersKnown,
       RenewersAre, Identity!Live
  <2> QED  BY <2>1, <2>2, <2>3, <2>4, <2>5, <2>6, <2>7
<1>15. CASE Identity!ClearMachine
  <2>1. IdentityTyped'
    BY <1>15 DEF Identity!ClearMachine, Identity!Request, Identity!NoRequest,
       Identity!Send, Identity!Move, Identity!Drop, Identity!Answer, IdentityTyped,
       RequestRows, CertificateRows
  <2>2. SerialsIssued'
    BY <1>15 DEF Identity!ClearMachine, Identity!Request, Identity!NoRequest,
       Identity!Send, Identity!Move, Identity!Drop, Identity!Answer, IdentityTyped,
       RequestRows, SerialsIssued, RequestsFit, Asks
  <2>3. RequestsFit'
    BY <1>15 DEF Identity!ClearMachine, Identity!Request, Identity!NoRequest,
       Identity!Send, Identity!Move, Identity!Drop, Identity!Answer, IdentityTyped,
       RequestRows, SerialsIssued, RequestsFit, Asks
  <2>4. CertificatesAreOwn'
    BY <1>15 DEF Identity!ClearMachine, Identity!Request, Identity!NoRequest,
       Identity!Send, Identity!Move, Identity!Drop, Identity!Answer, IdentityTyped,
       RequestRows, CertificateRows, SerialsIssued, RequestsFit, Asks,
       CertificatesAreOwn
  <2>5. OneOfEach'
    BY <1>15 DEF Identity!ClearMachine, Identity!Request, Identity!NoRequest,
       Identity!Send, Identity!Move, Identity!Drop, Identity!Answer, IdentityTyped,
       CertificateRows, SerialsIssued, OneOfEach, Identity!Live
  <2>6. RenewersKnown'
    BY <1>15 DEF Identity!ClearMachine, Identity!Request, Identity!NoRequest,
       Identity!Send, Identity!Move, Identity!Drop, Identity!Answer, IdentityTyped,
       RequestRows, CertificateRows, SerialsIssued, RequestsFit, Asks,
       CertificatesAreOwn, OneOfEach, RenewersKnown, RenewersAre, Identity!Live
  <2>7. OwnerKeepsAccess'
    BY <1>15 DEF Identity!ClearMachine, Identity!Request, Identity!NoRequest,
       Identity!Send, Identity!Move, Identity!Drop, Identity!Answer, IdentityTyped,
       RequestRows, CertificateRows, SerialsIssued, RequestsFit, Asks,
       CertificatesAreOwn, OneOfEach, OwnerKeepsAccess, Owner, RenewersKnown,
       RenewersAre, Identity!Live
  <2> QED  BY <2>1, <2>2, <2>3, <2>4, <2>5, <2>6, <2>7
<1>16. CASE Identity!CertificateIsDue
  <2>1. IdentityTyped'
    BY <1>16 DEF Identity!CertificateIsDue, Identity!Request, Identity!NoRequest,
       Identity!Send, Identity!Move, Identity!Drop, Identity!Answer, IdentityTyped,
       RequestRows, CertificateRows
  <2>2. SerialsIssued'
    BY <1>16 DEF Identity!CertificateIsDue, Identity!Request, Identity!NoRequest,
       Identity!Send, Identity!Move, Identity!Drop, Identity!Answer, IdentityTyped,
       RequestRows, SerialsIssued, RequestsFit, Asks
  <2>3. RequestsFit'
    BY <1>16 DEF Identity!CertificateIsDue, Identity!Request, Identity!NoRequest,
       Identity!Send, Identity!Move, Identity!Drop, Identity!Answer, IdentityTyped,
       RequestRows, SerialsIssued, RequestsFit, Asks
  <2>4. CertificatesAreOwn'
    BY <1>16 DEF Identity!CertificateIsDue, Identity!Request, Identity!NoRequest,
       Identity!Send, Identity!Move, Identity!Drop, Identity!Answer, IdentityTyped,
       RequestRows, CertificateRows, SerialsIssued, RequestsFit, Asks,
       CertificatesAreOwn
  <2>5. OneOfEach'
    BY <1>16 DEF Identity!CertificateIsDue, Identity!Request, Identity!NoRequest,
       Identity!Send, Identity!Move, Identity!Drop, Identity!Answer, IdentityTyped,
       CertificateRows, SerialsIssued, OneOfEach, Identity!Live
  <2>6. RenewersKnown'
    BY <1>16 DEF Identity!CertificateIsDue, Identity!Request, Identity!NoRequest,
       Identity!Send, Identity!Move, Identity!Drop, Identity!Answer, IdentityTyped,
       RequestRows, CertificateRows, SerialsIssued, RequestsFit, Asks,
       CertificatesAreOwn, OneOfEach, RenewersKnown, RenewersAre, Identity!Live
  <2>7. OwnerKeepsAccess'
    BY <1>16 DEF Identity!CertificateIsDue, Identity!Request, Identity!NoRequest,
       Identity!Send, Identity!Move, Identity!Drop, Identity!Answer, IdentityTyped,
       RequestRows, CertificateRows, SerialsIssued, RequestsFit, Asks,
       CertificatesAreOwn, OneOfEach, OwnerKeepsAccess, Owner, RenewersKnown,
       RenewersAre, Identity!Live
  <2> QED  BY <2>1, <2>2, <2>3, <2>4, <2>5, <2>6, <2>7
<1>17. CASE Identity!CertificateExpires
  <2>1. IdentityTyped'
    BY <1>17 DEF Identity!CertificateExpires, Identity!Request, Identity!NoRequest,
       Identity!Send, Identity!Move, Identity!Drop, Identity!Answer, IdentityTyped,
       RequestRows, CertificateRows
  <2>2. SerialsIssued'
    BY <1>17 DEF Identity!CertificateExpires, Identity!Request, Identity!NoRequest,
       Identity!Send, Identity!Move, Identity!Drop, Identity!Answer, IdentityTyped,
       RequestRows, SerialsIssued, RequestsFit, Asks
  <2>3. RequestsFit'
    BY <1>17 DEF Identity!CertificateExpires, Identity!Request, Identity!NoRequest,
       Identity!Send, Identity!Move, Identity!Drop, Identity!Answer, IdentityTyped,
       RequestRows, SerialsIssued, RequestsFit, Asks
  <2>4. CertificatesAreOwn'
    BY <1>17 DEF Identity!CertificateExpires, Identity!Request, Identity!NoRequest,
       Identity!Send, Identity!Move, Identity!Drop, Identity!Answer, IdentityTyped,
       RequestRows, CertificateRows, SerialsIssued, RequestsFit, Asks,
       CertificatesAreOwn
  <2>5. OneOfEach'
    BY <1>17 DEF Identity!CertificateExpires, Identity!Request, Identity!NoRequest,
       Identity!Send, Identity!Move, Identity!Drop, Identity!Answer, IdentityTyped,
       CertificateRows, SerialsIssued, OneOfEach, Identity!Live
  <2>6. RenewersKnown'
    BY <1>17 DEF Identity!CertificateExpires, Identity!Request, Identity!NoRequest,
       Identity!Send, Identity!Move, Identity!Drop, Identity!Answer, IdentityTyped,
       RequestRows, CertificateRows, SerialsIssued, RequestsFit, Asks,
       CertificatesAreOwn, OneOfEach, RenewersKnown, RenewersAre, Identity!Live
  <2>7. OwnerKeepsAccess'
    BY <1>17 DEF Identity!CertificateExpires, Identity!Request, Identity!NoRequest,
       Identity!Send, Identity!Move, Identity!Drop, Identity!Answer, IdentityTyped,
       RequestRows, CertificateRows, SerialsIssued, RequestsFit, Asks,
       CertificatesAreOwn, OneOfEach, OwnerKeepsAccess, Owner, RenewersKnown,
       RenewersAre, Identity!Live
  <2> QED  BY <2>1, <2>2, <2>3, <2>4, <2>5, <2>6, <2>7
<1>18. CASE UNCHANGED Identity!vars
  <2>1. IdentityTyped'
    BY <1>18 DEF Identity!vars, IdentityTyped, RequestRows, CertificateRows
  <2>2. SerialsIssued'
    BY <1>18 DEF Identity!vars, IdentityTyped, RequestRows, SerialsIssued, RequestsFit,
       Asks
  <2>3. RequestsFit'
    BY <1>18 DEF Identity!vars, IdentityTyped, RequestRows, SerialsIssued, RequestsFit,
       Asks
  <2>4. CertificatesAreOwn'
    BY <1>18 DEF Identity!vars, IdentityTyped, RequestRows, CertificateRows,
       SerialsIssued, RequestsFit, Asks, CertificatesAreOwn
  <2>5. OneOfEach'
    BY <1>18 DEF Identity!vars, IdentityTyped, CertificateRows, SerialsIssued,
       OneOfEach, Identity!Live
  <2>6. RenewersKnown'
    BY <1>18 DEF Identity!vars, IdentityTyped, RequestRows, CertificateRows,
       SerialsIssued, RequestsFit, Asks, CertificatesAreOwn, OneOfEach, RenewersKnown,
       RenewersAre, Identity!Live
  <2>7. OwnerKeepsAccess'
    BY <1>18 DEF Identity!vars, IdentityTyped, RequestRows, CertificateRows,
       SerialsIssued, RequestsFit, Asks, CertificatesAreOwn, OneOfEach,
       OwnerKeepsAccess, Owner, RenewersKnown, RenewersAre, Identity!Live
  <2> QED  BY <2>1, <2>2, <2>3, <2>4, <2>5, <2>6, <2>7
<1> QED  BY <1>1, <1>2, <1>3, <1>4, <1>5, <1>6, <1>7, <1>8, <1>9, <1>10, <1>11, <1>12,
   <1>13, <1>14, <1>15, <1>16, <1>17, <1>18 DEF Identity!Next

(* store/agents.go:368, runtime.go:333: for any machines, tokens and       *)
(* certificates, and any requests that overlap with revocations and new    *)
(* enrolments, one machine is the Agent, and keeps its access.             *)
THEOREM OneMachineIsTheAgent == Identity!Spec => []AccessHolds
<1>1. Identity!Init => IdentityInv
  BY DEF Identity!Init, Identity!NoRequest, Identity!Request, Identity!None,
     Identity!At, Identity!Live, None, IdentityInv, IdentityTyped,
     RequestRows, CertificateRows, SerialsIssued, RequestsFit, Asks, CertificatesAreOwn,
     OneOfEach, RenewersKnown, RenewersAre,
     OwnerKeepsAccess
<1>2. IdentityInv => Identity!OneMachine
  BY DEF IdentityInv, IdentityTyped, OneOfEach, RenewersKnown, RenewersAre,
     Identity!OneMachine, Identity!Usable
<1>3. IdentityInv => Identity!RenewalKeepsAccess
  BY DEF IdentityInv, IdentityTyped, OneOfEach, OwnerKeepsAccess, Owner,
     Identity!RenewalKeepsAccess,
         Identity!Usable, Identity!None, None
<1> QED  BY <1>1, <1>2, <1>3, IdentityInductive, PTL DEF Identity!Spec, AccessHolds,
   Identity!AccessHolds

-----------------------------------------------------------------------------
(* The installation of a tool on a host (AgentInstallation), for the Agent *)
(* and for its Restic, which share every operator below.                   *)

ToolFiles == Versions \cup {"none"}

HostCommands == {"activate", "rollback", "finish", "clean", "restart", "prepare", "start",
                 "cleanup", "stop", "remove"}
HostPlaces == HostCommands \cup {"idle", "begin", "drain", "stage", "await", "finalize",
                                 "complete", "end"}
ScriptSteps == {"begin", "park", "put", "restart", "aside", "back", "again"}

ToolFilesTyped == {active, previous, staged} \subseteq ToolFiles
AgentTyped ==
  agent \in [status : {"absent", "active", "revoked"}, managed : BOOLEAN,
             version : proven \cup {"none"}, draining : BOOLEAN]
OperationTyped ==
  op \in [kind : {"none", "upgrade", "probe", "deploy", "uninstall"},
          at : HostPlaces,
          target : ToolFiles, found : SUBSET ToolFiles, cut : BOOLEAN, ok : BOOLEAN]
ScriptsTyped ==
  /\ ops \in Nat
  /\ scripts \subseteq [op : Nat, do : HostCommands, at : ScriptSteps]

HostTyped == ToolFilesTyped /\ AgentTyped /\ OperationTyped /\ ScriptsTyped

(* Only the end of an operation calls it done.                             *)
OkAtEnd == op.ok = TRUE => op.at = "end"

UpgradePlaces ==
  op.kind = "upgrade" =>
    /\ op.target \in Versions
    /\ op.at \in {"begin", "drain", "stage", "clean", "activate", "await", "finish",
                  "rollback", "end"}

(* An upgrade whose scripts it waits for; the others promise nothing.      *)
Going == op.kind = "upgrade" /\ op.cut = FALSE
Upgrading(place) == Going /\ op.at = place

(* The script that runs, if one does, is the one that is waited for.       *)
ScriptIsAwaited ==
  Going =>
    /\ \A s \in scripts : s.op = ops /\ s.do = op.at
    /\ \A s, t \in scripts : s = t

Reaching(places) == \A s \in scripts : s.at \in places
HasReached(place) == \E s \in scripts : s.at = place

(* The file that was parked; that of an Agent is its program.              *)
CanReturn == previous \in op.found /\ (tool = "agent" => previous # "none")

(* Until it activates the new version, an upgrade leaves what it found.    *)
FoundStays ==
  \/ \E place \in {"begin", "drain", "stage", "clean"} : Upgrading(place)
  \/ Upgrading("activate") /\ Reaching({"begin"})
  => active \in op.found /\ previous \in op.found \cup {"none"}

ActivationFits ==
  Upgrading("activate") =>
    /\ Reaching({"begin", "park", "put"}) => staged = op.target
    /\ HasReached("park") =>
         /\ active \in op.found /\ previous = "none"
         /\ tool = "agent" => active # "none"
    /\ HasReached("put") => active = "none" /\ CanReturn
    /\ HasReached("restart") \/ HasReached("aside") => active = op.target /\ CanReturn
    /\ HasReached("back") => active = "none" /\ CanReturn
    /\ HasReached("again") => active \in op.found /\ previous = "none"
    /\ HasReached("aside") \/ HasReached("back") \/ HasReached("again") => tool = "agent"

(* While the new version is on trial, there is a file to return to.        *)
TrialCanEnd ==
  /\ Upgrading("await") \/ Upgrading("finish") =>
       active = op.target /\ running = active /\ CanReturn
  /\ Upgrading("finish") => op.target \in proven

(* A rollback returns to what was found; that of an Agent fails otherwise. *)
RollbackLands ==
  Upgrading("rollback") =>
    /\ Reaching({"begin", "aside"}) =>
         previous \in op.found \/ (tool = "agent" /\ previous = "none")
    /\ HasReached("aside") => running = "down" /\ (tool = "agent" => previous # "none")
    /\ HasReached("back") => active = "none" /\ running = "down" /\ CanReturn
    /\ HasReached("again") => active \in op.found /\ running = "down"

EndIsSound ==
  Upgrading("end") /\ op.ok = TRUE => active \in op.found \cup proven /\ running = active

HostShape == HostTyped /\ OkAtEnd /\ UpgradePlaces
HostClaims == ScriptIsAwaited /\ FoundStays /\ ActivationFits /\ TrialCanEnd /\ RollbackLands
              /\ EndIsSound
HostInv == tool \in {"agent", "restic"} /\ HostShape /\ HostClaims

(* How an operation goes on, whatever its tool.                            *)
LEMMA OperationGoesOn ==
  ASSUME OperationTyped, NEW at \in HostPlaces, NEW ok \in BOOLEAN, NEW cut \in BOOLEAN,
         op' = [op EXCEPT !.at = at, !.ok = ok, !.cut = @ \/ cut]
  PROVE  /\ OperationTyped'
         /\ op'.at = at /\ op'.ok = ok /\ op'.kind = op.kind
         /\ op'.target = op.target /\ op'.found = op.found
         /\ op'.cut = FALSE => op.cut = FALSE /\ cut = FALSE
<1> DEFINE both == op.cut \/ cut
<1>1. both \in BOOLEAN /\ (both = FALSE => op.cut = FALSE /\ cut = FALSE)
  BY DEF OperationTyped
<1>2. op' = [op EXCEPT !.at = at, !.ok = ok, !.cut = both]
  BY DEF OperationTyped
<1> HIDE DEF both
<1>3. QED  BY <1>1, <1>2 DEF OperationTyped

LEMMA OperationMoves ==
  ASSUME OperationTyped, NEW at \in HostPlaces, op' = [op EXCEPT !.at = at]
  PROVE  /\ OperationTyped'
         /\ op'.at = at /\ op'.ok = op.ok /\ op'.kind = op.kind
         /\ op'.target = op.target /\ op'.found = op.found /\ op'.cut = op.cut
  BY DEF OperationTyped

(* Where nothing is promised, nothing can be broken.                       *)
LEMMA NothingClaimed == ASSUME ~Going'  PROVE HostClaims'
  BY DEF HostClaims, ScriptIsAwaited, FoundStays, ActivationFits, TrialCanEnd, RollbackLands,
         EndIsSound, Upgrading

(* The script that an upgrade waits for is the only one.                   *)
LEMMA OneScript ==
  ASSUME Going, ScriptIsAwaited, NEW s \in scripts
  PROVE  scripts = {s} /\ s.op = ops /\ s.do = op.at
  BY DEF ScriptIsAwaited

LEMMA NoScript ==
  ASSUME Going, ScriptIsAwaited, ScriptsTyped, op.at \notin HostCommands
  PROVE  scripts = {}
  BY DEF ScriptIsAwaited, ScriptsTyped

(* What others do while an operation waits.                                *)
LEMMA HostUntouched ==
  ASSUME HostInv, AgentTyped', proven \subseteq proven',
         UNCHANGED <<tool, active, previous, staged, running, op, scripts, ops>>
  PROVE  HostInv'
<1>1. HostShape'
  BY DEF HostInv, HostShape, HostTyped, ToolFilesTyped, OperationTyped, ScriptsTyped, OkAtEnd,
         UpgradePlaces
<1>2. HostClaims'
  BY DEF HostInv, HostClaims, ScriptIsAwaited, FoundStays, ActivationFits, TrialCanEnd,
         RollbackLands, EndIsSound, Upgrading, Going, Reaching, HasReached, CanReturn
<1>3. QED  BY <1>1, <1>2 DEF HostInv

LEMMA NoOperation ==
  ASSUME op' = [kind |-> "none", at |-> "idle", target |-> "none", found |-> {},
                cut |-> FALSE, ok |-> FALSE]
  PROVE  OperationTyped' /\ OkAtEnd' /\ UpgradePlaces' /\ ~Going'
  BY DEF OperationTyped, OkAtEnd, UpgradePlaces, Going, HostPlaces, ToolFiles

(* A script that goes on to its next step stays the only one.              *)
LEMMA ScriptGoesOn ==
  ASSUME ScriptsTyped, Going, ScriptIsAwaited, NEW s \in scripts, NEW at \in ScriptSteps,
         op' = op, ops' = ops, scripts' = (scripts \ {s}) \cup {[s EXCEPT !.at = at]}
  PROVE  /\ ScriptsTyped' /\ ScriptIsAwaited'
         /\ \A t \in scripts' : t.at = at
         /\ \E t \in scripts' : t.at = at
<1> DEFINE next == [s EXCEPT !.at = at]
<1>1. next.op = s.op /\ next.do = s.do /\ next.at = at
  BY DEF ScriptsTyped
<1>2. next \in [op : Nat, do : HostCommands, at : ScriptSteps]
  BY DEF ScriptsTyped
<1>3. scripts = {s} /\ s.op = ops /\ s.do = op.at
  BY OneScript
<1>4. scripts' = {next}
  BY <1>3
<1> HIDE DEF next
<1>5. QED  BY <1>1, <1>2, <1>3, <1>4 DEF ScriptsTyped, ScriptIsAwaited

LEMMA AgentFailure ==
  ASSUME HostShape, op.at \in HostCommands, NEW at \in Agent!AfterFailed(op.at),
         NEW cut \in BOOLEAN, Agent!GoOn(at, FALSE, cut)
  PROVE  /\ OperationTyped' /\ OkAtEnd' /\ UpgradePlaces'
         /\ op.kind = "upgrade" =>
              /\ op'.at = at /\ op'.ok = FALSE /\ op'.kind = "upgrade"
              /\ op'.target = op.target /\ op'.found = op.found
              /\ op'.cut = FALSE => op.cut = FALSE /\ cut = FALSE
<1> USE DEF HostShape, HostTyped
<1>1. at \in {"rollback", "end", "cleanup", "idle"}
  BY DEF Agent!AfterFailed, HostCommands
<1>2. op.kind = "upgrade" => at \in {"rollback", "end"}
  BY DEF Agent!AfterFailed, UpgradePlaces, HostCommands
<1>3. CASE at = "idle"
  BY <1>2, <1>3, NoOperation DEF Agent!GoOn, Agent!NoOp, Agent!None
<1>4. CASE at # "idle"
  <2>1. at \in HostPlaces
    BY <1>1 DEF HostPlaces, HostCommands
  <2>2. op' = [op EXCEPT !.at = at, !.ok = FALSE, !.cut = @ \/ cut]
    BY <1>4 DEF Agent!GoOn
  <2>3. QED  BY <1>2, <2>1, <2>2, OperationGoesOn DEF OkAtEnd, UpgradePlaces
<1>5. QED  BY <1>3, <1>4

LEMMA AgentSuccess ==
  ASSUME HostShape, op.at \in HostCommands, Agent!Succeeded
  PROVE  /\ OperationTyped' /\ OkAtEnd' /\ UpgradePlaces'
         /\ op.kind = "upgrade" =>
              /\ op'.at = IF op.at = "activate" THEN "await" ELSE "end"
              /\ op'.kind = "upgrade" /\ op'.target = op.target /\ op'.found = op.found
              /\ op'.ok = TRUE => op.at \in {"finish", "rollback"}
              /\ op'.cut = FALSE => op.cut = FALSE
<1> USE DEF HostShape, HostTyped
<1> DEFINE at == Agent!AfterDone[op.at]
           ok == op.at \in {"finish", "rollback"}
<1>1. at \in HostPlaces /\ (ok => at = "end")
  BY DEF Agent!AfterDone, HostCommands, HostPlaces
<1>2. op.kind = "upgrade" => at = IF op.at = "activate" THEN "await" ELSE "end"
  BY DEF Agent!AfterDone, UpgradePlaces, HostCommands
<1>3. Agent!GoOn(at, ok, FALSE)
  BY DEF Agent!Succeeded
<1>4. ok \in BOOLEAN
  OBVIOUS
<1>5. ok = TRUE => op.at \in {"finish", "rollback"}
  OBVIOUS
<1> HIDE DEF at, ok
<1>6. CASE at = "idle"
  BY <1>2, <1>3, <1>6, NoOperation DEF Agent!GoOn, Agent!NoOp, Agent!None
<1>7. CASE at # "idle"
  <2>1. op' = [op EXCEPT !.at = at, !.ok = ok, !.cut = @ \/ FALSE]
    BY <1>3, <1>7 DEF Agent!GoOn
  <2>2. QED  BY <1>1, <1>2, <1>4, <1>5, <2>1, OperationGoesOn DEF OkAtEnd, UpgradePlaces
<1>8. QED  BY <1>6, <1>7

LEMMA AgentFails ==
  ASSUME HostShape, op.at \in HostCommands, NEW lost \in BOOLEAN, Agent!Failed(lost)
  PROVE  /\ OperationTyped' /\ OkAtEnd' /\ UpgradePlaces'
         /\ op.kind = "upgrade" =>
              /\ op'.at \in Agent!AfterFailed(op.at) /\ op'.ok = FALSE /\ op'.kind = "upgrade"
              /\ op'.target = op.target /\ op'.found = op.found
              /\ op'.cut = FALSE =>
                   op.cut = FALSE /\ ~("agent" = "restic" /\ op'.at = "rollback" /\ lost)
<1>1. PICK at \in Agent!AfterFailed(op.at) :
        Agent!GoOn(at, FALSE, "agent" = "restic" /\ at = "rollback" /\ lost)
  BY DEF Agent!Failed
<1> DEFINE cut == "agent" = "restic" /\ at = "rollback" /\ lost
<1>2. Agent!GoOn(at, FALSE, cut) /\ cut \in BOOLEAN /\ (cut = FALSE => ~cut)
  BY <1>1
<1>3. at = "rollback" /\ "agent" = "restic" /\ lost => cut
  OBVIOUS
<1> HIDE DEF cut
<1>4. QED  BY <1>2, <1>3, AgentFailure

(* The outcomes of a step of a script: it goes on, it ends unnoticed, or   *)
(* the operation that waits for it goes on.                                *)
AgentOutcome(s) ==
  \/ op' = op
  \/ Agent!Awaited(s) /\ (Agent!Succeeded \/ \E lost \in BOOLEAN : Agent!Failed(lost))

AgentStepOf(s) ==
  \/ Agent!BeginActivation(s) \/ Agent!ParkActive(s) \/ Agent!PutStaged(s) \/ Agent!RestartActivated(s)
  \/ Agent!SetAside(s) \/ Agent!PutBack(s) \/ Agent!RestartFormer(s)
  \/ Agent!BeginRollback(s) \/ Agent!SetFailedAside(s) \/ Agent!PutPreviousBack(s) \/ Agent!StartPrevious(s)
  \/ Agent!RemoveFiles(s) \/ Agent!RestartAgent(s) \/ Agent!StopOrRemove(s)

LEMMA AgentScriptMoves ==
  ASSUME HostShape, tool = "agent", tool' = tool, NEW s \in scripts, AgentStepOf(s)
  PROVE  /\ ToolFilesTyped' /\ AgentOutcome(s)
         /\ agent' = agent /\ proven' = proven /\ ops' = ops
         /\ \/ scripts' = scripts \ {s}
            \/ \E at \in ScriptSteps :
                 scripts' = (scripts \ {s}) \cup {[s EXCEPT !.at = at]}
<1> USE DEF HostShape, HostTyped, ToolFilesTyped, ToolFiles, ScriptSteps, AgentOutcome,
      Agent!Around, Agent!files, Agent!Proceeds, Agent!Calm, Agent!Trouble, Agent!Ends, Agent!Done, Agent!Fails, Agent!Breaks,
      Agent!DoesNotStart, Agent!None, Agent!Down
<1>1. CASE Agent!BeginActivation(s)
  BY <1>1 DEF Agent!BeginActivation
<1>2. CASE Agent!ParkActive(s)
  BY <1>2 DEF Agent!ParkActive
<1>3. CASE Agent!PutStaged(s)
  BY <1>3 DEF Agent!PutStaged
<1>4. CASE Agent!RestartActivated(s)
  BY <1>4 DEF Agent!RestartActivated
<1>5. CASE Agent!SetAside(s)
  BY <1>5 DEF Agent!SetAside
<1>6. CASE Agent!PutBack(s)
  BY <1>6 DEF Agent!PutBack
<1>7. CASE Agent!RestartFormer(s)
  BY <1>7 DEF Agent!RestartFormer
<1>8. CASE Agent!BeginRollback(s)
  BY <1>8 DEF Agent!BeginRollback
<1>9. CASE Agent!SetFailedAside(s)
  BY <1>9 DEF Agent!SetFailedAside
<1>10. CASE Agent!PutPreviousBack(s)
  BY <1>10 DEF Agent!PutPreviousBack, Agent!Returns
<1>11. CASE Agent!StartPrevious(s)
  BY <1>11 DEF Agent!StartPrevious
<1>12. CASE Agent!RemoveFiles(s)
  BY <1>12 DEF Agent!RemoveFiles
<1>13. CASE Agent!RestartAgent(s)
  BY <1>13 DEF Agent!RestartAgent
<1>14. CASE Agent!StopOrRemove(s)
  BY <1>14 DEF Agent!StopOrRemove
<1>15. QED  BY <1>1, <1>2, <1>3, <1>4, <1>5, <1>6, <1>7, <1>8, <1>9, <1>10, <1>11,
               <1>12, <1>13, <1>14 DEF AgentStepOf

LEMMA AgentScriptShape ==
  ASSUME HostShape, tool = "agent", tool' = tool, Agent!ScriptStep
  PROVE  HostShape'
<1>1. PICK s \in scripts : AgentStepOf(s)
  BY DEF Agent!ScriptStep, AgentStepOf
<1>2. /\ ToolFilesTyped' /\ AgentOutcome(s)
      /\ agent' = agent /\ proven' = proven /\ ops' = ops
      /\ \/ scripts' = scripts \ {s}
         \/ \E at \in ScriptSteps : scripts' = (scripts \ {s}) \cup {[s EXCEPT !.at = at]}
  BY <1>1, AgentScriptMoves
<1>3. AgentTyped' /\ ScriptsTyped'
  BY <1>2 DEF HostShape, HostTyped, AgentTyped, ScriptsTyped
<1>4. OperationTyped' /\ OkAtEnd' /\ UpgradePlaces'
  <2>1. CASE op' = op
    BY <2>1 DEF HostShape, HostTyped, OperationTyped, OkAtEnd, UpgradePlaces
  <2>2. CASE Agent!Awaited(s)
    <3>1. op.at \in HostCommands
      BY <2>2 DEF Agent!Awaited, HostShape, HostTyped, ScriptsTyped
    <3>2. QED  BY <1>2, <2>1, <3>1, AgentSuccess, AgentFails DEF AgentOutcome
  <2>3. QED  BY <1>2, <2>1, <2>2 DEF AgentOutcome
<1>5. QED  BY <1>2, <1>3, <1>4 DEF HostShape, HostTyped

LEMMA AgentSendShape ==
  ASSUME HostShape, tool = "agent", Agent!Send \/ Agent!GiveUp
  PROVE  HostShape'
<1> USE DEF HostShape, HostTyped
<1>1. CASE Agent!Send
  <2> USE <1>1 DEF Agent!Send
  <2>1. op.at \in HostCommands
    BY DEF Agent!Commands, HostCommands
  <2>2. ToolFilesTyped' /\ AgentTyped'
    BY DEF Agent!host, Agent!files, ToolFilesTyped, AgentTyped
  <2>3. ScriptsTyped'
    BY <2>1 DEF ScriptsTyped, Agent!Script, ScriptSteps
  <2>4. (op.at = "activate") \in BOOLEAN
    OBVIOUS
  <2>5. CASE op' = op
    BY <2>2, <2>3, <2>5 DEF OperationTyped, OkAtEnd, UpgradePlaces
  <2>6. CASE Agent!Failed(op.at = "activate")
    <3> DEFINE lost == op.at = "activate"
    <3>1. lost \in BOOLEAN /\ Agent!Failed(lost)
      BY <2>6
    <3> HIDE DEF lost
    <3>2. QED  BY <2>1, <2>2, <2>3, <3>1, AgentFails
  <2>7. QED  BY <2>5, <2>6
<1>2. CASE Agent!GiveUp
  <2> USE <1>2 DEF Agent!GiveUp
  <2>1. op.at \in HostCommands
    BY DEF Agent!Awaited, ScriptsTyped
  <2>2. ToolFilesTyped' /\ AgentTyped' /\ ScriptsTyped'
    BY DEF Agent!host, Agent!files, ToolFilesTyped, AgentTyped, ScriptsTyped
  <2>3. PICK at \in Agent!AfterFailed(op.at) : Agent!GoOn(at, FALSE, TRUE)
    OBVIOUS
  <2>4. QED  BY <2>1, <2>2, <2>3, AgentFailure
<1>3. QED  BY <1>1, <1>2

(* What the Agent and its users do.                                        *)
LEMMA AgentUsersAct ==
  ASSUME HostInv, tool = "agent", tool' = tool,
         Agent!Heartbeat \/ Agent!Enroll \/ Agent!Claim \/ Agent!Complete \/ Agent!RevokeAgent
  PROVE  HostInv'
<1> USE DEF Agent!host, Agent!files
<1>1. AgentTyped' /\ proven \subseteq proven'
  <2> USE DEF HostInv, HostShape, HostTyped, AgentTyped, Agent!None
  <2>1. CASE Agent!Heartbeat
    BY <2>1 DEF Agent!Heartbeat
  <2>2. CASE Agent!Enroll
    BY <2>2 DEF Agent!Enroll, Agent!Row
  <2>3. CASE Agent!Claim \/ Agent!Complete \/ Agent!RevokeAgent
    BY <2>3 DEF Agent!Claim, Agent!Complete, Agent!RevokeAgent
  <2>4. QED  BY <2>1, <2>2, <2>3
<1>2. UNCHANGED <<active, previous, staged, running, op, scripts, ops>>
  BY DEF Agent!Heartbeat, Agent!Enroll, Agent!Claim, Agent!Complete, Agent!RevokeAgent
<1>3. QED  BY <1>1, <1>2, HostUntouched

(* An operation begins; a script that is left makes it one that promises   *)
(* nothing.                                                                *)
LEMMA AgentBegins ==
  ASSUME HostInv, tool = "agent", tool' = tool,
         Agent!StartUpgrade \/ Agent!StartProbe \/ Agent!StartDeploy \/ Agent!StartUninstall
  PROVE  HostInv'
<1> USE DEF Agent!host, Agent!files, Agent!None, Agent!NoOp
<1>1. PICK kind \in {"upgrade", "probe", "deploy", "uninstall"}, target \in ToolFiles :
        Agent!Begin(kind, target) /\ (kind = "upgrade" => target \in Versions)
  BY DEF Agent!StartUpgrade, Agent!StartProbe, Agent!StartDeploy, Agent!StartUninstall, ToolFiles
<1>2. UNCHANGED <<active, previous, staged, agent, running, proven>>
  BY DEF Agent!StartUpgrade, Agent!StartProbe, Agent!StartDeploy, Agent!StartUninstall
<1>3. /\ scripts' = scripts /\ ops' = ops + 1
      /\ op' = [kind |-> kind, at |-> "begin", target |-> target,
                found |-> {active} \cup ({previous} \ {"none"}), cut |-> scripts # {},
                ok |-> FALSE]
  BY <1>1 DEF Agent!Begin
<1>4. HostShape'
  <2>1. ToolFilesTyped' /\ AgentTyped' /\ ScriptsTyped'
    BY <1>2, <1>3 DEF HostInv, HostShape, HostTyped, ToolFilesTyped, AgentTyped, ScriptsTyped
  <2>2. {active} \cup ({previous} \ {"none"}) \in SUBSET ToolFiles
    BY DEF HostInv, HostShape, HostTyped, ToolFilesTyped
  <2> DEFINE cut == scripts # {}
  <2>3. cut \in BOOLEAN /\ op' = [kind |-> kind, at |-> "begin", target |-> target,
                found |-> {active} \cup ({previous} \ {"none"}), cut |-> cut, ok |-> FALSE]
    BY <1>3
  <2> HIDE DEF cut
  <2>4. OperationTyped' /\ OkAtEnd' /\ UpgradePlaces'
    BY <1>1, <2>2, <2>3 DEF OperationTyped, OkAtEnd, UpgradePlaces, HostPlaces
  <2>5. QED  BY <2>1, <2>4 DEF HostShape, HostTyped
<1>5. CASE ~Going'
  BY <1>4, <1>5, NothingClaimed DEF HostInv
<1>6. CASE Going'
  <2>1. scripts' = {} /\ op'.at = "begin"
        /\ active \in op'.found /\ previous \in op'.found \cup {"none"}
    BY <1>3, <1>6 DEF Going
  <2>2. HostClaims'
    BY <1>2, <2>1 DEF HostClaims, ScriptIsAwaited, FoundStays, ActivationFits, TrialCanEnd,
       RollbackLands, EndIsSound, Upgrading, Going
  <2>3. QED  BY <1>4, <2>2 DEF HostInv
<1>7. QED  BY <1>5, <1>6

(* Deployment, removal, probes, and a crash.                               *)
LEMMA AgentOthersGoOn ==
  ASSUME HostInv, tool = "agent", tool' = tool,
         \/ Agent!Upload \/ Agent!BindManagedAgent \/ Agent!FinishDeploy
         \/ Agent!CompleteAgentUninstall \/ Agent!Crash \/ Agent!EndAgentDrain
  PROVE  HostInv'
<1> USE DEF Agent!host, Agent!files, HostInv, HostShape, HostTyped
<1>1. ToolFilesTyped' /\ AgentTyped' /\ ScriptsTyped'
  <2>1. ToolFilesTyped'
    BY DEF Agent!Upload, Agent!BindManagedAgent, Agent!FinishDeploy, Agent!CompleteAgentUninstall,
       Agent!Crash, Agent!EndAgentDrain, Agent!On, ToolFilesTyped, OperationTyped
  <2>2. UNCHANGED <<proven, scripts, ops>>
        /\ \/ agent' = agent
           \/ agent' = [agent EXCEPT !.managed = TRUE]
           \/ agent' = [agent EXCEPT !.status = "revoked"]
           \/ agent' = [agent EXCEPT !.draining = FALSE]
    BY DEF Agent!Upload, Agent!BindManagedAgent, Agent!FinishDeploy, Agent!CompleteAgentUninstall,
       Agent!Crash, Agent!EndAgentDrain
  <2>3. AgentTyped'
    BY <2>2 DEF AgentTyped
  <2>4. ScriptsTyped'
    BY <2>2 DEF ScriptsTyped
  <2>5. QED  BY <2>1, <2>3, <2>4
<1>2. \/ op' = Agent!NoOp
      \/ /\ op.kind \in {"deploy", "uninstall"} /\ op.ok = FALSE
         /\ \E at \in HostPlaces : op' = [op EXCEPT !.at = at]
  BY DEF Agent!Upload, Agent!BindManagedAgent, Agent!FinishDeploy, Agent!CompleteAgentUninstall, Agent!Crash,
     Agent!EndAgentDrain, Agent!Step, Agent!On, Agent!Go, Agent!Trouble, Agent!Calm, HostPlaces, HostCommands,
     OkAtEnd, OperationTyped
<1>3. OperationTyped' /\ OkAtEnd' /\ UpgradePlaces' /\ ~Going'
  <2>1. CASE op' = Agent!NoOp
    BY <2>1, NoOperation DEF Agent!NoOp, Agent!None
  <2>2. CASE op' # Agent!NoOp
    BY <1>2, <2>2, OperationMoves DEF OkAtEnd, UpgradePlaces, Going
  <2>3. QED  BY <2>1, <2>2
<1>4. QED  BY <1>1, <1>3, NothingClaimed DEF HostInv

(* An upgrade drains the Agent, stages the file and waits for the new      *)
(* version; no script runs meanwhile.                                      *)
LEMMA AgentUpgradeMoves ==
  ASSUME HostInv, tool = "agent", tool' = tool,
         Agent!BeginAgentDrain \/ Agent!WaitForDrain \/ Agent!Stage \/ Agent!WaitForVersionHeartbeat
  PROVE  HostInv'
<1> USE DEF Agent!host, Agent!files, Agent!Draining
<1>1. UNCHANGED <<active, previous, running, proven, scripts, ops>>
  BY DEF Agent!BeginAgentDrain, Agent!WaitForDrain, Agent!Stage, Agent!WaitForVersionHeartbeat
<1>2. PICK at \in HostPlaces :
        /\ op' = [op EXCEPT !.at = at]
        /\ op.kind \in {"upgrade", "probe", "uninstall"} /\ op.at \notin HostCommands \cup {"end"}
        /\ op.kind = "upgrade" =>
             \/ at \in {"drain", "stage", "clean", "end"} /\ op.at \in {"begin", "drain", "stage"}
             \/ at = "activate" /\ op.at = "stage" /\ staged' = op.target
             \/ at = "finish" /\ op.at = "await" /\ agent.version = op.target
             \/ at = "rollback" /\ op.at = "await"
  <2> USE DEF HostPlaces, HostCommands, Agent!On, Agent!Go
  <2>1. CASE Agent!BeginAgentDrain
    BY <2>1 DEF Agent!BeginAgentDrain
  <2>2. CASE Agent!WaitForDrain
    BY <2>2 DEF Agent!WaitForDrain
  <2>3. CASE Agent!Stage
    BY <2>3 DEF Agent!Stage
  <2>4. CASE Agent!WaitForVersionHeartbeat
    BY <2>4 DEF Agent!WaitForVersionHeartbeat, Agent!Verified
  <2>5. QED  BY <2>1, <2>2, <2>3, <2>4
<1>3. /\ op'.at = at /\ op'.ok = op.ok /\ op'.kind = op.kind /\ OperationTyped'
      /\ op'.target = op.target /\ op'.found = op.found /\ op'.cut = op.cut
  BY <1>2, OperationMoves DEF HostInv, HostShape, HostTyped
<1>4. HostShape'
  <2> USE DEF HostInv, HostShape, HostTyped
  <2>1. ToolFilesTyped'
    BY <1>1 DEF Agent!BeginAgentDrain, Agent!WaitForDrain, Agent!Stage, Agent!WaitForVersionHeartbeat,
       ToolFilesTyped, ToolFiles
  <2>2. AgentTyped'
    BY <1>1 DEF Agent!BeginAgentDrain, Agent!WaitForDrain, Agent!Stage, Agent!WaitForVersionHeartbeat, AgentTyped
  <2>3. ScriptsTyped'
    BY <1>1 DEF ScriptsTyped
  <2>4. OkAtEnd' /\ UpgradePlaces'
    BY <1>2, <1>3 DEF OkAtEnd, UpgradePlaces
  <2>5. QED  BY <1>3, <2>1, <2>2, <2>3, <2>4
<1>5. CASE ~Going'
  BY <1>4, <1>5, NothingClaimed DEF HostInv
<1>6. CASE Going'
  <2>1. Going /\ scripts = {}
    BY <1>2, <1>3, <1>6, NoScript DEF Going, HostInv, HostShape, HostTyped, HostClaims
  <2>2. ScriptIsAwaited'
    BY <1>1, <2>1 DEF ScriptIsAwaited
  <2>3. FoundStays' /\ ActivationFits'
    BY <1>1, <1>2, <1>3, <2>1 DEF HostInv, HostClaims, FoundStays, ActivationFits, Upgrading,
       Going, Reaching, HasReached
  <2>4. op'.at = "finish" => op.target \in proven
    BY <1>2, <1>3, <2>1, VersionsAssumption DEF HostInv, HostShape, HostTyped, AgentTyped,
       UpgradePlaces, Going, Agent!None
  <2>5. TrialCanEnd' /\ RollbackLands'
    BY <1>1, <1>2, <1>3, <2>1, <2>4 DEF HostInv, HostClaims, TrialCanEnd, RollbackLands,
       Upgrading, Going, Reaching, HasReached, CanReturn
  <2>6. EndIsSound'
    BY <1>2, <1>3, <2>1 DEF HostInv, HostShape, OkAtEnd, EndIsSound, Upgrading
  <2>7. QED  BY <1>4, <2>2, <2>3, <2>5, <2>6 DEF HostInv, HostClaims
<1>7. QED  BY <1>5, <1>6

(* A command is given, or given up.                                        *)
LEMMA AgentSends ==
  ASSUME HostInv, tool = "agent", tool' = tool, Agent!Send \/ Agent!GiveUp
  PROVE  HostInv'
<1>1. HostShape'
  BY AgentSendShape DEF HostInv
<1>2. CASE ~Going'
  BY <1>1, <1>2, NothingClaimed DEF HostInv
<1>3. CASE Going' /\ Agent!GiveUp
  <2>1. PICK at \in Agent!AfterFailed(op.at) : Agent!GoOn(at, FALSE, TRUE)
    BY <1>3 DEF Agent!GiveUp
  <2>2. op.at \in HostCommands
    BY <1>3 DEF Agent!GiveUp, Agent!Awaited, HostInv, HostShape, HostTyped, ScriptsTyped
  <2>3. op.kind = "upgrade"
    <3>1. op'.kind = op.kind \/ op' = Agent!NoOp
      BY <2>1 DEF Agent!GoOn, HostInv, HostShape, HostTyped, OperationTyped
    <3>2. QED  BY <1>3, <3>1 DEF Going, Agent!NoOp, Agent!None
  <2>4. op'.cut # FALSE
    BY <2>1, <2>2, <2>3, AgentFailure DEF HostInv
  <2>5. QED  BY <1>3, <2>4 DEF Going
<1>4. CASE Going' /\ Agent!Send
  <2> USE <1>4 DEF Agent!Send, Agent!host, Agent!files
  <2>1. op.at \in HostCommands
    BY DEF Agent!Commands, HostCommands
  <2>2. CASE op' = op /\ scripts' = scripts \cup {Agent!Script(op.at)}
    <3>1. Going
      BY <2>2 DEF Going
    <3>2. scripts = {}
      BY <3>1 DEF Agent!Awaited, HostInv, HostClaims, ScriptIsAwaited
    <3>3. PICK s \in scripts' : scripts' = {s} /\ s.op = ops /\ s.do = op.at /\ s.at = "begin"
      BY <2>2, <3>2 DEF Agent!Script
    <3>4. QED
      BY <1>1, <2>2, <3>1, <3>2, <3>3 DEF HostInv, HostClaims, ScriptIsAwaited, FoundStays,
         ActivationFits, TrialCanEnd, RollbackLands, EndIsSound, Upgrading, Going, Reaching,
         HasReached, CanReturn
  <2>3. CASE scripts' = scripts /\ Agent!Failed(op.at = "activate")
    <3> DEFINE lost == op.at = "activate"
    <3>1. lost \in BOOLEAN /\ Agent!Failed(lost) /\ (lost <=> op.at = "activate")
      BY <2>3
    <3> HIDE DEF lost
    <3>2. op.kind = "upgrade"
      <4>1. op'.kind = op.kind \/ op' = Agent!NoOp
        BY <3>1 DEF Agent!Failed, Agent!GoOn, HostInv, HostShape, HostTyped, OperationTyped
      <4>2. QED  BY <1>4, <4>1 DEF Going, Agent!NoOp, Agent!None
    <3>3. /\ op'.at \in Agent!AfterFailed(op.at) /\ op'.ok = FALSE /\ op'.kind = "upgrade"
          /\ op'.target = op.target /\ op'.found = op.found
          /\ op.cut = FALSE
          /\ ~("agent" = "restic" /\ op'.at = "rollback" /\ op.at = "activate")
      BY <1>4, <2>1, <3>1, <3>2, AgentFails DEF HostInv, Going
    <3>4. scripts = {} /\ Going
      BY <3>2, <3>3 DEF Agent!Awaited, Going, HostInv, HostClaims, ScriptIsAwaited
    <3>5. op'.at = "end" \/ (op'.at = "rollback" /\ op.at \in {"activate", "finish"})
      BY <2>1, <3>2, <3>3 DEF Agent!AfterFailed, HostInv, HostShape, UpgradePlaces, HostCommands
    <3>6. RollbackLands'
      BY <2>3, <3>2, <3>3, <3>4, <3>5 DEF HostInv, HostClaims, FoundStays, TrialCanEnd,
         RollbackLands, Upgrading, Going, Reaching, HasReached, CanReturn
    <3>7. QED
      BY <1>1, <2>3, <3>3, <3>4, <3>5, <3>6 DEF HostInv, HostClaims, ScriptIsAwaited,
         FoundStays, ActivationFits, TrialCanEnd, EndIsSound, Upgrading
  <2>4. QED  BY <2>2, <2>3
<1>5. QED  BY <1>2, <1>3, <1>4

(* What the scripts of an upgrade that is not cut off leave.               *)
LEMMA AgentScriptClaims ==
  ASSUME HostInv, tool = "agent", tool' = tool, Agent!ScriptStep, Going'
  PROVE  HostClaims'
<1>1. PICK s \in scripts : AgentStepOf(s)
  BY DEF Agent!ScriptStep, AgentStepOf
<1>2. AgentOutcome(s) /\ proven' = proven /\ ops' = ops
  BY <1>1, AgentScriptMoves DEF HostInv
<1>3. op.kind = "upgrade"
  <2>1. op'.kind = op.kind \/ op' = Agent!NoOp
    BY <1>2 DEF AgentOutcome, Agent!Failed, Agent!Succeeded, Agent!GoOn, HostInv, HostShape, HostTyped,
       OperationTyped
  <2>2. QED  BY <2>1 DEF Going, Agent!NoOp, Agent!None
<1>4. Agent!Awaited(s) => op.at \in HostCommands
  BY DEF Agent!Awaited, HostInv, HostShape, HostTyped, ScriptsTyped
<1>5. Going
  <2>1. CASE op' = op
    BY <2>1 DEF Going
  <2>2. CASE op' # op
    BY <1>2, <1>3, <1>4, <2>2, AgentSuccess, AgentFails DEF AgentOutcome, HostInv, Going
  <2>3. QED  BY <2>1, <2>2
<1>6. scripts = {s} /\ s.op = ops /\ s.do = op.at
  BY <1>5, OneScript DEF HostInv, HostClaims
<1>7. op.at \in {"clean", "activate", "finish", "rollback"}
  BY <1>3, <1>4, <1>6 DEF Agent!Awaited, HostInv, HostShape, UpgradePlaces, HostCommands
<1>8. ASSUME Agent!Ends(s, Agent!Succeeded)
      PROVE  /\ op'.at = IF op.at = "activate" THEN "await" ELSE "end"
             /\ op'.target = op.target /\ op'.found = op.found
             /\ op'.ok = TRUE => op.at \in {"finish", "rollback"}
             /\ scripts' = {} /\ ScriptIsAwaited'
  BY <1>3, <1>4, <1>6, <1>8, AgentSuccess DEF Agent!Ends, Agent!Awaited, HostInv, ScriptIsAwaited
<1>9. ASSUME NEW lost \in BOOLEAN, Agent!Ends(s, Agent!Failed(lost))
      PROVE  /\ op.at # "finish" => op'.at = IF op.at = "activate" THEN "rollback" ELSE "end"
             /\ op'.at \in {"rollback", "end"} /\ op'.ok = FALSE
             /\ op'.target = op.target /\ op'.found = op.found
             /\ ~("agent" = "restic" /\ op'.at = "rollback" /\ lost)
             /\ scripts' = {} /\ ScriptIsAwaited'
  <2>1. /\ op'.at \in Agent!AfterFailed(op.at) /\ op'.ok = FALSE
        /\ op'.target = op.target /\ op'.found = op.found
        /\ ~("agent" = "restic" /\ op'.at = "rollback" /\ lost)
        /\ scripts' = {} /\ ScriptIsAwaited'
    BY <1>3, <1>4, <1>6, <1>9, AgentFails DEF Agent!Ends, Agent!Awaited, HostInv, ScriptIsAwaited, Going
  <2>2. QED  BY <1>7, <2>1 DEF Agent!AfterFailed
<1>10. ASSUME NEW at \in ScriptSteps, op' = op,
              scripts' = (scripts \ {s}) \cup {[s EXCEPT !.at = at]}
       PROVE  /\ ScriptIsAwaited'
              /\ \A t \in scripts' : t.at = at
              /\ \E t \in scripts' : t.at = at
  BY <1>2, <1>5, <1>10, ScriptGoesOn DEF HostInv, HostShape, HostTyped, HostClaims
<1>11. ASSUME ScriptIsAwaited', FoundStays', ActivationFits', TrialCanEnd', RollbackLands',
              EndIsSound'
       PROVE  HostClaims'
  BY <1>11 DEF HostClaims
<1> DEFINE goes(at) == /\ op' = op /\ at \in ScriptSteps
                       /\ scripts' = (scripts \ {s}) \cup {[s EXCEPT !.at = at]}
<1>12. ASSUME NEW at, goes(at), at # "begin", op.at = "activate", ActivationFits'
       PROVE  HostClaims'
  <2>1. ScriptIsAwaited' /\ (\A t \in scripts' : t.at = at) /\ (\E t \in scripts' : t.at = at)
    BY <1>10, <1>12
  <2>2. FoundStays' /\ TrialCanEnd' /\ RollbackLands' /\ EndIsSound'
    BY <1>12, <2>1 DEF FoundStays, TrialCanEnd, RollbackLands, EndIsSound, Upgrading, Reaching
  <2>3. QED  BY <1>12, <2>1, <2>2 DEF HostClaims
<1>13. ASSUME NEW at, goes(at), op.at = "rollback", RollbackLands'
       PROVE  HostClaims'
  <2>1. ScriptIsAwaited'
    BY <1>10, <1>13
  <2>2. FoundStays' /\ ActivationFits' /\ TrialCanEnd' /\ EndIsSound'
    BY <1>13 DEF FoundStays, ActivationFits, TrialCanEnd, EndIsSound, Upgrading
  <2>3. QED  BY <1>13, <2>1, <2>2 DEF HostClaims
<1>14. ASSUME scripts' = {}, ScriptIsAwaited', op'.at \in {"await", "rollback", "end"},
              TrialCanEnd', RollbackLands', EndIsSound'
       PROVE  HostClaims'
  BY <1>14 DEF HostClaims, FoundStays, ActivationFits, Upgrading
<1>15. op.target \in Versions /\ op.target # "none"
  BY <1>3, VersionsAssumption DEF HostInv, HostShape, UpgradePlaces, Agent!None
<1>16. s.at \in ScriptSteps
  BY DEF HostInv, HostShape, HostTyped, ScriptsTyped
<1> USE <1>5, <1>6, <1>15, <1>16 DEF Agent!Reaches, Agent!Around, Agent!None, Agent!Down, Agent!CanStart,
     Agent!Proceeds, Agent!Calm, Agent!Fails, Agent!Breaks, Agent!Done, Agent!DoesNotStart, Agent!Trouble, Agent!files
<1>17. CASE Agent!BeginActivation(s)
  <2> USE <1>17 DEF Agent!BeginActivation
  <2>1. /\ op.at = "activate" /\ active \in op.found /\ previous \in op.found \cup {"none"}
        /\ staged = op.target
    BY DEF HostInv, HostClaims, FoundStays, ActivationFits, Upgrading, Reaching
  <2>2. CASE Agent!Proceeds(s, "park") /\ previous' = "none" /\ ("agent" = "agent" => active # "none")
    <3>1. goes("park")
      BY <2>2 DEF ScriptSteps
    <3>2. ActivationFits'
      BY <1>10, <2>1, <2>2, <3>1 DEF ActivationFits, Reaching, HasReached
    <3>3. QED  BY <1>12, <2>1, <3>1, <3>2
  <2>3. CASE Agent!Ends(s, Agent!Failed(FALSE)) /\ previous' = previous /\ "agent" = "agent"
    <3>1. op'.at = "rollback" /\ scripts' = {} /\ ScriptIsAwaited' /\ op'.found = op.found
      BY <1>9, <2>1, <2>3
    <3>2. RollbackLands' /\ TrialCanEnd' /\ EndIsSound'
      BY <2>1, <2>3, <3>1 DEF RollbackLands, TrialCanEnd, EndIsSound, Upgrading, HasReached
    <3>3. QED  BY <1>14, <3>1, <3>2
  <2>4. QED  BY <2>1, <2>2, <2>3
<1>18. CASE Agent!ParkActive(s)
  <2> USE <1>18 DEF Agent!ParkActive
  <2>1. /\ op.at = "activate" /\ active \in op.found /\ previous = "none"
        /\ staged = op.target /\ ("agent" = "agent" => active # "none")
    BY DEF HostInv, HostClaims, ActivationFits, Upgrading, Reaching, HasReached
  <2>2. goes("put")
    BY <2>1 DEF ScriptSteps
  <2>3. active' = "none" /\ previous' \in op.found /\ ("agent" = "agent" => previous' # "none")
    BY <2>1
  <2>4. ActivationFits'
    BY <1>10, <2>1, <2>2, <2>3 DEF ActivationFits, Reaching, HasReached, CanReturn
  <2>5. QED  BY <1>12, <2>1, <2>2, <2>4
<1>19. CASE Agent!PutStaged(s)
  <2> USE <1>19 DEF Agent!PutStaged
  <2>1. op.at = "activate" /\ CanReturn /\ staged = op.target
    BY DEF HostInv, HostClaims, ActivationFits, Upgrading, Reaching, HasReached
  <2>2. goes("restart") /\ active' = op.target /\ CanReturn'
    BY <2>1 DEF ScriptSteps, CanReturn
  <2>3. ActivationFits'
    BY <1>10, <2>1, <2>2 DEF ActivationFits, Reaching, HasReached
  <2>4. QED  BY <1>12, <2>1, <2>2, <2>3
<1>20. CASE Agent!RestartActivated(s)
  <2> USE <1>20 DEF Agent!RestartActivated
  <2>1. op.at = "activate" /\ CanReturn /\ active = op.target
    BY DEF HostInv, HostClaims, ActivationFits, Upgrading, Reaching, HasReached
  <2>2. CASE goes("aside") /\ "agent" = "agent"
    <3>1. ActivationFits'
      BY <1>10, <2>1, <2>2 DEF ActivationFits, Reaching, HasReached, CanReturn
    <3>2. QED  BY <1>12, <2>1, <2>2, <3>1
  <2>3. CASE Agent!Ends(s, Agent!Succeeded) /\ running' = active
    <3>1. op'.at = "await" /\ scripts' = {} /\ ScriptIsAwaited'
          /\ op'.found = op.found /\ op'.target = op.target
      BY <1>8, <2>1, <2>3
    <3>2. RollbackLands' /\ TrialCanEnd' /\ EndIsSound'
      BY <2>1, <2>3, <3>1 DEF RollbackLands, TrialCanEnd, EndIsSound, Upgrading, CanReturn
    <3>3. QED  BY <1>14, <3>1, <3>2
  <2>4. CASE Agent!Ends(s, Agent!Failed(FALSE)) \/ Agent!Ends(s, Agent!Failed(s.do = "finish"))
    <3> DEFINE lost == s.do = "finish"
    <3>1. lost \in BOOLEAN /\ (Agent!Ends(s, Agent!Failed(FALSE)) \/ Agent!Ends(s, Agent!Failed(lost)))
      BY <2>4
    <3> HIDE DEF lost
    <3>2. op'.at = "rollback" /\ scripts' = {} /\ ScriptIsAwaited' /\ op'.found = op.found
      BY <1>9, <2>1, <3>1
    <3>3. RollbackLands' /\ TrialCanEnd' /\ EndIsSound'
      BY <2>1, <3>2 DEF RollbackLands, TrialCanEnd, EndIsSound, Upgrading, HasReached, CanReturn
    <3>4. QED  BY <1>14, <3>2, <3>3
  <2>5. \/ goes("aside") /\ "agent" = "agent"
        \/ Agent!Ends(s, Agent!Succeeded) /\ running' = active
        \/ Agent!Ends(s, Agent!Failed(FALSE)) \/ Agent!Ends(s, Agent!Failed(s.do = "finish"))
    BY DEF ScriptSteps
  <2>6. QED  BY <2>2, <2>3, <2>4, <2>5
<1>21. CASE Agent!SetAside(s)
  <2> USE <1>21 DEF Agent!SetAside
  <2>1. op.at = "activate" /\ CanReturn /\ active = op.target /\ "agent" = "agent"
    BY DEF HostInv, HostClaims, ActivationFits, Upgrading, Reaching, HasReached
  <2>2. goes("back") /\ active' = "none" /\ CanReturn'
    BY <2>1 DEF ScriptSteps, CanReturn
  <2>3. ActivationFits'
    BY <1>10, <2>1, <2>2 DEF ActivationFits, Reaching, HasReached
  <2>4. QED  BY <1>12, <2>1, <2>2, <2>3
<1>22. CASE Agent!PutBack(s)
  <2> USE <1>22 DEF Agent!PutBack
  <2>1. op.at = "activate" /\ CanReturn /\ "agent" = "agent"
    BY DEF HostInv, HostClaims, ActivationFits, Upgrading, Reaching, HasReached
  <2>2. goes("again") /\ active' \in op.found /\ previous' = "none"
    BY <2>1 DEF ScriptSteps, CanReturn
  <2>3. ActivationFits'
    BY <1>10, <2>1, <2>2 DEF ActivationFits, Reaching, HasReached
  <2>4. QED  BY <1>12, <2>1, <2>2, <2>3
<1>23. CASE Agent!RestartFormer(s)
  <2> USE <1>23 DEF Agent!RestartFormer
  <2>1. op.at = "activate" /\ previous = "none" /\ "agent" = "agent"
    BY DEF HostInv, HostClaims, ActivationFits, Upgrading, Reaching, HasReached
  <2>2. Agent!Ends(s, Agent!Failed(FALSE)) /\ previous' = "none"
    BY <2>1
  <2>3. op'.at = "rollback" /\ scripts' = {} /\ ScriptIsAwaited'
    BY <1>9, <2>1, <2>2
  <2>4. RollbackLands' /\ TrialCanEnd' /\ EndIsSound'
    BY <2>1, <2>2, <2>3 DEF RollbackLands, TrialCanEnd, EndIsSound, Upgrading, HasReached
  <2>5. QED  BY <1>14, <2>3, <2>4
<1>24. ASSUME Agent!Ends(s, Agent!Failed(FALSE)), op.at = "rollback"
       PROVE  HostClaims'
  <2>1. op'.at = "end" /\ op'.ok = FALSE /\ scripts' = {} /\ ScriptIsAwaited'
    BY <1>9, <1>24
  <2>2. RollbackLands' /\ TrialCanEnd' /\ EndIsSound'
    BY <2>1 DEF RollbackLands, TrialCanEnd, EndIsSound, Upgrading
  <2>3. QED  BY <1>14, <2>1, <2>2
<1>25. CASE Agent!BeginRollback(s)
  <2> USE <1>25 DEF Agent!BeginRollback
  <2>1. op.at = "rollback" /\ (previous \in op.found \/ ("agent" = "agent" /\ previous = "none"))
    BY DEF HostInv, HostClaims, RollbackLands, Upgrading, Reaching
  <2>2. CASE goes("aside") /\ running' = "down" /\ ("agent" = "agent" => previous # "none")
    <3>1. RollbackLands'
      BY <1>10, <2>1, <2>2 DEF RollbackLands, Reaching, HasReached
    <3>2. QED  BY <1>13, <2>1, <2>2, <3>1
  <2>3. CASE Agent!Ends(s, Agent!Failed(FALSE))
    BY <1>24, <2>1, <2>3
  <2>4. QED  BY <2>1, <2>2, <2>3 DEF ScriptSteps
<1>26. CASE Agent!SetFailedAside(s)
  <2> USE <1>26 DEF Agent!SetFailedAside
  <2>1. op.at = "rollback" /\ running = "down" /\ CanReturn
    BY DEF HostInv, HostClaims, RollbackLands, Upgrading, Reaching, HasReached, CanReturn
  <2>2. goes("back") /\ active' = "none" /\ CanReturn' /\ running' = "down"
    BY <2>1 DEF ScriptSteps, CanReturn
  <2>3. RollbackLands'
    BY <1>10, <2>1, <2>2 DEF RollbackLands, Reaching, HasReached
  <2>4. QED  BY <1>13, <2>1, <2>2, <2>3
<1>27. CASE Agent!PutPreviousBack(s)
  <2> USE <1>27 DEF Agent!PutPreviousBack, Agent!Returns
  <2>1. op.at = "rollback" /\ running = "down" /\ active = "none" /\ CanReturn
    BY DEF HostInv, HostClaims, RollbackLands, Upgrading, Reaching, HasReached
  <2>2. goes("again") /\ active' \in op.found /\ running' = "down"
    BY <2>1 DEF ScriptSteps, CanReturn
  <2>3. RollbackLands'
    BY <1>10, <2>1, <2>2 DEF RollbackLands, Reaching, HasReached
  <2>4. QED  BY <1>13, <2>1, <2>2, <2>3
<1>28. CASE Agent!StartPrevious(s)
  <2> USE <1>28 DEF Agent!StartPrevious
  <2>1. op.at = "rollback" /\ running = "down" /\ active \in op.found /\ s.do # "finish"
    BY DEF HostInv, HostClaims, RollbackLands, Upgrading, Reaching, HasReached
  <2>2. CASE Agent!Ends(s, Agent!Succeeded) /\ running' = active
    <3>1. op'.at = "end" /\ scripts' = {} /\ ScriptIsAwaited' /\ op'.found = op.found
      BY <1>8, <2>1, <2>2
    <3>2. RollbackLands' /\ TrialCanEnd' /\ EndIsSound'
      BY <2>1, <2>2, <3>1 DEF RollbackLands, TrialCanEnd, EndIsSound, Upgrading
    <3>3. QED  BY <1>14, <3>1, <3>2
  <2>3. CASE Agent!Ends(s, Agent!Failed(FALSE))
    BY <1>24, <2>1, <2>3
  <2>4. ASSUME NEW lost \in BOOLEAN, Agent!Ends(s, Agent!Failed(lost))
        PROVE  HostClaims'
    <3>1. op'.at = "end" /\ op'.ok = FALSE /\ scripts' = {} /\ ScriptIsAwaited'
      BY <1>9, <2>1, <2>4
    <3>2. RollbackLands' /\ TrialCanEnd' /\ EndIsSound'
      BY <3>1 DEF RollbackLands, TrialCanEnd, EndIsSound, Upgrading
    <3>3. QED  BY <1>14, <3>1, <3>2
  <2>5. \/ Agent!Ends(s, Agent!Succeeded) /\ running' = active
        \/ Agent!Ends(s, Agent!Failed(FALSE)) \/ Agent!Ends(s, Agent!Failed(s.do = "finish"))
    BY <2>1
  <2>6. (s.do = "finish") \in BOOLEAN
    OBVIOUS
  <2>7. QED  BY <2>2, <2>3, <2>4, <2>5, <2>6
<1>29. CASE Agent!RemoveFiles(s)
  <2> USE <1>29 DEF Agent!RemoveFiles
  <2>1. UNCHANGED <<active, running>> /\ op.at \in {"clean", "finish"}
    OBVIOUS
  <2>2. op.at = "finish" => active = op.target /\ running = active /\ CanReturn
                            /\ op.target \in proven
    BY DEF HostInv, HostClaims, TrialCanEnd, Upgrading
  <2>3. CASE Agent!Ends(s, Agent!Succeeded)
    <3>1. /\ op'.at = "end" /\ scripts' = {} /\ ScriptIsAwaited'
          /\ op'.ok = TRUE => op.at \in {"finish", "rollback"}
      BY <1>8, <2>1, <2>3
    <3>2. RollbackLands' /\ TrialCanEnd' /\ EndIsSound'
      BY <1>2, <2>1, <2>2, <3>1 DEF RollbackLands, TrialCanEnd, EndIsSound, Upgrading
    <3>3. QED  BY <1>14, <3>1, <3>2
  <2>4. ASSUME NEW lost \in BOOLEAN, Agent!Ends(s, Agent!Failed(lost)),
               \/ lost <=> op.at = "finish"
               \/ previous' = previous
        PROVE  HostClaims'
    <3>1. /\ op'.at \in {"rollback", "end"} /\ op'.ok = FALSE /\ op'.found = op.found
          /\ op.at # "finish" => op'.at = "end"
          /\ ~("agent" = "restic" /\ op'.at = "rollback" /\ lost)
          /\ scripts' = {} /\ ScriptIsAwaited'
      BY <1>9, <2>1, <2>4
    <3>2. TrialCanEnd' /\ EndIsSound'
      BY <3>1 DEF TrialCanEnd, EndIsSound, Upgrading
    <3>3. op'.at = "rollback" => previous' \in op.found \/ ("agent" = "agent" /\ previous' = "none")
      BY <2>1, <2>2, <2>4, <3>1 DEF CanReturn, HostInv
    <3>4. RollbackLands'
      BY <3>1, <3>3 DEF RollbackLands, Upgrading, HasReached
    <3>5. QED  BY <1>14, <3>1, <3>2, <3>4
  <2>5. \/ Agent!Ends(s, Agent!Succeeded)
        \/ Agent!Ends(s, Agent!Failed(s.do = "finish"))
        \/ Agent!Ends(s, Agent!Failed(FALSE)) /\ previous' = previous
    OBVIOUS
  <2>6. CASE Agent!Ends(s, Agent!Failed(s.do = "finish"))
    <3> DEFINE lost == s.do = "finish"
    <3>1. lost \in BOOLEAN /\ Agent!Ends(s, Agent!Failed(lost)) /\ (lost <=> op.at = "finish")
      BY <2>6
    <3> HIDE DEF lost
    <3>2. QED  BY <2>4, <3>1
  <2>7. CASE Agent!Ends(s, Agent!Failed(FALSE)) /\ previous' = previous
    BY <2>4, <2>7
  <2>8. QED  BY <2>3, <2>5, <2>6, <2>7
<1>30. s.do # "restart" /\ s.do # "start" /\ s.do # "prepare" /\ s.do # "cleanup"
       /\ s.do # "stop" /\ s.do # "remove"
  BY <1>7
<1>31. ~Agent!RestartAgent(s) /\ ~Agent!StopOrRemove(s)
  BY <1>30 DEF Agent!RestartAgent, Agent!StopOrRemove
<1>32. QED  BY <1>1, <1>17, <1>18, <1>19, <1>20, <1>21, <1>22, <1>23, <1>25, <1>26, <1>27,
                <1>28, <1>29, <1>31 DEF AgentStepOf

LEMMA AgentHostStep ==
  ASSUME HostInv, tool = "agent", tool' = tool, Agent!Next
  PROVE  HostInv'
<1>1. CASE Agent!Heartbeat \/ Agent!Enroll \/ Agent!Claim \/ Agent!Complete \/ Agent!RevokeAgent
  BY <1>1, AgentUsersAct
<1>2. CASE Agent!StartUpgrade \/ Agent!StartProbe \/ Agent!StartDeploy \/ Agent!StartUninstall
  BY <1>2, AgentBegins
<1>3. CASE Agent!BeginAgentDrain \/ Agent!WaitForDrain \/ Agent!Stage \/ Agent!WaitForVersionHeartbeat
  BY <1>3, AgentUpgradeMoves
<1>4. CASE Agent!Send \/ Agent!GiveUp
  BY <1>4, AgentSends
<1>5. CASE Agent!ScriptStep
  <2>1. HostShape'
    BY <1>5, AgentScriptShape DEF HostInv
  <2>2. CASE Going'
    BY <1>5, <2>1, <2>2, AgentScriptClaims DEF HostInv
  <2>3. CASE ~Going'
    BY <2>1, <2>3, NothingClaimed DEF HostInv
  <2>4. QED  BY <2>2, <2>3
<1>6. CASE \/ Agent!Upload \/ Agent!BindManagedAgent \/ Agent!FinishDeploy
           \/ Agent!CompleteAgentUninstall \/ Agent!Crash \/ Agent!EndAgentDrain
  BY <1>6, AgentOthersGoOn
<1>7. QED  BY <1>1, <1>2, <1>3, <1>4, <1>5, <1>6 DEF Agent!Next

(* An operation keeps its kind until it is over.                           *)
LEMMA AgentKeepsKind ==
  ASSUME HostInv, tool = "agent", tool' = tool, Agent!Next, op.kind = "upgrade", op'.at = "end"
  PROVE  op'.kind = "upgrade"
<1> USE DEF HostInv, HostShape, HostTyped, OperationTyped
<1>1. \/ op' = Agent!NoOp \/ op' = op
      \/ \E at \in HostPlaces : op' = [op EXCEPT !.at = at]
      \/ \E at, ok, cut : Agent!GoOn(at, ok, cut)
  <2>1. CASE Agent!Heartbeat \/ Agent!Enroll \/ Agent!Claim \/ Agent!Complete \/ Agent!RevokeAgent
    BY <2>1 DEF Agent!Heartbeat, Agent!Enroll, Agent!Claim, Agent!Complete, Agent!RevokeAgent
  <2>2. CASE Agent!StartUpgrade \/ Agent!StartProbe \/ Agent!StartDeploy \/ Agent!StartUninstall
    BY <2>2 DEF Agent!StartUpgrade, Agent!StartProbe, Agent!StartDeploy, Agent!StartUninstall, Agent!Begin, Agent!NoOp,
       Agent!None
  <2>3. CASE Agent!BeginAgentDrain \/ Agent!WaitForDrain \/ Agent!Stage \/ Agent!WaitForVersionHeartbeat
    BY <2>3 DEF Agent!BeginAgentDrain, Agent!WaitForDrain, Agent!Stage, Agent!WaitForVersionHeartbeat, Agent!Go,
       Agent!On, HostPlaces, HostCommands
  <2>4. CASE Agent!Send \/ Agent!GiveUp
    BY <2>4 DEF Agent!Send, Agent!GiveUp, Agent!Failed
  <2>5. CASE Agent!ScriptStep
    <3>1. PICK s \in scripts : AgentStepOf(s)
      BY <2>5 DEF Agent!ScriptStep, AgentStepOf
    <3>2. AgentOutcome(s)
      BY <3>1, AgentScriptMoves
    <3>3. QED  BY <3>2 DEF AgentOutcome, Agent!Succeeded, Agent!Failed
  <2>6. CASE \/ Agent!Upload \/ Agent!BindManagedAgent \/ Agent!FinishDeploy
             \/ Agent!CompleteAgentUninstall \/ Agent!Crash \/ Agent!EndAgentDrain
    BY <2>6 DEF Agent!Upload, Agent!BindManagedAgent, Agent!FinishDeploy, Agent!CompleteAgentUninstall, Agent!Crash,
       Agent!EndAgentDrain, Agent!Step, Agent!On, Agent!Go, HostPlaces, HostCommands
  <2>7. QED  BY <2>1, <2>2, <2>3, <2>4, <2>5, <2>6 DEF Agent!Next
<1>2. ASSUME NEW at, NEW ok, NEW cut, Agent!GoOn(at, ok, cut)
      PROVE  op'.kind = "upgrade"
  <2>1. CASE at = "idle"
    BY <1>2, <2>1 DEF Agent!GoOn, Agent!NoOp
  <2>2. CASE at # "idle"
    BY <1>2, <2>2 DEF Agent!GoOn
  <2>3. QED  BY <2>1, <2>2
<1>3. QED  BY <1>1, <1>2 DEF Agent!NoOp

LEMMA ResticFailure ==
  ASSUME HostShape, op.at \in HostCommands, NEW at \in Restic!AfterFailed(op.at),
         NEW cut \in BOOLEAN, Restic!GoOn(at, FALSE, cut)
  PROVE  /\ OperationTyped' /\ OkAtEnd' /\ UpgradePlaces'
         /\ op.kind = "upgrade" =>
              /\ op'.at = at /\ op'.ok = FALSE /\ op'.kind = "upgrade"
              /\ op'.target = op.target /\ op'.found = op.found
              /\ op'.cut = FALSE => op.cut = FALSE /\ cut = FALSE
<1> USE DEF HostShape, HostTyped
<1>1. at \in {"rollback", "end", "cleanup", "idle"}
  BY DEF Restic!AfterFailed, HostCommands
<1>2. op.kind = "upgrade" => at \in {"rollback", "end"}
  BY DEF Restic!AfterFailed, UpgradePlaces, HostCommands
<1>3. CASE at = "idle"
  BY <1>2, <1>3, NoOperation DEF Restic!GoOn, Restic!NoOp, Restic!None
<1>4. CASE at # "idle"
  <2>1. at \in HostPlaces
    BY <1>1 DEF HostPlaces, HostCommands
  <2>2. op' = [op EXCEPT !.at = at, !.ok = FALSE, !.cut = @ \/ cut]
    BY <1>4 DEF Restic!GoOn
  <2>3. QED  BY <1>2, <2>1, <2>2, OperationGoesOn DEF OkAtEnd, UpgradePlaces
<1>5. QED  BY <1>3, <1>4

LEMMA ResticSuccess ==
  ASSUME HostShape, op.at \in HostCommands, Restic!Succeeded
  PROVE  /\ OperationTyped' /\ OkAtEnd' /\ UpgradePlaces'
         /\ op.kind = "upgrade" =>
              /\ op'.at = IF op.at = "activate" THEN "await" ELSE "end"
              /\ op'.kind = "upgrade" /\ op'.target = op.target /\ op'.found = op.found
              /\ op'.ok = TRUE => op.at \in {"finish", "rollback"}
              /\ op'.cut = FALSE => op.cut = FALSE
<1> USE DEF HostShape, HostTyped
<1> DEFINE at == Restic!AfterDone[op.at]
           ok == op.at \in {"finish", "rollback"}
<1>1. at \in HostPlaces /\ (ok => at = "end")
  BY DEF Restic!AfterDone, HostCommands, HostPlaces
<1>2. op.kind = "upgrade" => at = IF op.at = "activate" THEN "await" ELSE "end"
  BY DEF Restic!AfterDone, UpgradePlaces, HostCommands
<1>3. Restic!GoOn(at, ok, FALSE)
  BY DEF Restic!Succeeded
<1>4. ok \in BOOLEAN
  OBVIOUS
<1>5. ok = TRUE => op.at \in {"finish", "rollback"}
  OBVIOUS
<1> HIDE DEF at, ok
<1>6. CASE at = "idle"
  BY <1>2, <1>3, <1>6, NoOperation DEF Restic!GoOn, Restic!NoOp, Restic!None
<1>7. CASE at # "idle"
  <2>1. op' = [op EXCEPT !.at = at, !.ok = ok, !.cut = @ \/ FALSE]
    BY <1>3, <1>7 DEF Restic!GoOn
  <2>2. QED  BY <1>1, <1>2, <1>4, <1>5, <2>1, OperationGoesOn DEF OkAtEnd, UpgradePlaces
<1>8. QED  BY <1>6, <1>7

LEMMA ResticFails ==
  ASSUME HostShape, op.at \in HostCommands, NEW lost \in BOOLEAN, Restic!Failed(lost)
  PROVE  /\ OperationTyped' /\ OkAtEnd' /\ UpgradePlaces'
         /\ op.kind = "upgrade" =>
              /\ op'.at \in Restic!AfterFailed(op.at) /\ op'.ok = FALSE /\ op'.kind = "upgrade"
              /\ op'.target = op.target /\ op'.found = op.found
              /\ op'.cut = FALSE =>
                   op.cut = FALSE /\ ~("restic" = "restic" /\ op'.at = "rollback" /\ lost)
<1>1. PICK at \in Restic!AfterFailed(op.at) :
        Restic!GoOn(at, FALSE, "restic" = "restic" /\ at = "rollback" /\ lost)
  BY DEF Restic!Failed
<1> DEFINE cut == "restic" = "restic" /\ at = "rollback" /\ lost
<1>2. Restic!GoOn(at, FALSE, cut) /\ cut \in BOOLEAN /\ (cut = FALSE => ~cut)
  BY <1>1
<1>3. at = "rollback" /\ "restic" = "restic" /\ lost => cut
  OBVIOUS
<1> HIDE DEF cut
<1>4. QED  BY <1>2, <1>3, ResticFailure

(* The outcomes of a step of a script: it goes on, it ends unnoticed, or   *)
(* the operation that waits for it goes on.                                *)
ResticOutcome(s) ==
  \/ op' = op
  \/ Restic!Awaited(s) /\ (Restic!Succeeded \/ \E lost \in BOOLEAN : Restic!Failed(lost))

ResticStepOf(s) ==
  \/ Restic!BeginActivation(s) \/ Restic!ParkActive(s) \/ Restic!PutStaged(s) \/ Restic!RestartActivated(s)
  \/ Restic!SetAside(s) \/ Restic!PutBack(s) \/ Restic!RestartFormer(s)
  \/ Restic!BeginRollback(s) \/ Restic!SetFailedAside(s) \/ Restic!PutPreviousBack(s) \/ Restic!StartPrevious(s)
  \/ Restic!RemoveFiles(s) \/ Restic!RestartAgent(s) \/ Restic!StopOrRemove(s)

LEMMA ResticScriptMoves ==
  ASSUME HostShape, tool = "restic", tool' = tool, NEW s \in scripts, ResticStepOf(s)
  PROVE  /\ ToolFilesTyped' /\ ResticOutcome(s)
         /\ agent' = agent /\ proven' = proven /\ ops' = ops
         /\ \/ scripts' = scripts \ {s}
            \/ \E at \in ScriptSteps :
                 scripts' = (scripts \ {s}) \cup {[s EXCEPT !.at = at]}
<1> USE DEF HostShape, HostTyped, ToolFilesTyped, ToolFiles, ScriptSteps, ResticOutcome,
      Restic!Around, Restic!files, Restic!Proceeds, Restic!Calm, Restic!Trouble, Restic!Ends, Restic!Done, Restic!Fails, Restic!Breaks,
      Restic!DoesNotStart, Restic!None, Restic!Down
<1>1. CASE Restic!BeginActivation(s)
  BY <1>1 DEF Restic!BeginActivation
<1>2. CASE Restic!ParkActive(s)
  BY <1>2 DEF Restic!ParkActive
<1>3. CASE Restic!PutStaged(s)
  BY <1>3 DEF Restic!PutStaged
<1>4. CASE Restic!RestartActivated(s)
  BY <1>4 DEF Restic!RestartActivated
<1>5. CASE Restic!SetAside(s)
  BY <1>5 DEF Restic!SetAside
<1>6. CASE Restic!PutBack(s)
  BY <1>6 DEF Restic!PutBack
<1>7. CASE Restic!RestartFormer(s)
  BY <1>7 DEF Restic!RestartFormer
<1>8. CASE Restic!BeginRollback(s)
  BY <1>8 DEF Restic!BeginRollback
<1>9. CASE Restic!SetFailedAside(s)
  BY <1>9 DEF Restic!SetFailedAside
<1>10. CASE Restic!PutPreviousBack(s)
  BY <1>10 DEF Restic!PutPreviousBack, Restic!Returns
<1>11. CASE Restic!StartPrevious(s)
  BY <1>11 DEF Restic!StartPrevious
<1>12. CASE Restic!RemoveFiles(s)
  BY <1>12 DEF Restic!RemoveFiles
<1>13. CASE Restic!RestartAgent(s)
  BY <1>13 DEF Restic!RestartAgent
<1>14. CASE Restic!StopOrRemove(s)
  BY <1>14 DEF Restic!StopOrRemove
<1>15. QED  BY <1>1, <1>2, <1>3, <1>4, <1>5, <1>6, <1>7, <1>8, <1>9, <1>10, <1>11,
               <1>12, <1>13, <1>14 DEF ResticStepOf

LEMMA ResticScriptShape ==
  ASSUME HostShape, tool = "restic", tool' = tool, Restic!ScriptStep
  PROVE  HostShape'
<1>1. PICK s \in scripts : ResticStepOf(s)
  BY DEF Restic!ScriptStep, ResticStepOf
<1>2. /\ ToolFilesTyped' /\ ResticOutcome(s)
      /\ agent' = agent /\ proven' = proven /\ ops' = ops
      /\ \/ scripts' = scripts \ {s}
         \/ \E at \in ScriptSteps : scripts' = (scripts \ {s}) \cup {[s EXCEPT !.at = at]}
  BY <1>1, ResticScriptMoves
<1>3. AgentTyped' /\ ScriptsTyped'
  BY <1>2 DEF HostShape, HostTyped, AgentTyped, ScriptsTyped
<1>4. OperationTyped' /\ OkAtEnd' /\ UpgradePlaces'
  <2>1. CASE op' = op
    BY <2>1 DEF HostShape, HostTyped, OperationTyped, OkAtEnd, UpgradePlaces
  <2>2. CASE Restic!Awaited(s)
    <3>1. op.at \in HostCommands
      BY <2>2 DEF Restic!Awaited, HostShape, HostTyped, ScriptsTyped
    <3>2. QED  BY <1>2, <2>1, <3>1, ResticSuccess, ResticFails DEF ResticOutcome
  <2>3. QED  BY <1>2, <2>1, <2>2 DEF ResticOutcome
<1>5. QED  BY <1>2, <1>3, <1>4 DEF HostShape, HostTyped

LEMMA ResticSendShape ==
  ASSUME HostShape, tool = "restic", Restic!Send \/ Restic!GiveUp
  PROVE  HostShape'
<1> USE DEF HostShape, HostTyped
<1>1. CASE Restic!Send
  <2> USE <1>1 DEF Restic!Send
  <2>1. op.at \in HostCommands
    BY DEF Restic!Commands, HostCommands
  <2>2. ToolFilesTyped' /\ AgentTyped'
    BY DEF Restic!host, Restic!files, ToolFilesTyped, AgentTyped
  <2>3. ScriptsTyped'
    BY <2>1 DEF ScriptsTyped, Restic!Script, ScriptSteps
  <2>4. (op.at = "activate") \in BOOLEAN
    OBVIOUS
  <2>5. CASE op' = op
    BY <2>2, <2>3, <2>5 DEF OperationTyped, OkAtEnd, UpgradePlaces
  <2>6. CASE Restic!Failed(op.at = "activate")
    <3> DEFINE lost == op.at = "activate"
    <3>1. lost \in BOOLEAN /\ Restic!Failed(lost)
      BY <2>6
    <3> HIDE DEF lost
    <3>2. QED  BY <2>1, <2>2, <2>3, <3>1, ResticFails
  <2>7. QED  BY <2>5, <2>6
<1>2. CASE Restic!GiveUp
  <2> USE <1>2 DEF Restic!GiveUp
  <2>1. op.at \in HostCommands
    BY DEF Restic!Awaited, ScriptsTyped
  <2>2. ToolFilesTyped' /\ AgentTyped' /\ ScriptsTyped'
    BY DEF Restic!host, Restic!files, ToolFilesTyped, AgentTyped, ScriptsTyped
  <2>3. PICK at \in Restic!AfterFailed(op.at) : Restic!GoOn(at, FALSE, TRUE)
    OBVIOUS
  <2>4. QED  BY <2>1, <2>2, <2>3, ResticFailure
<1>3. QED  BY <1>1, <1>2

(* What the Agent and its users do.                                        *)
LEMMA ResticUsersAct ==
  ASSUME HostInv, tool = "restic", tool' = tool,
         Restic!Heartbeat \/ Restic!Enroll \/ Restic!Claim \/ Restic!Complete \/ Restic!RevokeAgent
  PROVE  HostInv'
<1> USE DEF Restic!host, Restic!files
<1>1. AgentTyped' /\ proven \subseteq proven'
  <2> USE DEF HostInv, HostShape, HostTyped, AgentTyped, Restic!None
  <2>1. CASE Restic!Heartbeat
    BY <2>1 DEF Restic!Heartbeat
  <2>2. CASE Restic!Enroll
    BY <2>2 DEF Restic!Enroll, Restic!Row
  <2>3. CASE Restic!Claim \/ Restic!Complete \/ Restic!RevokeAgent
    BY <2>3 DEF Restic!Claim, Restic!Complete, Restic!RevokeAgent
  <2>4. QED  BY <2>1, <2>2, <2>3
<1>2. UNCHANGED <<active, previous, staged, running, op, scripts, ops>>
  BY DEF Restic!Heartbeat, Restic!Enroll, Restic!Claim, Restic!Complete, Restic!RevokeAgent
<1>3. QED  BY <1>1, <1>2, HostUntouched

(* An operation begins; a script that is left makes it one that promises   *)
(* nothing.                                                                *)
LEMMA ResticBegins ==
  ASSUME HostInv, tool = "restic", tool' = tool,
         Restic!StartUpgrade \/ Restic!StartProbe \/ Restic!StartDeploy \/ Restic!StartUninstall
  PROVE  HostInv'
<1> USE DEF Restic!host, Restic!files, Restic!None, Restic!NoOp
<1>1. PICK kind \in {"upgrade", "probe", "deploy", "uninstall"}, target \in ToolFiles :
        Restic!Begin(kind, target) /\ (kind = "upgrade" => target \in Versions)
  BY DEF Restic!StartUpgrade, Restic!StartProbe, Restic!StartDeploy, Restic!StartUninstall, ToolFiles
<1>2. UNCHANGED <<active, previous, staged, agent, running, proven>>
  BY DEF Restic!StartUpgrade, Restic!StartProbe, Restic!StartDeploy, Restic!StartUninstall
<1>3. /\ scripts' = scripts /\ ops' = ops + 1
      /\ op' = [kind |-> kind, at |-> "begin", target |-> target,
                found |-> {active} \cup ({previous} \ {"none"}), cut |-> scripts # {},
                ok |-> FALSE]
  BY <1>1 DEF Restic!Begin
<1>4. HostShape'
  <2>1. ToolFilesTyped' /\ AgentTyped' /\ ScriptsTyped'
    BY <1>2, <1>3 DEF HostInv, HostShape, HostTyped, ToolFilesTyped, AgentTyped, ScriptsTyped
  <2>2. {active} \cup ({previous} \ {"none"}) \in SUBSET ToolFiles
    BY DEF HostInv, HostShape, HostTyped, ToolFilesTyped
  <2> DEFINE cut == scripts # {}
  <2>3. cut \in BOOLEAN /\ op' = [kind |-> kind, at |-> "begin", target |-> target,
                found |-> {active} \cup ({previous} \ {"none"}), cut |-> cut, ok |-> FALSE]
    BY <1>3
  <2> HIDE DEF cut
  <2>4. OperationTyped' /\ OkAtEnd' /\ UpgradePlaces'
    BY <1>1, <2>2, <2>3 DEF OperationTyped, OkAtEnd, UpgradePlaces, HostPlaces
  <2>5. QED  BY <2>1, <2>4 DEF HostShape, HostTyped
<1>5. CASE ~Going'
  BY <1>4, <1>5, NothingClaimed DEF HostInv
<1>6. CASE Going'
  <2>1. scripts' = {} /\ op'.at = "begin"
        /\ active \in op'.found /\ previous \in op'.found \cup {"none"}
    BY <1>3, <1>6 DEF Going
  <2>2. HostClaims'
    BY <1>2, <2>1 DEF HostClaims, ScriptIsAwaited, FoundStays, ActivationFits, TrialCanEnd,
       RollbackLands, EndIsSound, Upgrading, Going
  <2>3. QED  BY <1>4, <2>2 DEF HostInv
<1>7. QED  BY <1>5, <1>6

(* Deployment, removal, probes, and a crash.                               *)
LEMMA ResticOthersGoOn ==
  ASSUME HostInv, tool = "restic", tool' = tool,
         \/ Restic!Upload \/ Restic!BindManagedAgent \/ Restic!FinishDeploy
         \/ Restic!CompleteAgentUninstall \/ Restic!Crash \/ Restic!EndAgentDrain
  PROVE  HostInv'
<1> USE DEF Restic!host, Restic!files, HostInv, HostShape, HostTyped
<1>1. ToolFilesTyped' /\ AgentTyped' /\ ScriptsTyped'
  <2>1. ToolFilesTyped'
    BY DEF Restic!Upload, Restic!BindManagedAgent, Restic!FinishDeploy, Restic!CompleteAgentUninstall,
       Restic!Crash, Restic!EndAgentDrain, Restic!On, ToolFilesTyped, OperationTyped
  <2>2. UNCHANGED <<proven, scripts, ops>>
        /\ \/ agent' = agent
           \/ agent' = [agent EXCEPT !.managed = TRUE]
           \/ agent' = [agent EXCEPT !.status = "revoked"]
           \/ agent' = [agent EXCEPT !.draining = FALSE]
    BY DEF Restic!Upload, Restic!BindManagedAgent, Restic!FinishDeploy, Restic!CompleteAgentUninstall,
       Restic!Crash, Restic!EndAgentDrain
  <2>3. AgentTyped'
    BY <2>2 DEF AgentTyped
  <2>4. ScriptsTyped'
    BY <2>2 DEF ScriptsTyped
  <2>5. QED  BY <2>1, <2>3, <2>4
<1>2. \/ op' = Restic!NoOp
      \/ /\ op.kind \in {"deploy", "uninstall"} /\ op.ok = FALSE
         /\ \E at \in HostPlaces : op' = [op EXCEPT !.at = at]
  BY DEF Restic!Upload, Restic!BindManagedAgent, Restic!FinishDeploy, Restic!CompleteAgentUninstall, Restic!Crash,
     Restic!EndAgentDrain, Restic!Step, Restic!On, Restic!Go, Restic!Trouble, Restic!Calm, HostPlaces, HostCommands,
     OkAtEnd, OperationTyped
<1>3. OperationTyped' /\ OkAtEnd' /\ UpgradePlaces' /\ ~Going'
  <2>1. CASE op' = Restic!NoOp
    BY <2>1, NoOperation DEF Restic!NoOp, Restic!None
  <2>2. CASE op' # Restic!NoOp
    BY <1>2, <2>2, OperationMoves DEF OkAtEnd, UpgradePlaces, Going
  <2>3. QED  BY <2>1, <2>2
<1>4. QED  BY <1>1, <1>3, NothingClaimed DEF HostInv

(* An upgrade drains the Agent, stages the file and waits for the new      *)
(* version; no script runs meanwhile.                                      *)
LEMMA ResticUpgradeMoves ==
  ASSUME HostInv, tool = "restic", tool' = tool,
         Restic!BeginAgentDrain \/ Restic!WaitForDrain \/ Restic!Stage \/ Restic!WaitForVersionHeartbeat
  PROVE  HostInv'
<1> USE DEF Restic!host, Restic!files, Restic!Draining
<1>1. UNCHANGED <<active, previous, running, proven, scripts, ops>>
  BY DEF Restic!BeginAgentDrain, Restic!WaitForDrain, Restic!Stage, Restic!WaitForVersionHeartbeat
<1>2. PICK at \in HostPlaces :
        /\ op' = [op EXCEPT !.at = at]
        /\ op.kind \in {"upgrade", "probe", "uninstall"} /\ op.at \notin HostCommands \cup {"end"}
        /\ op.kind = "upgrade" =>
             \/ at \in {"drain", "stage", "clean", "end"} /\ op.at \in {"begin", "drain", "stage"}
             \/ at = "activate" /\ op.at = "stage" /\ staged' = op.target
             \/ at = "finish" /\ op.at = "await" /\ agent.version = op.target
             \/ at = "rollback" /\ op.at = "await"
  <2> USE DEF HostPlaces, HostCommands, Restic!On, Restic!Go
  <2>1. CASE Restic!BeginAgentDrain
    BY <2>1 DEF Restic!BeginAgentDrain
  <2>2. CASE Restic!WaitForDrain
    BY <2>2 DEF Restic!WaitForDrain
  <2>3. CASE Restic!Stage
    BY <2>3 DEF Restic!Stage
  <2>4. CASE Restic!WaitForVersionHeartbeat
    BY <2>4 DEF Restic!WaitForVersionHeartbeat, Restic!Verified
  <2>5. QED  BY <2>1, <2>2, <2>3, <2>4
<1>3. /\ op'.at = at /\ op'.ok = op.ok /\ op'.kind = op.kind /\ OperationTyped'
      /\ op'.target = op.target /\ op'.found = op.found /\ op'.cut = op.cut
  BY <1>2, OperationMoves DEF HostInv, HostShape, HostTyped
<1>4. HostShape'
  <2> USE DEF HostInv, HostShape, HostTyped
  <2>1. ToolFilesTyped'
    BY <1>1 DEF Restic!BeginAgentDrain, Restic!WaitForDrain, Restic!Stage, Restic!WaitForVersionHeartbeat,
       ToolFilesTyped, ToolFiles
  <2>2. AgentTyped'
    BY <1>1 DEF Restic!BeginAgentDrain, Restic!WaitForDrain, Restic!Stage, Restic!WaitForVersionHeartbeat, AgentTyped
  <2>3. ScriptsTyped'
    BY <1>1 DEF ScriptsTyped
  <2>4. OkAtEnd' /\ UpgradePlaces'
    BY <1>2, <1>3 DEF OkAtEnd, UpgradePlaces
  <2>5. QED  BY <1>3, <2>1, <2>2, <2>3, <2>4
<1>5. CASE ~Going'
  BY <1>4, <1>5, NothingClaimed DEF HostInv
<1>6. CASE Going'
  <2>1. Going /\ scripts = {}
    BY <1>2, <1>3, <1>6, NoScript DEF Going, HostInv, HostShape, HostTyped, HostClaims
  <2>2. ScriptIsAwaited'
    BY <1>1, <2>1 DEF ScriptIsAwaited
  <2>3. FoundStays' /\ ActivationFits'
    BY <1>1, <1>2, <1>3, <2>1 DEF HostInv, HostClaims, FoundStays, ActivationFits, Upgrading,
       Going, Reaching, HasReached
  <2>4. op'.at = "finish" => op.target \in proven
    BY <1>2, <1>3, <2>1, VersionsAssumption DEF HostInv, HostShape, HostTyped, AgentTyped,
       UpgradePlaces, Going, Agent!None
  <2>5. TrialCanEnd' /\ RollbackLands'
    BY <1>1, <1>2, <1>3, <2>1, <2>4 DEF HostInv, HostClaims, TrialCanEnd, RollbackLands,
       Upgrading, Going, Reaching, HasReached, CanReturn
  <2>6. EndIsSound'
    BY <1>2, <1>3, <2>1 DEF HostInv, HostShape, OkAtEnd, EndIsSound, Upgrading
  <2>7. QED  BY <1>4, <2>2, <2>3, <2>5, <2>6 DEF HostInv, HostClaims
<1>7. QED  BY <1>5, <1>6

(* A command is given, or given up.                                        *)
LEMMA ResticSends ==
  ASSUME HostInv, tool = "restic", tool' = tool, Restic!Send \/ Restic!GiveUp
  PROVE  HostInv'
<1>1. HostShape'
  BY ResticSendShape DEF HostInv
<1>2. CASE ~Going'
  BY <1>1, <1>2, NothingClaimed DEF HostInv
<1>3. CASE Going' /\ Restic!GiveUp
  <2>1. PICK at \in Restic!AfterFailed(op.at) : Restic!GoOn(at, FALSE, TRUE)
    BY <1>3 DEF Restic!GiveUp
  <2>2. op.at \in HostCommands
    BY <1>3 DEF Restic!GiveUp, Restic!Awaited, HostInv, HostShape, HostTyped, ScriptsTyped
  <2>3. op.kind = "upgrade"
    <3>1. op'.kind = op.kind \/ op' = Restic!NoOp
      BY <2>1 DEF Restic!GoOn, HostInv, HostShape, HostTyped, OperationTyped
    <3>2. QED  BY <1>3, <3>1 DEF Going, Restic!NoOp, Restic!None
  <2>4. op'.cut # FALSE
    BY <2>1, <2>2, <2>3, ResticFailure DEF HostInv
  <2>5. QED  BY <1>3, <2>4 DEF Going
<1>4. CASE Going' /\ Restic!Send
  <2> USE <1>4 DEF Restic!Send, Restic!host, Restic!files
  <2>1. op.at \in HostCommands
    BY DEF Restic!Commands, HostCommands
  <2>2. CASE op' = op /\ scripts' = scripts \cup {Restic!Script(op.at)}
    <3>1. Going
      BY <2>2 DEF Going
    <3>2. scripts = {}
      BY <3>1 DEF Restic!Awaited, HostInv, HostClaims, ScriptIsAwaited
    <3>3. PICK s \in scripts' : scripts' = {s} /\ s.op = ops /\ s.do = op.at /\ s.at = "begin"
      BY <2>2, <3>2 DEF Restic!Script
    <3>4. QED
      BY <1>1, <2>2, <3>1, <3>2, <3>3 DEF HostInv, HostClaims, ScriptIsAwaited, FoundStays,
         ActivationFits, TrialCanEnd, RollbackLands, EndIsSound, Upgrading, Going, Reaching,
         HasReached, CanReturn
  <2>3. CASE scripts' = scripts /\ Restic!Failed(op.at = "activate")
    <3> DEFINE lost == op.at = "activate"
    <3>1. lost \in BOOLEAN /\ Restic!Failed(lost) /\ (lost <=> op.at = "activate")
      BY <2>3
    <3> HIDE DEF lost
    <3>2. op.kind = "upgrade"
      <4>1. op'.kind = op.kind \/ op' = Restic!NoOp
        BY <3>1 DEF Restic!Failed, Restic!GoOn, HostInv, HostShape, HostTyped, OperationTyped
      <4>2. QED  BY <1>4, <4>1 DEF Going, Restic!NoOp, Restic!None
    <3>3. /\ op'.at \in Restic!AfterFailed(op.at) /\ op'.ok = FALSE /\ op'.kind = "upgrade"
          /\ op'.target = op.target /\ op'.found = op.found
          /\ op.cut = FALSE
          /\ ~("restic" = "restic" /\ op'.at = "rollback" /\ op.at = "activate")
      BY <1>4, <2>1, <3>1, <3>2, ResticFails DEF HostInv, Going
    <3>4. scripts = {} /\ Going
      BY <3>2, <3>3 DEF Restic!Awaited, Going, HostInv, HostClaims, ScriptIsAwaited
    <3>5. op'.at = "end" \/ (op'.at = "rollback" /\ op.at \in {"activate", "finish"})
      BY <2>1, <3>2, <3>3 DEF Restic!AfterFailed, HostInv, HostShape, UpgradePlaces, HostCommands
    <3>6. RollbackLands'
      BY <2>3, <3>2, <3>3, <3>4, <3>5 DEF HostInv, HostClaims, FoundStays, TrialCanEnd,
         RollbackLands, Upgrading, Going, Reaching, HasReached, CanReturn
    <3>7. QED
      BY <1>1, <2>3, <3>3, <3>4, <3>5, <3>6 DEF HostInv, HostClaims, ScriptIsAwaited,
         FoundStays, ActivationFits, TrialCanEnd, EndIsSound, Upgrading
  <2>4. QED  BY <2>2, <2>3
<1>5. QED  BY <1>2, <1>3, <1>4

(* What the scripts of an upgrade that is not cut off leave.               *)
LEMMA ResticScriptClaims ==
  ASSUME HostInv, tool = "restic", tool' = tool, Restic!ScriptStep, Going'
  PROVE  HostClaims'
<1>1. PICK s \in scripts : ResticStepOf(s)
  BY DEF Restic!ScriptStep, ResticStepOf
<1>2. ResticOutcome(s) /\ proven' = proven /\ ops' = ops
  BY <1>1, ResticScriptMoves DEF HostInv
<1>3. op.kind = "upgrade"
  <2>1. op'.kind = op.kind \/ op' = Restic!NoOp
    BY <1>2 DEF ResticOutcome, Restic!Failed, Restic!Succeeded, Restic!GoOn, HostInv, HostShape, HostTyped,
       OperationTyped
  <2>2. QED  BY <2>1 DEF Going, Restic!NoOp, Restic!None
<1>4. Restic!Awaited(s) => op.at \in HostCommands
  BY DEF Restic!Awaited, HostInv, HostShape, HostTyped, ScriptsTyped
<1>5. Going
  <2>1. CASE op' = op
    BY <2>1 DEF Going
  <2>2. CASE op' # op
    BY <1>2, <1>3, <1>4, <2>2, ResticSuccess, ResticFails DEF ResticOutcome, HostInv, Going
  <2>3. QED  BY <2>1, <2>2
<1>6. scripts = {s} /\ s.op = ops /\ s.do = op.at
  BY <1>5, OneScript DEF HostInv, HostClaims
<1>7. op.at \in {"clean", "activate", "finish", "rollback"}
  BY <1>3, <1>4, <1>6 DEF Restic!Awaited, HostInv, HostShape, UpgradePlaces, HostCommands
<1>8. ASSUME Restic!Ends(s, Restic!Succeeded)
      PROVE  /\ op'.at = IF op.at = "activate" THEN "await" ELSE "end"
             /\ op'.target = op.target /\ op'.found = op.found
             /\ op'.ok = TRUE => op.at \in {"finish", "rollback"}
             /\ scripts' = {} /\ ScriptIsAwaited'
  BY <1>3, <1>4, <1>6, <1>8, ResticSuccess DEF Restic!Ends, Restic!Awaited, HostInv, ScriptIsAwaited
<1>9. ASSUME NEW lost \in BOOLEAN, Restic!Ends(s, Restic!Failed(lost))
      PROVE  /\ op.at # "finish" => op'.at = IF op.at = "activate" THEN "rollback" ELSE "end"
             /\ op'.at \in {"rollback", "end"} /\ op'.ok = FALSE
             /\ op'.target = op.target /\ op'.found = op.found
             /\ ~("restic" = "restic" /\ op'.at = "rollback" /\ lost)
             /\ scripts' = {} /\ ScriptIsAwaited'
  <2>1. /\ op'.at \in Restic!AfterFailed(op.at) /\ op'.ok = FALSE
        /\ op'.target = op.target /\ op'.found = op.found
        /\ ~("restic" = "restic" /\ op'.at = "rollback" /\ lost)
        /\ scripts' = {} /\ ScriptIsAwaited'
    BY <1>3, <1>4, <1>6, <1>9, ResticFails DEF Restic!Ends, Restic!Awaited, HostInv, ScriptIsAwaited, Going
  <2>2. QED  BY <1>7, <2>1 DEF Restic!AfterFailed
<1>10. ASSUME NEW at \in ScriptSteps, op' = op,
              scripts' = (scripts \ {s}) \cup {[s EXCEPT !.at = at]}
       PROVE  /\ ScriptIsAwaited'
              /\ \A t \in scripts' : t.at = at
              /\ \E t \in scripts' : t.at = at
  BY <1>2, <1>5, <1>10, ScriptGoesOn DEF HostInv, HostShape, HostTyped, HostClaims
<1>11. ASSUME ScriptIsAwaited', FoundStays', ActivationFits', TrialCanEnd', RollbackLands',
              EndIsSound'
       PROVE  HostClaims'
  BY <1>11 DEF HostClaims
<1> DEFINE goes(at) == /\ op' = op /\ at \in ScriptSteps
                       /\ scripts' = (scripts \ {s}) \cup {[s EXCEPT !.at = at]}
<1>12. ASSUME NEW at, goes(at), at # "begin", op.at = "activate", ActivationFits'
       PROVE  HostClaims'
  <2>1. ScriptIsAwaited' /\ (\A t \in scripts' : t.at = at) /\ (\E t \in scripts' : t.at = at)
    BY <1>10, <1>12
  <2>2. FoundStays' /\ TrialCanEnd' /\ RollbackLands' /\ EndIsSound'
    BY <1>12, <2>1 DEF FoundStays, TrialCanEnd, RollbackLands, EndIsSound, Upgrading, Reaching
  <2>3. QED  BY <1>12, <2>1, <2>2 DEF HostClaims
<1>13. ASSUME NEW at, goes(at), op.at = "rollback", RollbackLands'
       PROVE  HostClaims'
  <2>1. ScriptIsAwaited'
    BY <1>10, <1>13
  <2>2. FoundStays' /\ ActivationFits' /\ TrialCanEnd' /\ EndIsSound'
    BY <1>13 DEF FoundStays, ActivationFits, TrialCanEnd, EndIsSound, Upgrading
  <2>3. QED  BY <1>13, <2>1, <2>2 DEF HostClaims
<1>14. ASSUME scripts' = {}, ScriptIsAwaited', op'.at \in {"await", "rollback", "end"},
              TrialCanEnd', RollbackLands', EndIsSound'
       PROVE  HostClaims'
  BY <1>14 DEF HostClaims, FoundStays, ActivationFits, Upgrading
<1>15. op.target \in Versions /\ op.target # "none"
  BY <1>3, VersionsAssumption DEF HostInv, HostShape, UpgradePlaces, Agent!None
<1>16. s.at \in ScriptSteps
  BY DEF HostInv, HostShape, HostTyped, ScriptsTyped
<1> USE <1>5, <1>6, <1>15, <1>16 DEF Restic!Reaches, Restic!Around, Restic!None, Restic!Down, Restic!CanStart,
     Restic!Proceeds, Restic!Calm, Restic!Fails, Restic!Breaks, Restic!Done, Restic!DoesNotStart, Restic!Trouble, Restic!files
<1>17. CASE Restic!BeginActivation(s)
  <2> USE <1>17 DEF Restic!BeginActivation
  <2>1. /\ op.at = "activate" /\ active \in op.found /\ previous \in op.found \cup {"none"}
        /\ staged = op.target
    BY DEF HostInv, HostClaims, FoundStays, ActivationFits, Upgrading, Reaching
  <2>2. CASE Restic!Proceeds(s, "park") /\ previous' = "none" /\ ("restic" = "agent" => active # "none")
    <3>1. goes("park")
      BY <2>2 DEF ScriptSteps
    <3>2. ActivationFits'
      BY <1>10, <2>1, <2>2, <3>1 DEF ActivationFits, Reaching, HasReached
    <3>3. QED  BY <1>12, <2>1, <3>1, <3>2
  <2>3. CASE Restic!Ends(s, Restic!Failed(FALSE)) /\ previous' = previous /\ "restic" = "agent"
    <3>1. op'.at = "rollback" /\ scripts' = {} /\ ScriptIsAwaited' /\ op'.found = op.found
      BY <1>9, <2>1, <2>3
    <3>2. RollbackLands' /\ TrialCanEnd' /\ EndIsSound'
      BY <2>1, <2>3, <3>1 DEF RollbackLands, TrialCanEnd, EndIsSound, Upgrading, HasReached
    <3>3. QED  BY <1>14, <3>1, <3>2
  <2>4. QED  BY <2>1, <2>2, <2>3
<1>18. CASE Restic!ParkActive(s)
  <2> USE <1>18 DEF Restic!ParkActive
  <2>1. /\ op.at = "activate" /\ active \in op.found /\ previous = "none"
        /\ staged = op.target /\ ("restic" = "agent" => active # "none")
    BY DEF HostInv, HostClaims, ActivationFits, Upgrading, Reaching, HasReached
  <2>2. goes("put")
    BY <2>1 DEF ScriptSteps
  <2>3. active' = "none" /\ previous' \in op.found /\ ("restic" = "agent" => previous' # "none")
    BY <2>1
  <2>4. ActivationFits'
    BY <1>10, <2>1, <2>2, <2>3 DEF ActivationFits, Reaching, HasReached, CanReturn
  <2>5. QED  BY <1>12, <2>1, <2>2, <2>4
<1>19. CASE Restic!PutStaged(s)
  <2> USE <1>19 DEF Restic!PutStaged
  <2>1. op.at = "activate" /\ CanReturn /\ staged = op.target
    BY DEF HostInv, HostClaims, ActivationFits, Upgrading, Reaching, HasReached
  <2>2. goes("restart") /\ active' = op.target /\ CanReturn'
    BY <2>1 DEF ScriptSteps, CanReturn
  <2>3. ActivationFits'
    BY <1>10, <2>1, <2>2 DEF ActivationFits, Reaching, HasReached
  <2>4. QED  BY <1>12, <2>1, <2>2, <2>3
<1>20. CASE Restic!RestartActivated(s)
  <2> USE <1>20 DEF Restic!RestartActivated
  <2>1. op.at = "activate" /\ CanReturn /\ active = op.target
    BY DEF HostInv, HostClaims, ActivationFits, Upgrading, Reaching, HasReached
  <2>2. CASE goes("aside") /\ "restic" = "agent"
    <3>1. ActivationFits'
      BY <1>10, <2>1, <2>2 DEF ActivationFits, Reaching, HasReached, CanReturn
    <3>2. QED  BY <1>12, <2>1, <2>2, <3>1
  <2>3. CASE Restic!Ends(s, Restic!Succeeded) /\ running' = active
    <3>1. op'.at = "await" /\ scripts' = {} /\ ScriptIsAwaited'
          /\ op'.found = op.found /\ op'.target = op.target
      BY <1>8, <2>1, <2>3
    <3>2. RollbackLands' /\ TrialCanEnd' /\ EndIsSound'
      BY <2>1, <2>3, <3>1 DEF RollbackLands, TrialCanEnd, EndIsSound, Upgrading, CanReturn
    <3>3. QED  BY <1>14, <3>1, <3>2
  <2>4. CASE Restic!Ends(s, Restic!Failed(FALSE)) \/ Restic!Ends(s, Restic!Failed(s.do = "finish"))
    <3> DEFINE lost == s.do = "finish"
    <3>1. lost \in BOOLEAN /\ (Restic!Ends(s, Restic!Failed(FALSE)) \/ Restic!Ends(s, Restic!Failed(lost)))
      BY <2>4
    <3> HIDE DEF lost
    <3>2. op'.at = "rollback" /\ scripts' = {} /\ ScriptIsAwaited' /\ op'.found = op.found
      BY <1>9, <2>1, <3>1
    <3>3. RollbackLands' /\ TrialCanEnd' /\ EndIsSound'
      BY <2>1, <3>2 DEF RollbackLands, TrialCanEnd, EndIsSound, Upgrading, HasReached, CanReturn
    <3>4. QED  BY <1>14, <3>2, <3>3
  <2>5. \/ goes("aside") /\ "restic" = "agent"
        \/ Restic!Ends(s, Restic!Succeeded) /\ running' = active
        \/ Restic!Ends(s, Restic!Failed(FALSE)) \/ Restic!Ends(s, Restic!Failed(s.do = "finish"))
    BY DEF ScriptSteps
  <2>6. QED  BY <2>2, <2>3, <2>4, <2>5
<1>21. CASE Restic!SetAside(s)
  <2> USE <1>21 DEF Restic!SetAside
  <2>1. op.at = "activate" /\ CanReturn /\ active = op.target /\ "restic" = "agent"
    BY DEF HostInv, HostClaims, ActivationFits, Upgrading, Reaching, HasReached
  <2>2. goes("back") /\ active' = "none" /\ CanReturn'
    BY <2>1 DEF ScriptSteps, CanReturn
  <2>3. ActivationFits'
    BY <1>10, <2>1, <2>2 DEF ActivationFits, Reaching, HasReached
  <2>4. QED  BY <1>12, <2>1, <2>2, <2>3
<1>22. CASE Restic!PutBack(s)
  <2> USE <1>22 DEF Restic!PutBack
  <2>1. op.at = "activate" /\ CanReturn /\ "restic" = "agent"
    BY DEF HostInv, HostClaims, ActivationFits, Upgrading, Reaching, HasReached
  <2>2. goes("again") /\ active' \in op.found /\ previous' = "none"
    BY <2>1 DEF ScriptSteps, CanReturn
  <2>3. ActivationFits'
    BY <1>10, <2>1, <2>2 DEF ActivationFits, Reaching, HasReached
  <2>4. QED  BY <1>12, <2>1, <2>2, <2>3
<1>23. CASE Restic!RestartFormer(s)
  <2> USE <1>23 DEF Restic!RestartFormer
  <2>1. op.at = "activate" /\ previous = "none" /\ "restic" = "agent"
    BY DEF HostInv, HostClaims, ActivationFits, Upgrading, Reaching, HasReached
  <2>2. Restic!Ends(s, Restic!Failed(FALSE)) /\ previous' = "none"
    BY <2>1
  <2>3. op'.at = "rollback" /\ scripts' = {} /\ ScriptIsAwaited'
    BY <1>9, <2>1, <2>2
  <2>4. RollbackLands' /\ TrialCanEnd' /\ EndIsSound'
    BY <2>1, <2>2, <2>3 DEF RollbackLands, TrialCanEnd, EndIsSound, Upgrading, HasReached
  <2>5. QED  BY <1>14, <2>3, <2>4
<1>24. ASSUME Restic!Ends(s, Restic!Failed(FALSE)), op.at = "rollback"
       PROVE  HostClaims'
  <2>1. op'.at = "end" /\ op'.ok = FALSE /\ scripts' = {} /\ ScriptIsAwaited'
    BY <1>9, <1>24
  <2>2. RollbackLands' /\ TrialCanEnd' /\ EndIsSound'
    BY <2>1 DEF RollbackLands, TrialCanEnd, EndIsSound, Upgrading
  <2>3. QED  BY <1>14, <2>1, <2>2
<1>25. CASE Restic!BeginRollback(s)
  <2> USE <1>25 DEF Restic!BeginRollback
  <2>1. op.at = "rollback" /\ (previous \in op.found \/ ("restic" = "agent" /\ previous = "none"))
    BY DEF HostInv, HostClaims, RollbackLands, Upgrading, Reaching
  <2>2. CASE goes("aside") /\ running' = "down" /\ ("restic" = "agent" => previous # "none")
    <3>1. RollbackLands'
      BY <1>10, <2>1, <2>2 DEF RollbackLands, Reaching, HasReached
    <3>2. QED  BY <1>13, <2>1, <2>2, <3>1
  <2>3. CASE Restic!Ends(s, Restic!Failed(FALSE))
    BY <1>24, <2>1, <2>3
  <2>4. QED  BY <2>1, <2>2, <2>3 DEF ScriptSteps
<1>26. CASE Restic!SetFailedAside(s)
  <2> USE <1>26 DEF Restic!SetFailedAside
  <2>1. op.at = "rollback" /\ running = "down" /\ CanReturn
    BY DEF HostInv, HostClaims, RollbackLands, Upgrading, Reaching, HasReached, CanReturn
  <2>2. goes("back") /\ active' = "none" /\ CanReturn' /\ running' = "down"
    BY <2>1 DEF ScriptSteps, CanReturn
  <2>3. RollbackLands'
    BY <1>10, <2>1, <2>2 DEF RollbackLands, Reaching, HasReached
  <2>4. QED  BY <1>13, <2>1, <2>2, <2>3
<1>27. CASE Restic!PutPreviousBack(s)
  <2> USE <1>27 DEF Restic!PutPreviousBack, Restic!Returns
  <2>1. op.at = "rollback" /\ running = "down" /\ active = "none" /\ CanReturn
    BY DEF HostInv, HostClaims, RollbackLands, Upgrading, Reaching, HasReached
  <2>2. goes("again") /\ active' \in op.found /\ running' = "down"
    BY <2>1 DEF ScriptSteps, CanReturn
  <2>3. RollbackLands'
    BY <1>10, <2>1, <2>2 DEF RollbackLands, Reaching, HasReached
  <2>4. QED  BY <1>13, <2>1, <2>2, <2>3
<1>28. CASE Restic!StartPrevious(s)
  <2> USE <1>28 DEF Restic!StartPrevious
  <2>1. op.at = "rollback" /\ running = "down" /\ active \in op.found /\ s.do # "finish"
    BY DEF HostInv, HostClaims, RollbackLands, Upgrading, Reaching, HasReached
  <2>2. CASE Restic!Ends(s, Restic!Succeeded) /\ running' = active
    <3>1. op'.at = "end" /\ scripts' = {} /\ ScriptIsAwaited' /\ op'.found = op.found
      BY <1>8, <2>1, <2>2
    <3>2. RollbackLands' /\ TrialCanEnd' /\ EndIsSound'
      BY <2>1, <2>2, <3>1 DEF RollbackLands, TrialCanEnd, EndIsSound, Upgrading
    <3>3. QED  BY <1>14, <3>1, <3>2
  <2>3. CASE Restic!Ends(s, Restic!Failed(FALSE))
    BY <1>24, <2>1, <2>3
  <2>4. ASSUME NEW lost \in BOOLEAN, Restic!Ends(s, Restic!Failed(lost))
        PROVE  HostClaims'
    <3>1. op'.at = "end" /\ op'.ok = FALSE /\ scripts' = {} /\ ScriptIsAwaited'
      BY <1>9, <2>1, <2>4
    <3>2. RollbackLands' /\ TrialCanEnd' /\ EndIsSound'
      BY <3>1 DEF RollbackLands, TrialCanEnd, EndIsSound, Upgrading
    <3>3. QED  BY <1>14, <3>1, <3>2
  <2>5. \/ Restic!Ends(s, Restic!Succeeded) /\ running' = active
        \/ Restic!Ends(s, Restic!Failed(FALSE)) \/ Restic!Ends(s, Restic!Failed(s.do = "finish"))
    BY <2>1
  <2>6. (s.do = "finish") \in BOOLEAN
    OBVIOUS
  <2>7. QED  BY <2>2, <2>3, <2>4, <2>5, <2>6
<1>29. CASE Restic!RemoveFiles(s)
  <2> USE <1>29 DEF Restic!RemoveFiles
  <2>1. UNCHANGED <<active, running>> /\ op.at \in {"clean", "finish"}
    OBVIOUS
  <2>2. op.at = "finish" => active = op.target /\ running = active /\ CanReturn
                            /\ op.target \in proven
    BY DEF HostInv, HostClaims, TrialCanEnd, Upgrading
  <2>3. CASE Restic!Ends(s, Restic!Succeeded)
    <3>1. /\ op'.at = "end" /\ scripts' = {} /\ ScriptIsAwaited'
          /\ op'.ok = TRUE => op.at \in {"finish", "rollback"}
      BY <1>8, <2>1, <2>3
    <3>2. RollbackLands' /\ TrialCanEnd' /\ EndIsSound'
      BY <1>2, <2>1, <2>2, <3>1 DEF RollbackLands, TrialCanEnd, EndIsSound, Upgrading
    <3>3. QED  BY <1>14, <3>1, <3>2
  <2>4. ASSUME NEW lost \in BOOLEAN, Restic!Ends(s, Restic!Failed(lost)),
               \/ lost <=> op.at = "finish"
               \/ previous' = previous
        PROVE  HostClaims'
    <3>1. /\ op'.at \in {"rollback", "end"} /\ op'.ok = FALSE /\ op'.found = op.found
          /\ op.at # "finish" => op'.at = "end"
          /\ ~("restic" = "restic" /\ op'.at = "rollback" /\ lost)
          /\ scripts' = {} /\ ScriptIsAwaited'
      BY <1>9, <2>1, <2>4
    <3>2. TrialCanEnd' /\ EndIsSound'
      BY <3>1 DEF TrialCanEnd, EndIsSound, Upgrading
    <3>3. op'.at = "rollback" => previous' \in op.found \/ ("restic" = "agent" /\ previous' = "none")
      BY <2>1, <2>2, <2>4, <3>1 DEF CanReturn, HostInv
    <3>4. RollbackLands'
      BY <3>1, <3>3 DEF RollbackLands, Upgrading, HasReached
    <3>5. QED  BY <1>14, <3>1, <3>2, <3>4
  <2>5. \/ Restic!Ends(s, Restic!Succeeded)
        \/ Restic!Ends(s, Restic!Failed(s.do = "finish"))
        \/ Restic!Ends(s, Restic!Failed(FALSE)) /\ previous' = previous
    OBVIOUS
  <2>6. CASE Restic!Ends(s, Restic!Failed(s.do = "finish"))
    <3> DEFINE lost == s.do = "finish"
    <3>1. lost \in BOOLEAN /\ Restic!Ends(s, Restic!Failed(lost)) /\ (lost <=> op.at = "finish")
      BY <2>6
    <3> HIDE DEF lost
    <3>2. QED  BY <2>4, <3>1
  <2>7. CASE Restic!Ends(s, Restic!Failed(FALSE)) /\ previous' = previous
    BY <2>4, <2>7
  <2>8. QED  BY <2>3, <2>5, <2>6, <2>7
<1>30. s.do # "restart" /\ s.do # "start" /\ s.do # "prepare" /\ s.do # "cleanup"
       /\ s.do # "stop" /\ s.do # "remove"
  BY <1>7
<1>31. ~Restic!RestartAgent(s) /\ ~Restic!StopOrRemove(s)
  BY <1>30 DEF Restic!RestartAgent, Restic!StopOrRemove
<1>32. QED  BY <1>1, <1>17, <1>18, <1>19, <1>20, <1>21, <1>22, <1>23, <1>25, <1>26, <1>27,
                <1>28, <1>29, <1>31 DEF ResticStepOf

LEMMA ResticHostStep ==
  ASSUME HostInv, tool = "restic", tool' = tool, Restic!Next
  PROVE  HostInv'
<1>1. CASE Restic!Heartbeat \/ Restic!Enroll \/ Restic!Claim \/ Restic!Complete \/ Restic!RevokeAgent
  BY <1>1, ResticUsersAct
<1>2. CASE Restic!StartUpgrade \/ Restic!StartProbe \/ Restic!StartDeploy \/ Restic!StartUninstall
  BY <1>2, ResticBegins
<1>3. CASE Restic!BeginAgentDrain \/ Restic!WaitForDrain \/ Restic!Stage \/ Restic!WaitForVersionHeartbeat
  BY <1>3, ResticUpgradeMoves
<1>4. CASE Restic!Send \/ Restic!GiveUp
  BY <1>4, ResticSends
<1>5. CASE Restic!ScriptStep
  <2>1. HostShape'
    BY <1>5, ResticScriptShape DEF HostInv
  <2>2. CASE Going'
    BY <1>5, <2>1, <2>2, ResticScriptClaims DEF HostInv
  <2>3. CASE ~Going'
    BY <2>1, <2>3, NothingClaimed DEF HostInv
  <2>4. QED  BY <2>2, <2>3
<1>6. CASE \/ Restic!Upload \/ Restic!BindManagedAgent \/ Restic!FinishDeploy
           \/ Restic!CompleteAgentUninstall \/ Restic!Crash \/ Restic!EndAgentDrain
  BY <1>6, ResticOthersGoOn
<1>7. QED  BY <1>1, <1>2, <1>3, <1>4, <1>5, <1>6 DEF Restic!Next

(* An operation keeps its kind until it is over.                           *)
LEMMA ResticKeepsKind ==
  ASSUME HostInv, tool = "restic", tool' = tool, Restic!Next, op.kind = "upgrade", op'.at = "end"
  PROVE  op'.kind = "upgrade"
<1> USE DEF HostInv, HostShape, HostTyped, OperationTyped
<1>1. \/ op' = Restic!NoOp \/ op' = op
      \/ \E at \in HostPlaces : op' = [op EXCEPT !.at = at]
      \/ \E at, ok, cut : Restic!GoOn(at, ok, cut)
  <2>1. CASE Restic!Heartbeat \/ Restic!Enroll \/ Restic!Claim \/ Restic!Complete \/ Restic!RevokeAgent
    BY <2>1 DEF Restic!Heartbeat, Restic!Enroll, Restic!Claim, Restic!Complete, Restic!RevokeAgent
  <2>2. CASE Restic!StartUpgrade \/ Restic!StartProbe \/ Restic!StartDeploy \/ Restic!StartUninstall
    BY <2>2 DEF Restic!StartUpgrade, Restic!StartProbe, Restic!StartDeploy, Restic!StartUninstall, Restic!Begin, Restic!NoOp,
       Restic!None
  <2>3. CASE Restic!BeginAgentDrain \/ Restic!WaitForDrain \/ Restic!Stage \/ Restic!WaitForVersionHeartbeat
    BY <2>3 DEF Restic!BeginAgentDrain, Restic!WaitForDrain, Restic!Stage, Restic!WaitForVersionHeartbeat, Restic!Go,
       Restic!On, HostPlaces, HostCommands
  <2>4. CASE Restic!Send \/ Restic!GiveUp
    BY <2>4 DEF Restic!Send, Restic!GiveUp, Restic!Failed
  <2>5. CASE Restic!ScriptStep
    <3>1. PICK s \in scripts : ResticStepOf(s)
      BY <2>5 DEF Restic!ScriptStep, ResticStepOf
    <3>2. ResticOutcome(s)
      BY <3>1, ResticScriptMoves
    <3>3. QED  BY <3>2 DEF ResticOutcome, Restic!Succeeded, Restic!Failed
  <2>6. CASE \/ Restic!Upload \/ Restic!BindManagedAgent \/ Restic!FinishDeploy
             \/ Restic!CompleteAgentUninstall \/ Restic!Crash \/ Restic!EndAgentDrain
    BY <2>6 DEF Restic!Upload, Restic!BindManagedAgent, Restic!FinishDeploy, Restic!CompleteAgentUninstall, Restic!Crash,
       Restic!EndAgentDrain, Restic!Step, Restic!On, Restic!Go, HostPlaces, HostCommands
  <2>7. QED  BY <2>1, <2>2, <2>3, <2>4, <2>5, <2>6 DEF Restic!Next
<1>2. ASSUME NEW at, NEW ok, NEW cut, Restic!GoOn(at, ok, cut)
      PROVE  op'.kind = "upgrade"
  <2>1. CASE at = "idle"
    BY <1>2, <2>1 DEF Restic!GoOn, Restic!NoOp
  <2>2. CASE at # "idle"
    BY <1>2, <2>2 DEF Restic!GoOn
  <2>3. QED  BY <2>1, <2>2
<1>3. QED  BY <1>1, <1>2 DEF Restic!NoOp

LEMMA HostBegins == ToolInit => HostInv
<1> SUFFICES ASSUME ToolInit  PROVE HostInv
  OBVIOUS
<1>1. /\ tool \in {"agent", "restic"}
      /\ previous = "none" /\ staged = "none" /\ active \in Versions \cup {"none"}
      /\ \E status \in {"absent", "active"}, managed \in BOOLEAN :
           agent = [status |-> status, managed |-> managed, version |-> active,
                    draining |-> FALSE]
      /\ proven = {active} \ {"none"} /\ scripts = {} /\ ops = 0
      /\ op = [kind |-> "none", at |-> "idle", target |-> "none", found |-> {},
               cut |-> FALSE, ok |-> FALSE]
  <2> USE DEF Agent!None, Restic!None, Agent!Row, Restic!Row, Agent!NoOp, Restic!NoOp
  <2>1. CASE tool = "agent" /\ Agent!Init
    BY <2>1 DEF Agent!Init
  <2>2. CASE tool = "restic" /\ Restic!Init
    BY <2>2 DEF Restic!Init
  <2>3. QED  BY <2>1, <2>2 DEF ToolInit
<1>2. HostShape
  BY <1>1 DEF HostShape, HostTyped, ToolFilesTyped, ToolFiles, AgentTyped, OperationTyped,
     ScriptsTyped, OkAtEnd, UpgradePlaces, HostPlaces
<1>3. HostClaims
  BY <1>1 DEF HostClaims, ScriptIsAwaited, FoundStays, ActivationFits, TrialCanEnd,
     RollbackLands, EndIsSound, Upgrading, Going
<1>4. QED  BY <1>1, <1>2, <1>3 DEF HostInv

(* An upgrade of the Agent, or an installation of its Restic, that reports *)
(* its end and waits for its scripts leaves, and runs, a version that has  *)
(* proved itself or was there when it began, for any set of versions, of   *)
(* broken ones, and any number of operations, failures, cuts and crashes.  *)
THEOREM UpgradesRestore == ToolSpec => UpgradeRestores
<1>1. HostInv /\ [ToolNext]_toolVars
        => HostInv' /\ [(tool = "agent" => Agent!Restores) /\ (tool = "restic" => Restic!Restores)]_toolVars
  <2> SUFFICES ASSUME HostInv, ToolNext
               PROVE  /\ HostInv'
                      /\ tool = "agent" => Agent!Restores
                      /\ tool = "restic" => Restic!Restores
    <3>1. ASSUME HostInv, UNCHANGED toolVars  PROVE HostInv'
      BY <3>1, HostUntouched DEF toolVars, hostVars, HostInv, HostShape, HostTyped, AgentTyped
    <3>2. QED  BY <3>1
  <2>1. HostInv' /\ (op.kind = "upgrade" /\ op'.at = "end" => op'.kind = "upgrade")
    BY AgentHostStep, ResticHostStep, AgentKeepsKind, ResticKeepsKind DEF ToolNext
  <2>2. op.kind = "upgrade" /\ op'.at = "end" /\ op'.ok /\ ~op'.cut
          => active' \in op'.found \cup proven' /\ running' = active'
    BY <2>1 DEF HostInv, HostShape, HostTyped, OperationTyped, HostClaims, EndIsSound, Upgrading,
       Going
  <2>3. QED  BY <2>1, <2>2 DEF Agent!Restores, Restic!Restores
<1>2. QED  BY HostBegins, <1>1, PTL DEF ToolSpec, UpgradeRestores
=============================================================================
