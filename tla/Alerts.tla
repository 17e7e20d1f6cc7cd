-------------------------------- MODULE Alerts --------------------------------
(***************************************************************************)
(* alerting.Service and notification.Service for one alert and one         *)
(* channel.  The alert is about the runs of a task, the schedule of a plan *)
(* or of maintenance, the verifications of a task, the integrity of a      *)
(* repository, the certificate of an Agent, or a condition that holds or   *)
(* does not: an Agent is offline or its protocol does not fit, a success   *)
(* or a capacity is too old, a disk is short of space.  The end of a run   *)
(* is told to an observer, which raises or resolves the alert; every 30    *)
(* seconds the reconciler reads the state of the system, then the active   *)
(* alerts, and raises or resolves what differs.  Whoever changes the alert *)
(* delivers the message.                                                   *)
(*                                                                         *)
(* Each statement is a step, and may fail; the attempts of a delivery      *)
(* are one step.                                                           *)
(***************************************************************************)
EXTENDS Naturals

CONSTANTS
  Observers,    \* runs of the task, each with its observer
  Reconciler,
  Statuses,     \* of runs: success, partial, failed, cancelled
  Objects,      \* what the alert is about: a subset of DOMAIN StatusesOf
  MaxTroubles   \* bound on statements that fail, for TLC

VARIABLES
  object,    \* what the alert is about
  task,      \* that object: "enabled", "disabled" or "gone"
  latest,    \* its status: of a task, that of the latest run
  alert,     \* severity of the active alert, or that it is resolved
  pc,        \* where each observer and the reconciler are
  seen,      \* what each of them has found the status to call for
  told,      \* the transition each of them delivers
  active,    \* the active alert as the reconciler has read it
  delivered, \* transition of the latest delivered row of the channel
  channel,   \* whether an alert says that the channel fails
  troubles

vars == <<object, task, latest, alert, pc, seen, told, active, delivered, channel, troubles>>

Producers == Observers \cup {Reconciler}

Nothing == "none"

Keep  == "keep"    \* the alert is left as it is
Clear == "clear"   \* the alert is resolved

StatusesOf ==
  [task         |-> Statuses,
   plan         |-> {"running", "success", "failed", "interrupted", "missed", "partial",
                     "skipped", "cancelled"},
   verification |-> {"running", "success", "failed", "interrupted", "cleanup_required",
                     "cancelled"},
   repository   |-> {"uninitialized", "disconnected", "ready", "abnormal", "unprotected"},
   agent        |-> {"valid", "in a month", "in two weeks", "in a week"},
   condition    |-> {"holds", "does not hold"}]

(* What a status calls for: a severity, or one of the above.               *)
Severity(status) == CASE status = "failed" -> "critical"
                      [] status \in {"partial", "skipped"} -> "warning"
                      [] status = "cancelled" -> "info"
                      [] OTHER -> Clear

OfOccurrence(status) == CASE status \in {"failed", "missed", "interrupted"} -> "critical"
                          [] status \in {"partial", "skipped"} -> "warning"
                          [] status = "cancelled" -> "info"
                          [] status = "success" -> Clear
                          [] OTHER -> Keep

OfVerification(status) == CASE status \in {"failed", "interrupted", "cleanup_required"} -> "critical"
                            [] status = "cancelled" -> "info"
                            [] status = "running" -> Keep
                            [] OTHER -> Clear

OfRepository(status) == CASE status \in {"abnormal", "unprotected"} -> "critical"
                          [] status \in {"ready", "uninitialized"} -> Clear
                          [] OTHER -> Keep

OfAgent(status) == CASE status = "in a week"    -> "critical"
                     [] status = "in two weeks" -> "warning"
                     [] status = "in a month"   -> "info"
                     [] OTHER -> Clear

OfCondition(status) == IF status = "holds" THEN "critical" ELSE Clear

Severities == {"critical", "warning", "info"}
IsActive   == alert \in Severities

Init ==
  /\ object \in Objects
  /\ task = "enabled" /\ latest = Nothing /\ alert = Nothing
  /\ pc = [p \in Producers |-> "idle"]
  /\ seen = [p \in Producers |-> Nothing]
  /\ told = [p \in Producers |-> Nothing]
  /\ active = Nothing /\ delivered = Nothing /\ channel = FALSE /\ troubles = 0

Move(p, at) == pc' = [pc EXCEPT ![p] = at]
Trouble     == troubles < MaxTroubles /\ troubles' = troubles + 1

-----------------------------------------------------------------------------
(* The object.                                                             *)

RunEnds(o, status) ==
  /\ object = "task" /\ task # "gone" /\ pc[o] = "idle"
  /\ latest' = status
  /\ seen' = [seen EXCEPT ![o] = Severity(status)]
  /\ Move(o, "deciding")
  /\ UNCHANGED <<object, task, alert, told, active, delivered, channel, troubles>>

StatusChanges(status) ==
  /\ object # "task" /\ task # "gone"
  /\ latest' = status
  /\ UNCHANGED <<object, task, alert, pc, seen, told, active, delivered, channel, troubles>>

(* An Agent is disabled when it is revoked, or uninstalled.                *)
Toggle ==
  /\ task # "gone" /\ object # "repository"
  /\ task' = IF task = "enabled" THEN "disabled" ELSE "enabled"
  /\ UNCHANGED <<object, latest, alert, pc, seen, told, active, delivered, channel, troubles>>

(* The alerts about a task and their deliveries go with it; those about    *)
(* others stay, and so does that about the verifications when their policy *)
(* is deleted.                                                             *)
DeleteTask ==
  /\ object \in {"task", "verification"} /\ task = "disabled"
  /\ task' = "gone" /\ latest' = Nothing /\ alert' = Nothing /\ delivered' = Nothing
  /\ UNCHANGED <<object, pc, seen, told, active, channel, troubles>>

Delete ==
  /\ object # "task" /\ task # "gone" /\ (object = "agent" => task = "disabled")
  /\ task' = "gone" /\ latest' = Nothing
  /\ UNCHANGED <<object, alert, pc, seen, told, active, delivered, channel, troubles>>

-----------------------------------------------------------------------------
(* Raising and resolving.  A transition is delivered; a repetition, and    *)
(* what only informs, is not.                                              *)

Tell(p, transition) == told' = [told EXCEPT ![p] = transition] /\ Move(p, "checking")
Quiet(p)            == Move(p, "done") /\ UNCHANGED told

RaiseAlert(p, severity) ==
  /\ alert' = severity
  /\ IF ~IsActive /\ severity # "info" THEN Tell(p, severity) ELSE Quiet(p)

ResolveAlert(p) ==
  /\ alert' = IF IsActive THEN "resolved" ELSE alert
  /\ IF IsActive /\ alert # "info" THEN Tell(p, "resolved") ELSE Quiet(p)

Raise(p, severity) ==
  \/ RaiseAlert(p, severity) /\ UNCHANGED troubles
  \/ Trouble /\ Quiet(p) /\ UNCHANGED alert

Resolve(p) ==
  \/ ResolveAlert(p) /\ UNCHANGED troubles
  \/ Trouble /\ Quiet(p) /\ UNCHANGED alert

ObserveRun(o) ==
  /\ o \in Observers /\ pc[o] = "deciding"
  /\ IF seen[o] = Clear THEN Resolve(o) ELSE Raise(o, seen[o])
  /\ UNCHANGED <<object, task, latest, seen, active, delivered, channel>>

-----------------------------------------------------------------------------
(* Service.Reconcile.                                                      *)

(* What the status calls for.                                              *)
CallsFor == CASE object = "task"         -> Severity(latest)
              [] object = "plan"         -> OfOccurrence(latest)
              [] object = "verification" -> OfVerification(latest)
              [] object = "repository"   -> OfRepository(latest)
              [] object = "agent"        -> OfAgent(latest)
              [] OTHER                   -> OfCondition(latest)

(* An object that is gone or disabled has no alert; the verifications      *)
(* have, though none is scheduled.                                         *)
Wanted == IF task = "gone" \/ (task = "disabled" /\ object # "verification") THEN Clear
          ELSE CallsFor

ReadState ==
  /\ pc[Reconciler] = "idle"
  /\ seen' = [seen EXCEPT ![Reconciler] = Wanted]
  /\ Move(Reconciler, "reading")
  /\ UNCHANGED <<object, task, latest, alert, told, active, delivered, channel, troubles>>

ReadActive ==
  /\ pc[Reconciler] = "reading"
  /\ active' = IF IsActive THEN alert ELSE Nothing
  /\ Move(Reconciler, "deciding")
  /\ UNCHANGED <<object, task, latest, alert, seen, told, delivered, channel, troubles>>

Differs == /\ seen[Reconciler] # Keep
           /\ active # (IF seen[Reconciler] = Clear THEN Nothing ELSE seen[Reconciler])

(* Mutant: an alert is resolved only by those that know of the recovery.   *)
Change_RaiseOnly == seen[Reconciler] # Clear /\ Raise(Reconciler, seen[Reconciler])

Change == IF seen[Reconciler] = Clear THEN Resolve(Reconciler)
                                      ELSE Raise(Reconciler, seen[Reconciler])

Decide ==
  /\ pc[Reconciler] = "deciding"
  /\ \/ Differs /\ Change
     \/ ~Differs /\ Quiet(Reconciler) /\ UNCHANGED <<alert, troubles>>
  /\ UNCHANGED <<object, task, latest, seen, active, delivered, channel>>

(* The next tick.                                                          *)
Tick ==
  /\ pc[Reconciler] = "done"
  /\ Move(Reconciler, "idle")
  /\ UNCHANGED <<object, task, latest, alert, seen, told, active, delivered, channel, troubles>>

-----------------------------------------------------------------------------
(* Service.Deliver, and what it says of the channel.                       *)

Check(p) ==
  /\ pc[p] = "checking"
  /\ Move(p, IF delivered = told[p] THEN "sent" ELSE "sending")
  /\ UNCHANGED <<object, task, latest, alert, seen, told, active, delivered, channel, troubles>>

(* Delivered; not delivered after three attempts, or for the limit on      *)
(* messages; delivered, but the row could not be written.                  *)
Send(p) ==
  /\ pc[p] = "sending"
  /\ \/ delivered' = told[p] /\ Move(p, "sent") /\ UNCHANGED troubles
     \/ Trouble /\ Move(p, "unsent") /\ UNCHANGED delivered
  /\ UNCHANGED <<object, task, latest, alert, seen, told, active, channel>>

Note(p) ==
  /\ pc[p] \in {"sent", "unsent"}
  /\ channel' = (pc[p] = "unsent")
  /\ Move(p, "done")
  /\ UNCHANGED <<object, task, latest, alert, seen, told, active, delivered, troubles>>

Next ==
  \/ \E o \in Observers : \/ \E status \in Statuses : RunEnds(o, status)
                          \/ ObserveRun(o)
  \/ ReadState \/ ReadActive \/ Decide \/ Tick
  \/ \E p \in Producers : Check(p) \/ Send(p) \/ Note(p)
  \/ \E status \in StatusesOf[object] : StatusChanges(status)
  \/ Toggle \/ DeleteTask \/ Delete

(* The observers of runs go on, and so does the reconciler.                *)
Works(p) == IF p = Reconciler THEN ReadState \/ ReadActive \/ Decide \/ Tick ELSE ObserveRun(p)

Fairness ==
  \A p \in Producers : WF_vars(Works(p) \/ Check(p) \/ Send(p) \/ Note(p))

Spec == Init /\ [][Next]_vars /\ Fairness

-----------------------------------------------------------------------------
Matches == CASE Wanted = Keep  -> TRUE
             [] Wanted = Clear -> ~IsActive
             [] OTHER -> alert = Wanted

(* alerting/reconciler.go Reconcile, alerting/service.go ObserveRun: once  *)
(* the object changes no more, the alert is and stays what its status      *)
(* calls for, in whatever order the observers and the reconciler have      *)
(* acted on what they had read.                                            *)
AlertsConverge == <>[][FALSE]_<<task, latest>> => <>[]Matches
=============================================================================
