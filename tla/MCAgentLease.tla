---------------------------- MODULE MCAgentLease ----------------------------
(***************************************************************************)
(* AgentLease on small instances: one or two Agents, runs as model values; *)
(* and beside it what else Agents and operations do on the machines, the   *)
(* restores, and the alerts about runs that have ended.  The initial state *)
(* picks the part that is checked; the parts share no state.               *)
(***************************************************************************)
EXTENDS Restores, TLC

CONSTANTS
  Parts,
  r1, r2, a1, a2,                 \* AgentLease
  c1, c2, q1, q2, s1, s2,         \* Restore
  w1, w2, reconciler              \* Alerts

OneAgent == [r \in Runs |-> a1]

(* Snapshots of two repositories, named by their snapshots.                *)
MCRepositoryOf == (s1 :> s1) @@ (s2 :> s2)

VARIABLES
  part,
  object, task, latest, alert, pc, seen, told, active, delivered, channel, troubles

alertVars == <<object, task, latest, alert, pc, seen, told, active, delivered, channel, troubles>>

Alerting == INSTANCE Alerts WITH
  Observers <- {w1, w2}, Reconciler <- reconciler,
  Statuses <- {"success", "failed", "cancelled"}, MaxTroubles <- 1,
  Objects <- {"task", "plan", "verification", "repository", "agent", "condition"}

-----------------------------------------------------------------------------
(* A part that is not checked stays where nothing of it can happen.        *)
Off == "off"

RestoreOff == Restoring!Init /\ kind = "file" /\ target.made = Restoring!Nothing

AlertsOff ==
  /\ object = Off /\ task = Off /\ latest = Off /\ alert = Off
  /\ pc = [p \in {w1, w2, reconciler} |-> Off]
  /\ seen = pc /\ told = pc
  /\ active = Off /\ delivered = Off /\ channel = FALSE /\ troubles = 0

MCInit ==
  /\ part \in Parts
  /\ Init
  /\ IF part = "restore" THEN Restoring!Init ELSE RestoreOff
  /\ IF part = "alerts" THEN Alerting!Init ELSE AlertsOff

MCNext ==
  /\ part' = part
  /\ \/ part = "lease" /\ Next /\ UNCHANGED <<restoreVars, alertVars>>
     \/ part = "restore" /\ Restoring!Next /\ UNCHANGED <<vars, alertVars>>
     \/ part = "alerts" /\ Alerting!Next /\ UNCHANGED <<vars, restoreVars>>

allVars == <<part, vars, restoreVars, alertVars>>

MCSpec == MCInit /\ [][MCNext]_allVars

(* No fair action of a part can occur in another part.                     *)
MCFairSpec == MCSpec /\ Fairness /\ Alerting!Fairness

-----------------------------------------------------------------------------
AlertsConverge == part = "alerts" => Alerting!AlertsConverge
=============================================================================
