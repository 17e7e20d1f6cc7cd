------------------------------- MODULE Restores -------------------------------
(***************************************************************************)
(* AgentLease, and the restores an administrator confirms.  Both use the   *)
(* Agents' machines; the two are modelled to share no state.               *)
(***************************************************************************)
EXTENDS AgentLease

CONSTANTS Confirmations, Requests, Snapshots, RepositoryOf, MaxOthers

VARIABLES kind, limit, confirmation, request, step, staging, entry, agent, target, overtaken,
          others

restoreVars == <<kind, limit, confirmation, request, step, staging, entry, agent, target,
                 overtaken, others>>

Restoring == INSTANCE Restore WITH phase <- step

(* A request is not a name of nobody, and a snapshot not an unfinished one. *)
ASSUME RestoresAssumption ==
  /\ Restoring!Nothing \notin Requests /\ Restoring!Other \notin Requests
  /\ Restoring!Partial \notin Snapshots

-----------------------------------------------------------------------------
(* What Restore promises; see there.                                       *)

RestoresWhatWasConfirmed == Restoring!RestoresWhatWasConfirmed
SparesOthers             == [][Restoring!Spares]_restoreVars
=============================================================================
