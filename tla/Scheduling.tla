------------------------------ MODULE Scheduling ------------------------------
(***************************************************************************)
(* What the service does by the clock: the plans (ScheduleOccurrence), and *)
(* the monitoring of capacity.  The two are modelled to share no state.    *)
(***************************************************************************)
EXTENDS ScheduleOccurrence

CONSTANTS Repos, OnAgent, Probes, MaxProbes, MaxSaves, MaxTroubles

VARIABLES
  enabled, planned, revived, queue, claim, connected, reachable, active, at, order, behind,
  shown, saves, troubles

capacityVars == <<enabled, planned, revived, queue, claim, connected, reachable, active, at,
                  order, behind, shown, saves, troubles>>

Capacity == INSTANCE RepositoryCapacity WITH MaxParallel <- MaxProbes

(* The dispatcher may probe every repository there is.                     *)
ASSUME ProbesAssumption ==
  /\ IsFiniteSet(Repos) /\ MaxProbes \in Nat
  /\ Probes \subseteq {"dispatcher", "other"} \X Repos
  /\ \A r \in Repos : Capacity!Dispatched(r) \in Probes

-----------------------------------------------------------------------------
(* What RepositoryCapacity promises; see there.                            *)

MonitorHolds == Capacity!MonitorHolds
=============================================================================
