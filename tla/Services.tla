------------------------------- MODULE Services -------------------------------
(***************************************************************************)
(* What the service and its commands do for themselves, component by       *)
(* component: the operations the handlers start, the update of the         *)
(* program, its installation, the migration from a user service to a root  *)
(* service, and the upgrade of the database.  The components are modelled  *)
(* to share no state; where two have variables of one name, either one is  *)
(* renamed here, or a behaviour is of one of the two.                      *)
(***************************************************************************)
EXTENDS OperationManager

CONSTANTS
  MaxUpdates, MaxVersion,          \* ApplicationUpdate
  MaxWrites, MaxRuns,              \* ServiceMigration
  MaxTroubles,                     \* both
  Agents, Hosts, MaxDeployments    \* DatabaseUpgrade

VARIABLES
  running, binary, checksum, previous, updates, young, steps, target, kept, attempted,
                                                                        \* ApplicationUpdate
  program, sum, companions, definition, legacy, process, step, good, current, parked, before,
                                                                        \* ApplicationInstall
  unit, was, source, written, staging, copied, root, marker, at, stage, restarted, runs,
                                                                        \* ServiceMigration
  opening, columns, tables, linked, moved, rows, intended, cut,         \* DatabaseUpgrade
  troubles

Update == INSTANCE ApplicationUpdate WITH record <- updates, pc <- steps

Install == INSTANCE ApplicationInstall WITH
  binary <- program, unit <- definition, at <- step, was <- before

Migration == INSTANCE ServiceMigration WITH target <- copied

Upgrade == INSTANCE DatabaseUpgrade WITH at <- opening

(* An Agent without a host is not one with a host.                         *)
ASSUME DeploymentsAssumption == MaxDeployments \in Nat /\ Upgrade!None \notin Hosts

updateVars    == <<running, binary, checksum, previous, updates, young, steps, target, kept,
                   attempted>>
installVars   == <<program, sum, companions, definition, legacy, process, step, good, current,
                   parked, before>>
migrationVars == <<unit, was, source, written, staging, copied, root, marker, at, stage,
                   restarted, runs>>
upgradeVars   == <<opening, columns, tables, linked, moved, rows, intended, cut>>

-----------------------------------------------------------------------------
(* What the components promise; see there.                                 *)

InstallRestores   == Install!InstallRestores
MigrationIsAtomic == Migration!MigrationIsAtomic
UpgradeKeeps      == Upgrade!UpgradeKeeps
UpdateIsHonest    == Update!UpdateIsHonest
=============================================================================
