--------------------------- MODULE ServiceMigration ---------------------------
(***************************************************************************)
(* The command migrate-to-root: it turns the service of a user into one of *)
(* the system.  The user service is stopped, its data are copied beside    *)
(* the target and renamed, the root service is started on them, and then   *)
(* the user service and its data are removed.  A marker in a file names    *)
(* the stage; the command can be cut off anywhere and run again, and rolls *)
(* back when a step fails before the root service was seen to work.        *)
(*                                                                         *)
(* A lock file admits one command at a time.  Checks of owners, modes and  *)
(* symbolic links are left out: nobody else changes these files here.      *)
(***************************************************************************)
EXTENDS Naturals

CONSTANTS
  MaxWrites,   \* bound: writes of the user service
  MaxRuns,     \* bound: runs of the command
  MaxTroubles  \* bound: failures, cuts and reboots

None == "none"

VARIABLES
  unit,      \* the user service: [present, enabled, active]
  was,       \* what the marker says of it
  source,    \* its data directory: "whole", "partly" or None
  written,   \* writes to that directory
  staging, target,  \* copies of it: [is, upto], with the writes they have
  root,      \* the root service: [present, active]
  marker,    \* stage in the marker file, or None
  at,        \* what the command does next, or "idle"
  stage,     \* the stage it works on
  restarted, \* the user service was started again, by a rollback or a reboot
  runs, troubles

services == <<unit, root>>
data     == <<source, written, staging, target>>
vars == <<services, was, data, marker, at, stage, restarted, runs, troubles>>

Nothing == [is |-> None, upto |-> 0]

Init ==
  /\ unit \in [present : {TRUE}, enabled : BOOLEAN, active : BOOLEAN]
  /\ was = unit
  /\ source = "whole" /\ written = 0
  /\ staging = Nothing /\ target = Nothing
  /\ root = [present |-> FALSE, active |-> FALSE]
  /\ marker = None /\ at = "idle" /\ stage = None
  /\ restarted = FALSE /\ runs = 0 /\ troubles = 0

Trouble == troubles < MaxTroubles /\ troubles' = troubles + 1
Calm    == UNCHANGED troubles

Go(from, to) == at = from /\ at' = to
Quiet == UNCHANGED <<was, written, stage, restarted, runs>>

(* MarkerStore.Save: an error leaves the old file or the new one.          *)
Save(s, then, otherwise) ==
  \/ Calm /\ marker' = s /\ at' = then
  \/ Trouble /\ marker' \in {marker, s} /\ at' = otherwise

-----------------------------------------------------------------------------
(* The services.                                                           *)

Write ==
  /\ unit.active /\ written < MaxWrites
  /\ written' = written + 1
  /\ UNCHANGED <<services, was, source, staging, target, marker, at, stage, restarted, runs,
                 troubles>>

Reboot ==
  /\ Trouble /\ at' = "idle"
  /\ unit' = [unit EXCEPT !.active = unit.present /\ unit.enabled]
  /\ root' = [root EXCEPT !.active = root.present]
  /\ restarted' = (restarted \/ unit'.active)
  /\ UNCHANGED <<was, data, marker, stage, runs>>

CutOff ==
  /\ at # "idle" /\ Trouble /\ at' = "idle"
  /\ UNCHANGED <<services, was, data, marker, stage, restarted, runs>>

-----------------------------------------------------------------------------
(* Forward.                                                                *)

Continue == [prepared |-> "disable", source_disabled |-> "copy", data_staged |-> "commit",
             target_committed |-> "starting", system_starting |-> "recheck",
             system_health_verified |-> "verify"]

(* Migrate: the first run inspects and prepares, the others resume.        *)
Migrate ==
  /\ at = "idle" /\ runs < MaxRuns /\ runs' = runs + 1
  /\ IF marker = None
     THEN /\ unit.present /\ ~root.present
          /\ staging = Nothing /\ target = Nothing
          /\ was' = unit /\ stage' = "prepared" /\ at' = "prepare"
     ELSE was' = was /\ stage' = marker /\ at' = Continue[marker]
  /\ UNCHANGED <<services, data, marker, restarted, troubles>>

Prepare ==
  /\ at = "prepare" /\ Save("prepared", "disable", "idle")
  /\ UNCHANGED <<services, source, staging, target>> /\ Quiet

(* The stages that are recorded before the next step is done.              *)
Record(from, s, then) ==
  /\ at = from /\ Save(s, then, "undo") /\ stage' = s
  /\ UNCHANGED <<services, was, data, restarted, runs>>

Disable ==
  /\ at = "disable"
  /\ \/ /\ unit.present /\ Calm /\ at' = "disabled"
        /\ unit' = [unit EXCEPT !.enabled = FALSE, !.active = FALSE] /\ restarted' = FALSE
     \/ /\ unit.present /\ Trouble /\ at' = "undo" /\ restarted' = restarted
        /\ unit' \in {unit, [unit EXCEPT !.enabled = FALSE, !.active = FALSE]}
     \/ /\ ~unit.present /\ Calm /\ at' = "undo"
        /\ UNCHANGED <<unit, restarted>>
  /\ UNCHANGED <<root, data, was, marker, stage, runs>>

SourceDisabled == Record("disabled", "source_disabled", "copy")

(* FilesystemMover.Stage refuses to use what an earlier run has left.      *)
CreateStaging ==
  /\ at = "copy"
  /\ \/ staging = Nothing /\ staging' = [is |-> "partly", upto |-> 0] /\ at' = "copying"
     \/ staging # Nothing /\ staging' = staging /\ at' = "undo"
  /\ UNCHANGED <<services, source, target, marker, troubles>> /\ Quiet

Copy ==
  /\ at = "copying"
  /\ \/ /\ source = "whole" /\ Calm /\ at' = "staged"
        /\ staging' = [is |-> "whole", upto |-> written]
     \/ Trouble /\ staging' \in {staging, Nothing} /\ at' = "undo"
  /\ UNCHANGED <<services, source, target, marker>> /\ Quiet

DataStaged == Record("staged", "data_staged", "commit")

Commit ==
  /\ at = "commit"
  /\ \/ /\ staging.is = "whole" /\ target = Nothing
        /\ target' = staging /\ staging' = Nothing
        /\ \/ Calm /\ at' = "committed"
           \/ Trouble /\ at' = "undo"
     \/ /\ UNCHANGED <<staging, target>> /\ at' = "undo"
        /\ IF staging.is = "whole" /\ target = Nothing THEN Trouble ELSE Calm
  /\ UNCHANGED <<services, source, marker>> /\ Quiet

TargetCommitted == Record("committed", "target_committed", "starting")
SystemStarting  == Record("starting", "system_starting", "install")

(* installSystemExecutable undoes itself when it fails.                    *)
Install ==
  /\ at = "install"
  /\ \/ /\ target.is = "whole" /\ Calm /\ at' = "health"
        /\ root' = [present |-> TRUE, active |-> TRUE]
     \/ /\ target.is = "whole" /\ Trouble /\ at' = "undo"
        /\ root' = [present |-> FALSE, active |-> FALSE]
     \/ target.is # "whole" /\ Calm /\ at' = "undo" /\ root' = root
  /\ UNCHANGED <<unit, source, staging, target, marker>> /\ Quiet

(* The check is of the state of the unit and of the address, which is that *)
(* of the user service.                                                    *)
Healthy == root.active /\ target.is = "whole"

HealthVerified ==
  /\ at \in {"health", "recheck"}
  /\ \/ Healthy /\ Calm /\ at' = "verified"
     \/ Healthy /\ Trouble /\ at' = "undo"
     \/ ~Healthy /\ Calm /\ at' = "undo"
  /\ UNCHANGED <<services, source, staging, target, marker>> /\ Quiet

(* A failure leaves everything for the next run.                           *)
RecordVerified ==
  /\ at = "verified" /\ Save("system_health_verified", "remove unit", "idle")
  /\ stage' = "system_health_verified"
  /\ UNCHANGED <<services, was, data, restarted, runs>>

Verify ==
  /\ at = "verify"
  /\ \/ Healthy /\ Calm /\ at' = "remove unit"
     \/ Healthy /\ Trouble /\ at' = "idle"
     \/ ~Healthy /\ Calm /\ at' = "idle"
  /\ UNCHANGED <<services, source, staging, target, marker>> /\ Quiet

-----------------------------------------------------------------------------
(* cleanupSource.                                                          *)

Gone == [present |-> FALSE, enabled |-> FALSE, active |-> FALSE]

RemoveUnit ==
  /\ at = "remove unit"
  /\ \/ Calm /\ unit' = Gone /\ at' = "remove data"
     \/ /\ Trouble /\ at' = "idle"
        /\ unit' \in {unit, [unit EXCEPT !.enabled = FALSE, !.active = FALSE], Gone}
  /\ UNCHANGED <<root, source, staging, target, marker>> /\ Quiet

RemoveData ==
  /\ at = "remove data"
  /\ \/ source # None /\ source' = "partly" /\ Calm /\ at' = at
     \/ source' = None /\ Calm /\ at' = "remove marker"
     \/ Trouble /\ source' = source /\ at' = "idle"
  /\ UNCHANGED <<services, staging, target, marker>> /\ Quiet

(* The last step of a migration and of a rollback.                         *)
RemoveMarker ==
  /\ at = "remove marker" /\ at' = "idle"
  /\ \/ Calm /\ marker' = None
     \/ Trouble /\ marker' \in {marker, None}
  /\ UNCHANGED <<services, source, staging, target>> /\ Quiet

-----------------------------------------------------------------------------
(* rollback: errors are collected, and only one of Restore keeps the       *)
(* marker.                                                                 *)

(* Uninstall ignores the error of the command that stops the service.      *)
UndoRoot ==
  /\ Go("undo", "drop target")
  /\ \/ stage # "system_starting" /\ root' = root /\ Calm
     \/ /\ stage = "system_starting" /\ Calm
        /\ root' = [present |-> FALSE, active |-> FALSE]
     \/ /\ stage = "system_starting" /\ Trouble
        /\ root' = [present |-> TRUE, active |-> FALSE]
  /\ UNCHANGED <<unit, source, staging, target, marker>> /\ Quiet

DropTarget ==
  /\ Go("drop target", "drop staging")
  /\ \/ Calm /\ target' = Nothing
     \/ target # Nothing /\ Trouble /\ target' \in {target, [target EXCEPT !.is = "partly"]}
  /\ UNCHANGED <<services, source, staging, marker>> /\ Quiet

DropStaging ==
  /\ Go("drop staging", "restore")
  /\ \/ Calm /\ staging' = Nothing
     \/ /\ staging # Nothing /\ Trouble
        /\ staging' \in {staging, [staging EXCEPT !.is = "partly"]}
  /\ UNCHANGED <<services, source, target, marker>> /\ Quiet

NotRestored_Final == "remove marker"   \* mutant: the marker goes all the same
NotRestored == "idle"

Restore ==
  /\ at = "restore"
  /\ \/ Calm /\ unit' = was /\ at' = "remove marker"
     \/ /\ Trouble /\ at' = NotRestored
        /\ unit' \in {unit, [was EXCEPT !.active = unit.active], was}
  /\ restarted' = (restarted \/ unit'.active)
  /\ UNCHANGED <<root, source, staging, target, marker, was, written, stage, runs>>

-----------------------------------------------------------------------------
Next ==
  \/ Write \/ Reboot \/ CutOff
  \/ Migrate \/ Prepare \/ Disable \/ SourceDisabled \/ CreateStaging \/ Copy \/ DataStaged
  \/ Commit \/ TargetCommitted \/ SystemStarting \/ Install \/ HealthVerified
  \/ RecordVerified \/ Verify \/ RemoveUnit \/ RemoveData \/ RemoveMarker
  \/ UndoRoot \/ DropTarget \/ DropStaging \/ Restore

Spec == Init /\ [][Next]_vars

-----------------------------------------------------------------------------
TypeOK ==
  /\ source \in {None, "partly", "whole"}
  /\ marker \in DOMAIN Continue \cup {None}
  /\ at \in STRING

Complete == target.is = "whole" /\ (target.upto = written \/ restarted)
Moved    == ~unit.present /\ source = None /\ root.present /\ Complete

(* A reboot starts what is enabled.                                        *)
AsItWas == source = "whole" /\ unit \in {was, [was EXCEPT !.active = was.enabled]}

(* README_EN.md:84, servicemigration/service.go:226, 239: whenever no      *)
(* migration is marked, either the user service and its data are as they   *)
(* were, or the root service has taken over with all that was written; and *)
(* in between the data exist as a whole.  Whatever fails, and wherever the *)
(* command is cut off or run again.  (If a rollback started the user       *)
(* service and then left the marker, the next run goes on where the last   *)
(* one was, and copies the data while they are being written.)             *)
MigrationIsAtomic ==
  /\ (at = "idle" /\ marker = None) => (Moved \/ AsItWas)
  /\ source # "whole" => Complete
=============================================================================
