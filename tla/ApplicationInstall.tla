-------------------------- MODULE ApplicationInstall --------------------------
(***************************************************************************)
(* The command install-app for the service of a user: it copies the        *)
(* program, its checksum and the programs for Agents to their place,       *)
(* registers the service and waits until it answers.  It replaces an       *)
(* earlier installation, or the service restic-control of earlier          *)
(* releases, which is parked while the new one is tried; each failure has  *)
(* its own way back.                                                       *)
(*                                                                         *)
(* One thing goes wrong in a command: what the way back does when it fails *)
(* itself is left out, and so is an error after the rename of a file.      *)
(***************************************************************************)
None == "none"

VARIABLES
  binary, sum, companions,  \* installed files: "old", "new" or None
  unit,       \* definition of the service shadoc: "old", "new" or None
  legacy,     \* definition of restic-control: "placed", "parked" or None
  process,    \* what runs: "legacy", a program, or None
  at,         \* what the command does next, or how it ended
  good,       \* InstallCurrent's knownGood
  current,    \* the definition snapshotCurrentService has seen
  parked,     \* suspendLegacyService found a definition
  was         \* the state before the command

files    == <<binary, sum, companions>>
services == <<unit, legacy, process>>
local    == <<good, current, parked, was>>
vars     == <<files, services, at, local>>

State == [files |-> files, unit |-> unit, legacy |-> legacy, process |-> process]

Nowhere == /\ files = <<None, None, None>> /\ unit = None
           /\ \/ legacy = None /\ process = None
              \/ legacy = "placed" /\ process = "legacy"
              \/ legacy = "parked" /\ process = None

(* With a checksum, or by a release that had none; or a command was cut    *)
(* off before it registered the service.                                   *)
Somewhere == /\ binary = "old" /\ sum \in {"old", None} /\ companions \in {"old", None}
             /\ \/ unit = "old" /\ legacy = None /\ process = "old"
                \/ unit = None /\ legacy = "placed" /\ process = "legacy"

Init ==
  /\ binary \in {None, "old"} /\ sum \in {None, "old"} /\ companions \in {None, "old"}
  /\ unit \in {None, "old"} /\ legacy \in {None, "placed", "parked"}
  /\ process \in {None, "legacy", "old"}
  /\ Nowhere \/ Somewhere
  /\ at = "read" /\ good = None /\ current = None /\ parked = FALSE
  /\ was = State

Goto(from, to) == at = from /\ at' = to

-----------------------------------------------------------------------------
(* InstallCurrent.                                                         *)

Read ==
  /\ Goto("read", "copy") /\ good' = binary
  /\ UNCHANGED <<files, services, current, parked, was>>

Copy ==
  /\ \/ Goto("copy", "sum") /\ binary' = "new"
     \/ Goto("copy", "failed") /\ binary' = binary
  /\ UNCHANGED <<sum, companions, services, local>>

Sum ==
  /\ \/ Goto("sum", "companions") /\ sum' = "new"
     \/ Goto("sum", "restore") /\ sum' = sum
  /\ UNCHANGED <<binary, companions, services, local>>

(* installCompanions puts back what it has replaced.                       *)
Companions ==
  /\ \/ Goto("companions", "suspend") /\ companions' = "new"
     \/ Goto("companions", "restore") /\ companions' = companions
  /\ UNCHANGED <<binary, sum, services, local>>

(* installExecutableForScope: snapshotCurrentService and                   *)
(* suspendLegacyService, which undoes itself.                              *)
Suspend ==
  /\ current' = unit /\ parked' = (legacy # None)
  /\ \/ /\ Goto("suspend", "start")
        /\ legacy' = IF legacy = None THEN None ELSE "parked"
        /\ process' = IF process = "legacy" THEN None ELSE process
     \/ Goto("suspend", "undo install") /\ UNCHANGED <<legacy, process>>
  /\ UNCHANGED <<files, unit, good, was>>

(* Write the definition, reload, enable, restart and verify.               *)
Start ==
  /\ unit' = "new"
  /\ \/ Goto("start", "finalize") /\ process' = binary
     \/ Goto("start", "roll back") /\ process' \in {process, None, binary}
  /\ UNCHANGED <<files, legacy, local>>

Finalize ==
  /\ \/ Goto("finalize", "health") /\ legacy' = None
     \/ /\ Goto("finalize", "roll back") /\ parked
        /\ legacy' \in {legacy, None}
  /\ UNCHANGED <<files, unit, process, local>>

(* rollbackNewService.                                                     *)
RollBack ==
  /\ Goto("roll back", "undo install") /\ unit' = current
  /\ legacy' = IF parked THEN "placed" ELSE None
  /\ process' = IF parked THEN "legacy" ELSE IF current # None THEN binary ELSE None
  /\ UNCHANGED <<files, local>>

Health ==
  /\ Goto("health", "succeeded") \/ Goto("health", "undo install")
  /\ UNCHANGED <<files, services, local>>

-----------------------------------------------------------------------------
(* The ways back.                                                          *)

Restored_Binary == binary' = good /\ sum' = sum   \* mutant: the checksum stays
Restored == binary' = good /\ sum' = good

RestoreBinary ==
  /\ Goto("restore", "failed") /\ Restored
  /\ UNCHANGED <<companions, services, local>>

(* uninstallForScope takes the service that is installed.                  *)
Uninstall ==
  IF unit # None
  THEN unit' = None /\ legacy' = legacy /\ process' = None
  ELSE IF legacy = "placed" THEN legacy' = None /\ unit' = unit /\ process' = None
  ELSE UNCHANGED services

(* The error of Install, or of the last health check.                      *)
UndoInstall ==
  /\ Goto("undo install", "failed") /\ Restored
  /\ companions' = was.files[3]
  /\ IF good # None
     THEN /\ UNCHANGED <<unit, legacy>>
          /\ process' = IF unit # None THEN good ELSE process
     ELSE Uninstall
  /\ UNCHANGED local

Next ==
  \/ Read \/ Copy \/ Sum \/ Companions \/ Suspend \/ Start \/ Finalize \/ RollBack \/ Health
  \/ RestoreBinary \/ UndoInstall

Spec == Init /\ [][Next]_vars

-----------------------------------------------------------------------------
(* appinstall/service.go:71, 108, serviceinstall/service.go:877: when the  *)
(* command fails, an installation that was there runs again: the old       *)
(* program, with a checksum that is its own, and the old companions, under *)
(* a definition; and the old service that was parked is not lost when the  *)
(* program was installed before.                                           *)
InstallRestores ==
  (at = "failed" /\ was.files[1] = "old") =>
    /\ binary = "old" /\ sum \in {"old", was.files[2]} /\ companions = was.files[3]
    /\ was.unit # None => (unit # None /\ process = "old")
    /\ was.unit = None => (process = "legacy" \/ (unit = "new" /\ process = "old"))

(* serviceinstall/service.go:777, service_test.go:330: the service of an   *)
(* earlier release is parked to be restored when the new one fails.        *)
LegacyRestored ==
  (at = "failed" /\ was.legacy # None) => legacy # None
=============================================================================
