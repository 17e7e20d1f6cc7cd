-------------------------- MODULE ApplicationUpdate --------------------------
(***************************************************************************)
(* The update of the service by itself.  A handler creates the row of the  *)
(* update and launches a helper in a unit of its own, which outlives the   *)
(* service: it downloads the release, keeps the current program, replaces  *)
(* it, writes its checksum, restarts the service and waits for an answer;  *)
(* when one of these fails it puts the former program back.  Its row tells *)
(* the user what happened.                                                 *)
(*                                                                         *)
(* A program, and the checksum of one, is a version.  Of the stages of a   *)
(* running row only health_verified is told apart, the one that a start of *)
(* the service does not spare.                                             *)
(***************************************************************************)
EXTENDS Naturals

CONSTANTS
  MaxUpdates,   \* bound: requests for an update
  MaxVersion,   \* bound: releases
  MaxTroubles   \* bound: failures, crashes and restarts of the service

Updates  == 1..MaxUpdates
Versions == 1..MaxVersion
None == 0

VARIABLES
  running,                    \* version of the service, None when stopped
  binary, checksum, previous, \* versions of the three files
  record,     \* row of each update: its status, for a failed one its stage
  young,      \* updates whose row was started less than ten minutes ago
  pc,         \* what the handler and then the helper of each does next
  target,     \* the version asked for
  kept,       \* the program the helper read before it replaced it
  attempted,  \* updates whose reporter has recorded a rollback
  troubles

files == <<binary, checksum, previous>>
vars  == <<running, files, record, young, pc, target, kept, attempted, troubles>>

Init ==
  /\ running = 1 /\ binary = 1 /\ checksum = 1 /\ previous = None
  /\ record = [u \in Updates |-> "none"] /\ pc = [u \in Updates |-> "idle"]
  /\ target = [u \in Updates |-> None] /\ kept = [u \in Updates |-> None]
  /\ young = {} /\ attempted = {} /\ troubles = 0

Trouble == troubles < MaxTroubles /\ troubles' = troubles + 1
Calm    == UNCHANGED troubles

Open == {"queued", "running", "health_verified"}
Runs(u) == record[u] \in {"running", "health_verified"}

At(u, from)   == pc[u] = from
Goto(u, next) == pc' = [pc EXCEPT ![u] = next]
Row(u, status) == record' = [record EXCEPT ![u] = status]
Rows == <<record, young>>
Told == <<target, kept, attempted>>

-----------------------------------------------------------------------------
(* The handler.                                                            *)

Authorize(u) ==
  /\ At(u, "idle") /\ Goto(u, "create") /\ running # None
  /\ \E v \in Versions : v > running /\ target' = [target EXCEPT ![u] = v]
  /\ \A x \in Updates : record[x] \notin Open
  /\ UNCHANGED <<running, files, Rows, kept, attempted, troubles>>

(* A unique index admits one open row.                                     *)
Indexed == \A x \in Updates : record[x] \notin Open

CreateOperation(u) ==
  /\ At(u, "create")
  /\ \/ Indexed /\ Row(u, "queued") /\ Goto(u, "start")
     \/ ~Indexed /\ Goto(u, "over") /\ UNCHANGED record
  /\ UNCHANGED <<running, files, young, Told, troubles>>

StartOperation(u) ==
  /\ At(u, "start")
  /\ \/ Calm /\ Row(u, "running") /\ young' = young \cup {u} /\ Goto(u, "launch")
     \/ Trouble /\ Goto(u, "give up") /\ UNCHANGED Rows
  /\ UNCHANGED <<running, files, Told>>

Launch(u) ==
  /\ At(u, "launch")
  /\ \/ Calm /\ Goto(u, "check")
     \/ Trouble /\ Goto(u, "give up")
  /\ UNCHANGED <<running, files, Rows, Told>>

(* FinishOperation: it needs an open row, and its error is not acted on.   *)
FinishOperation(u, from, status) ==
  /\ At(u, from) /\ Goto(u, "over")
  /\ \/ record[u] \in Open /\ Calm /\ Row(u, status)
     \/ record[u] \in Open /\ Trouble /\ UNCHANGED record
     \/ record[u] \notin Open /\ Calm /\ UNCHANGED record
  /\ UNCHANGED <<running, files, young, Told>>

GiveUp(u) == FinishOperation(u, "give up", "failed")

-----------------------------------------------------------------------------
(* The helper.  Do is one step: what it may have done when it fails is     *)
(* somewhat, and it comes after a stage is recorded, where it is.          *)

Do(u, from, reports, done, next, somewhat, otherwise) ==
  /\ At(u, from)
  /\ \/ (reports => Runs(u)) /\ Calm /\ done /\ Goto(u, next)
     \/ Trouble /\ somewhat /\ Goto(u, otherwise)
     \/ reports /\ ~Runs(u) /\ Calm /\ UNCHANGED <<running, files>> /\ Goto(u, otherwise)

Untouched == UNCHANGED <<running, files>>
Wrote(v)  == binary' = v /\ UNCHANGED <<running, checksum, previous>>
MayHaveWritten(v) == binary' \in {binary, v} /\ UNCHANGED <<running, checksum, previous>>
Summed(v) == checksum' = v /\ UNCHANGED <<running, binary, previous>>
MayHaveSummed(v) == checksum' \in {checksum, v} /\ UNCHANGED <<running, binary, previous>>

(* A command that fails may have stopped or started the service.           *)
Restarted == running' = binary /\ UNCHANGED files
MayHaveRestarted == running' \in {None, running, binary} /\ UNCHANGED files

Check(u) ==
  /\ At(u, "check") /\ Goto(u, IF record[u] = "running" THEN "fetch" ELSE "over")
  /\ UNCHANGED <<running, files, Rows, Told, troubles>>

Fetch(u) ==
  /\ Do(u, "fetch", TRUE, Untouched, "save", Untouched, "failed")
  /\ kept' = [kept EXCEPT ![u] = binary]
  /\ UNCHANGED <<Rows, target, attempted>>

Save(u) ==
  /\ Do(u, "save", TRUE, previous' = kept[u] /\ UNCHANGED <<running, binary, checksum>>,
        "replace", previous' \in {previous, kept[u]} /\ UNCHANGED <<running, binary, checksum>>,
        "failed")
  /\ UNCHANGED <<Rows, Told>>

(* An error of the directory's sync comes after the rename: no rollback.   *)
Replace(u) ==
  /\ Do(u, "replace", TRUE, Wrote(target[u]), "sum", MayHaveWritten(target[u]), "failed")
  /\ UNCHANGED <<Rows, Told>>

WriteChecksum(u) ==
  /\ Do(u, "sum", FALSE, Summed(target[u]), "restart", MayHaveSummed(target[u]), "rollback")
  /\ UNCHANGED <<Rows, Told>>

Restart(u) ==
  /\ Do(u, "restart", TRUE, Restarted, "verify", MayHaveRestarted, "rollback")
  /\ UNCHANGED <<Rows, Told>>

Wait(u) ==
  /\ Do(u, "verify", TRUE, running # None /\ Untouched, "report", Untouched, "rollback")
  /\ UNCHANGED <<Rows, Told>>

(* An error of this record is an error of the update, without a rollback.  *)
ReportHealth(u) ==
  /\ At(u, "report")
  /\ \/ Runs(u) /\ Calm /\ Row(u, "health_verified") /\ Goto(u, "success")
     \/ Runs(u) /\ Trouble /\ UNCHANGED record /\ Goto(u, "failed")
     \/ ~Runs(u) /\ Calm /\ UNCHANGED record /\ Goto(u, "failed")
  /\ UNCHANGED <<running, files, young, Told>>

(* rollback goes on when its stages cannot be recorded, but for the last.  *)
Attempt(u) == \/ UNCHANGED attempted
              \/ Runs(u) /\ attempted' = attempted \cup {u}

RollBack(u) ==
  /\ Do(u, "rollback", FALSE, Wrote(previous), "resum", MayHaveWritten(previous), "not restored")
  /\ Attempt(u)
  /\ UNCHANGED <<Rows, target, kept>>

Resum_Skipped(u) ==                    \* mutant: the record is left as it is
  /\ Do(u, "resum", FALSE, Untouched, "restart old", Untouched, "not restored")
  /\ UNCHANGED <<Rows, Told>>
Resum(u) ==
  /\ Do(u, "resum", FALSE, Summed(binary), "restart old", MayHaveSummed(binary), "not restored")
  /\ UNCHANGED <<Rows, Told>>

RestartOld(u) ==
  /\ Do(u, "restart old", FALSE, Restarted, "verify old", MayHaveRestarted, "not restored")
  /\ UNCHANGED <<Rows, Told>>

WaitOld(u) ==
  /\ Do(u, "verify old", TRUE, running # None /\ Untouched, "rolled back", Untouched,
        "not restored")
  /\ Attempt(u) /\ UNCHANGED <<Rows, target, kept>>

Succeed(u)    == FinishOperation(u, "success", "success")
Fail(u)       == FinishOperation(u, "failed", "failed")
RolledBack(u) == FinishOperation(u, "rolled back", "rolled_back")
NotRestored(u) ==
  FinishOperation(u, "not restored", IF u \in attempted THEN "rollback_failed" ELSE "failed")

-----------------------------------------------------------------------------
(* RecoverInterruptedOperations, when the service starts.                  *)

Spared(u) == record[u] = "running" /\ u \in young

Handling == {"create", "start", "launch", "give up"}

(* The service ends and is started again; in a reboot so do the helpers.   *)
StartService(ended) ==
  /\ Trouble /\ running' = binary
  /\ pc' = [u \in Updates |-> IF pc[u] \in ended THEN "over" ELSE pc[u]]
  /\ record' = [u \in Updates |->
                  IF record[u] \in Open /\ ~Spared(u) THEN "interrupted" ELSE record[u]]
  /\ UNCHANGED <<files, young, Told>>

HelperStates == {"check", "fetch", "save", "replace", "sum", "restart", "verify", "report",
                 "success", "failed", "rollback", "resum", "restart old", "verify old",
                 "rolled back", "not restored"}

ServiceRestarts == StartService(Handling)
Reboot          == StartService(Handling \cup HelperStates)

(* The contexts of a helper end before its row is ten minutes old.         *)
Age(u) ==
  /\ u \in young /\ pc[u] = "over" /\ young' = young \ {u}
  /\ UNCHANGED <<running, files, record, pc, Told, troubles>>

Next ==
  \/ \E u \in Updates :
       \/ Authorize(u) \/ CreateOperation(u) \/ StartOperation(u) \/ Launch(u) \/ GiveUp(u)
       \/ Check(u) \/ Fetch(u) \/ Save(u) \/ Replace(u) \/ WriteChecksum(u) \/ Restart(u)
       \/ Wait(u) \/ ReportHealth(u) \/ RollBack(u) \/ Resum(u) \/ RestartOld(u) \/ WaitOld(u)
       \/ Succeed(u) \/ Fail(u) \/ RolledBack(u) \/ NotRestored(u) \/ Age(u)
  \/ ServiceRestarts \/ Reboot

Spec == Init /\ [][Next]_vars

-----------------------------------------------------------------------------
(* One program: that of the file is also the one that runs and the one     *)
(* the record beside it is of.                                             *)
Installed(v) == binary = v /\ checksum = v /\ running = v

Becomes(u, status) == record[u] # status /\ record'[u] = status

Honest ==
  \A u \in Updates :
    /\ Becomes(u, "success") => Installed(target[u])
    /\ Becomes(u, "rolled_back") => Installed(kept[u])

(* managed_update_command.go:144, appinstall/service.go:281: when a row    *)
(* becomes a success the new program runs and passes the integrity check,  *)
(* and when it says that the update was rolled back the program that was   *)
(* installed before does; with two requests at a time, restarts of the     *)
(* service under the helper, and helpers that were cut off.                *)
UpdateIsHonest == [][Honest]_vars
=============================================================================
