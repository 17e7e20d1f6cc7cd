------------------------- MODULE RestoreVerification -------------------------
(***************************************************************************)
(* restoreverification.Service for one task: a verification restores part  *)
(* of the latest good snapshot into a directory of its own, reads what it  *)
(* has restored, removes the directory and records the evidence.  What it  *)
(* cannot remove is left for a cleanup, and so is what a restart cuts off. *)
(*                                                                         *)
(* Nothing routes or dispatches Run and SavePolicy at present (server.go   *)
(* (httpapi):578-579, 598-600 register reads, deletion and clean-up); they *)
(* are modelled as they are written.  Every statement and every operation  *)
(* on the file system may fail.                                            *)
(***************************************************************************)
EXTENDS Naturals

CONSTANTS
  Attempts,      \* verifications, by their ids
  MaxSnapshot,   \* bound on backups of the task, for TLC
  MaxRestarts    \* bound on restarts, for TLC

VARIABLES
  task,      \* "enabled", "disabled" or "gone"
  policy,    \* whether the task has a policy
  dropping,  \* a deletion of the policy has found nothing to clean up
  good,      \* snapshot of the latest successful run of the task, 0 for none
  held,      \* snapshots in the repository
  active,    \* Service.active
  pc,        \* where each verification and its cleanup are
  record,    \* rows of restore_verifications
  content,   \* the directory of each verification
  restarts

vars == <<task, policy, dropping, good, held, active, pc, record, content, restarts>>

None    == "none"
Partial == "partial"
Whole   == "whole"

Absent == [status |-> None, cleanup |-> None, snapshot |-> 0]

Resting == {"new", "done"}
Working == \E v \in Attempts : pc[v] \notin Resting

Init ==
  /\ task = "enabled" /\ policy = FALSE /\ dropping = FALSE
  /\ good = 0 /\ held = {} /\ active = FALSE
  /\ pc = [v \in Attempts |-> "new"]
  /\ record = [v \in Attempts |-> Absent]
  /\ content = [v \in Attempts |-> None]
  /\ restarts = 0

Left(v) == content[v] # None

Move(v, p) == pc' = [pc EXCEPT ![v] = p]
Fill(v, h) == content' = [content EXCEPT ![v] = h]
World      == UNCHANGED <<task, policy, dropping, good, held, restarts>>

-----------------------------------------------------------------------------
(* The task, its backups and its policy.                                   *)

Backup ==
  /\ task = "enabled" /\ good < MaxSnapshot
  /\ good' = good + 1 /\ held' = held \cup {good + 1}
  /\ UNCHANGED <<task, policy, dropping, active, pc, record, content, restarts>>

Forget ==
  /\ \E s \in held : held' = held \ {s}
  /\ UNCHANGED <<task, policy, dropping, good, active, pc, record, content, restarts>>

SavePolicy ==
  /\ task = "enabled"
  /\ ~policy /\ policy' = TRUE
  /\ UNCHANGED <<task, dropping, good, held, active, pc, record, content, restarts>>

CleanupNeeded == \E v \in Attempts : record[v].cleanup = "required"

CountCleanups ==
  /\ policy /\ ~dropping /\ ~CleanupNeeded
  /\ dropping' = TRUE
  /\ UNCHANGED <<task, policy, good, held, active, pc, record, content, restarts>>

DropPolicy ==
  /\ dropping
  /\ policy' = FALSE /\ dropping' = FALSE
  /\ UNCHANGED <<task, good, held, active, pc, record, content, restarts>>

Disable ==
  /\ task = "enabled" /\ task' = "disabled"
  /\ UNCHANGED <<policy, dropping, good, held, active, pc, record, content, restarts>>

(* Refused while an operation of the task is open; takes its rows with it. *)
DeleteTask ==
  /\ task = "disabled" /\ ~Working
  /\ task' = "gone" /\ policy' = FALSE
  /\ record' = [v \in Attempts |-> Absent]
  /\ UNCHANGED <<dropping, good, held, active, pc, content, restarts>>

-----------------------------------------------------------------------------
(* Service.Run.                                                            *)

Begin(v) ==
  /\ pc[v] = "new" /\ ~active
  /\ policy /\ task = "enabled"
  /\ active' = TRUE
  /\ Move(v, "begun")
  /\ UNCHANGED <<record, content>> /\ World

GiveUp(v) ==
  /\ pc[v] = "begun"
  /\ active' = FALSE
  /\ Move(v, "done")
  /\ UNCHANGED <<record, content>> /\ World

(* The latest good snapshot is read and the row is made.                   *)
CreateRecord(v) ==
  /\ pc[v] = "begun" /\ good > 0
  /\ record' = [record EXCEPT
       ![v] = [status |-> "running", cleanup |-> "pending", snapshot |-> good]]
  /\ Move(v, "created")
  /\ UNCHANGED <<active, content>> /\ World

MakeDirectory(v) ==
  /\ pc[v] = "created"
  /\ \/ Fill(v, Partial) /\ Move(v, "restoring")
     \/ Move(v, "failed") /\ UNCHANGED content
  /\ UNCHANGED <<active, record>> /\ World

RestoreDirectory(v) ==
  /\ pc[v] = "restoring"
  /\ \/ /\ record[v].snapshot \in held
        /\ Fill(v, Whole) /\ Move(v, "restored")
     \/ Move(v, "failed") /\ UNCHANGED content
  /\ UNCHANGED <<active, record>> /\ World

HashRestoredTree(v) ==
  /\ pc[v] = "restored"
  /\ \E p \in {"verified", "failed"} : Move(v, p)
  /\ UNCHANGED <<active, record, content>> /\ World

(* Success and failure of the work are kept apart until the row says which. *)
RemoveAll(v) ==
  /\ pc[v] \in {"verified", "failed"}
  /\ \/ /\ Fill(v, None)
        /\ Move(v, IF pc[v] = "verified" THEN "success" ELSE "failure")
     \/ /\ Left(v) /\ Fill(v, Partial)
        /\ Move(v, "leftover")
  /\ UNCHANGED <<active, record>> /\ World

Outcome(p) ==
  CASE p = "success"  -> [status |-> "success", cleanup |-> "removed"]
    [] p = "failure"  -> [status |-> "failed", cleanup |-> "removed"]
    [] p = "leftover" -> [status |-> "cleanup_required", cleanup |-> "required"]

(* A statement that fails leaves the row running until the next start.     *)
Finish(v) ==
  /\ pc[v] \in {"success", "failure", "leftover"}
  /\ \/ record' = [record EXCEPT ![v].status = Outcome(pc[v]).status,
                                 ![v].cleanup = Outcome(pc[v]).cleanup]
     \/ UNCHANGED record
  /\ active' = FALSE
  /\ Move(v, "done")
  /\ UNCHANGED content /\ World

-----------------------------------------------------------------------------
(* Service.Cleanup.                                                        *)

Cleanup(v) ==
  /\ pc[v] = "done" /\ record[v].cleanup = "required"
  /\ Move(v, "cleaning")
  /\ UNCHANGED <<active, record, content>> /\ World

RemoveLeftover(v) ==
  /\ pc[v] = "cleaning"
  /\ \/ Fill(v, None) /\ Move(v, "resolving")
     \/ Left(v) /\ Fill(v, Partial) /\ Move(v, "done")
  /\ UNCHANGED <<active, record>> /\ World

Resolve(v) ==
  /\ pc[v] = "resolving"
  /\ \/ record[v].cleanup = "required" /\ record' = [record EXCEPT ![v].cleanup = "removed"]
     \/ UNCHANGED record
  /\ Move(v, "done")
  /\ UNCHANGED <<active, content>> /\ World

(* Mutant: a verification that was cut off is only marked.                 *)
Interrupted_Pending(row) ==
  IF row.status = "running" THEN [row EXCEPT !.status = "interrupted"] ELSE row

Interrupted(row) ==
  IF row.status = "running" THEN [row EXCEPT !.status = "interrupted", !.cleanup = "required"]
                            ELSE row

(* The service stops wherever it is, and recovers its rows at the start.   *)
Restart ==
  /\ restarts < MaxRestarts /\ restarts' = restarts + 1
  /\ pc' = [v \in Attempts |-> IF pc[v] = "new" THEN "new" ELSE "done"]
  /\ record' = [v \in Attempts |-> Interrupted(record[v])]
  /\ active' = FALSE /\ dropping' = FALSE
  /\ UNCHANGED <<task, policy, good, held, content>>

Next ==
  \/ Backup \/ Forget \/ SavePolicy \/ CountCleanups \/ DropPolicy \/ Disable \/ DeleteTask
  \/ \E v \in Attempts :
       \/ Begin(v) \/ GiveUp(v) \/ CreateRecord(v) \/ MakeDirectory(v) \/ RestoreDirectory(v)
       \/ HashRestoredTree(v) \/ RemoveAll(v) \/ Finish(v)
       \/ Cleanup(v) \/ RemoveLeftover(v) \/ Resolve(v)
  \/ Restart

Spec == Init /\ [][Next]_vars

-----------------------------------------------------------------------------
(* restoreverification/service.go Run and Cleanup, store                   *)
(* RecoverInterruptedRestoreVerifications: while its task exists, a        *)
(* directory with restored data has a row that says so, or that the next   *)
(* start will make say so; and evidence of success is never left beside    *)
(* data that was not removed.                                              *)
LeftoversAreRecorded ==
  \A v \in Attempts : Left(v) /\ task # "gone" =>
    record[v].status = "running" \/ record[v].cleanup = "required"
=============================================================================
