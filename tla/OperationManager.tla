--------------------------- MODULE OperationManager ---------------------------
(***************************************************************************)
(* operation.Manager: the long jobs the HTTP handlers start (password      *)
(* rotation, initialisation, restores, Agent management, ...).  A job has  *)
(* a row in the store, a goroutine, and possibly a key that no two jobs    *)
(* hold at a time.  Handlers start and cancel jobs, Close ends the         *)
(* service, and a restart recovers the rows.                               *)
(*                                                                         *)
(* The manager's mutex is not held over the statements of the store: what  *)
(* it protects is one action, every statement another, and a statement may *)
(* fail.  What a job does is its outcome; stages, details and the audit    *)
(* log, whose errors are ignored, are left out.                            *)
(***************************************************************************)
EXTENDS Naturals, FiniteSets

CONSTANTS
  Operations,    \* calls of Start and StartUnique, with the ids they draw
  Keys,          \* keys of StartUnique
  KeyOf,         \* key of each call, NoKey for Start
  Free,          \* a key that is not in Manager.unique
  Reserved,      \* the empty id: the operation of this key is starting
  NoKey,
  MaxFaults,     \* bound on operations with a failing statement, for TLC
  MaxRestarts    \* bound on restarts, for TLC

ASSUME ParametersAssumption ==
  /\ KeyOf \in [Operations -> Keys \cup {NoKey}]
  /\ NoKey \notin Keys
  /\ Free \notin Operations \cup {Reserved}
  /\ Reserved \notin Operations
  /\ MaxFaults \in Nat
  /\ MaxRestarts \in Nat

VARIABLES
  pc,         \* where each call and its goroutine are
  unique,     \* Manager.unique
  active,     \* Manager.active
  closed,     \* Manager.closed
  closer,     \* where Server.Shutdown is
  cancelled,  \* operations whose own context is cancelled
  verdict,    \* status that classify returned
  record,     \* status of the row in the store
  lost,       \* operations one of whose statements failed in this process
  restarts

vars == <<pc, unique, active, closed, closer, cancelled, verdict, record, lost,
          restarts>>

-----------------------------------------------------------------------------

Terminal == {"success", "failed", "cancelled", "cleanup_required"}
Open     == {"queued", "running"}

Calling == {"creating", "launching", "closing", "failing"}
Running == {"starting", "unstarted", "working", "finishing", "leaving"}
Counted == Running \cup {"left"}        \* those Manager.wg counts

Shutting == closer # "idle"

Init ==
  /\ pc = [o \in Operations |-> "idle"]
  /\ unique = [k \in Keys |-> Free]
  /\ active = {}
  /\ closed = FALSE
  /\ closer = "idle"
  /\ cancelled = {}
  /\ verdict = [o \in Operations |-> "none"]
  /\ record = [o \in Operations |-> "absent"]
  /\ lost = {}
  /\ restarts = 0

Goto(o, from, to) == pc[o] = from /\ pc' = [pc EXCEPT ![o] = to]

CanFail == Cardinality(lost) < MaxFaults

KeyIsFree(o) == KeyOf[o] \in Keys => unique[KeyOf[o]] = Free

KeyBecomes(o, value) ==
  unique' = IF KeyOf[o] = NoKey THEN unique ELSE [unique EXCEPT ![KeyOf[o]] = value]

(* A statement on the row of o: it succeeds, or fails and changes nothing. *)
Statement(o, status) ==
  \/ record' = [record EXCEPT ![o] = status] /\ lost' = lost
  \/ CanFail /\ lost' = lost \cup {o} /\ record' = record

-----------------------------------------------------------------------------
(* Starting.                                                               *)

Reserve_Unchecked(o) ==        \* mutant: the key is taken whoever holds it
  /\ Goto(o, "idle", "creating")
  /\ KeyBecomes(o, Reserved)
  /\ UNCHANGED <<active, closed, closer, cancelled, verdict, record, lost, restarts>>

(* StartUnique: a key in use gives the caller the operation that holds it, *)
(* or an error while that one is starting.  Start takes no key.            *)
Reserve(o) ==
  /\ \/ /\ KeyIsFree(o)
        /\ Goto(o, "idle", "creating")
        /\ KeyBecomes(o, Reserved)
     \/ /\ ~KeyIsFree(o)
        /\ Goto(o, "idle", "refused")
        /\ UNCHANGED unique
  /\ UNCHANGED <<active, closed, closer, cancelled, verdict, record, lost, restarts>>

Create(o) ==
  /\ \/ /\ Goto(o, "creating", "launching")
        /\ record' = [record EXCEPT ![o] = "queued"]
        /\ UNCHANGED lost
     \/ /\ CanFail
        /\ Goto(o, "creating", "failing")
        /\ lost' = lost \cup {o}
        /\ UNCHANGED record
  /\ UNCHANGED <<unique, active, closed, closer, cancelled, verdict, restarts>>

(* start, under the mutex: a closed manager takes no operation.            *)
Launch(o) ==
  /\ \/ /\ ~closed
        /\ Goto(o, "launching", "starting")
        /\ active' = active \cup {o}
        /\ KeyBecomes(o, o)
     \/ /\ closed
        /\ Goto(o, "launching", "closing")
        /\ UNCHANGED <<unique, active>>
  /\ UNCHANGED <<closed, closer, cancelled, verdict, record, lost, restarts>>

(* The row of an operation the closed manager did not take.                *)
FinishRefused(o) ==
  /\ Goto(o, "closing", "failing")
  /\ Statement(o, "cancelled")
  /\ UNCHANGED <<unique, active, closed, closer, cancelled, verdict, restarts>>

Abandon_KeepsKey(o) ==         \* mutant: a failed start leaves its key reserved
  /\ Goto(o, "failing", "refused")
  /\ UNCHANGED <<unique, active, closed, closer, cancelled, verdict, record, lost, restarts>>

(* StartUnique deletes the key of a start that failed.                     *)
Abandon(o) ==
  /\ Goto(o, "failing", "refused")
  /\ KeyBecomes(o, Free)
  /\ UNCHANGED <<active, closed, closer, cancelled, verdict, record, lost, restarts>>

-----------------------------------------------------------------------------
(* The goroutine.                                                          *)

Begin(o) ==
  /\ \/ /\ record[o] = "queued"
        /\ Goto(o, "starting", "working")
        /\ record' = [record EXCEPT ![o] = "running"]
        /\ UNCHANGED lost
     \/ /\ record[o] # "queued" \/ CanFail
        /\ Goto(o, "starting", "unstarted")
        /\ lost' = IF record[o] = "queued" THEN lost \cup {o} ELSE lost
        /\ UNCHANGED record
  /\ UNCHANGED <<unique, active, closed, closer, cancelled, verdict, restarts>>

FinishUnstarted(o) ==
  /\ Goto(o, "unstarted", "leaving")
  /\ \/ record[o] \in Open /\ Statement(o, "failed")
     \/ record[o] \notin Open /\ UNCHANGED <<record, lost>>
  /\ UNCHANGED <<unique, active, closed, closer, cancelled, verdict, restarts>>

ContextDone(o) == o \in cancelled \/ Shutting

(* classify: no error is a success, any error of a cancelled context is a  *)
(* cancellation, an error that left something behind asks for a cleanup.   *)
(* A job may also run into a deadline of its own.                          *)
Verdicts(o) ==
  {"success", "cancelled"} \cup
  (IF ContextDone(o) THEN {} ELSE {"failed", "cleanup_required"})

Work(o) ==
  /\ Goto(o, "working", "finishing")
  /\ \E v \in Verdicts(o) : verdict' = [verdict EXCEPT ![o] = v]
  /\ UNCHANGED <<unique, active, closed, closer, cancelled, record, lost, restarts>>

(* The error of FinishOperation is dropped.                                *)
Finish(o) ==
  /\ Goto(o, "finishing", "leaving")
  /\ \/ record[o] \in Open /\ Statement(o, verdict[o])
     \/ record[o] \notin Open /\ UNCHANGED <<record, lost>>
  /\ UNCHANGED <<unique, active, closed, closer, cancelled, verdict, restarts>>

(* The deferred call, under the mutex; it also closes done, on which Wait  *)
(* waits.                                                                  *)
Leave(o) ==
  /\ Goto(o, "leaving", "left")
  /\ active' = active \ {o}
  /\ unique' = [k \in Keys |-> IF KeyOf[o] = k /\ unique[k] = o THEN Free ELSE unique[k]]
  /\ cancelled' = cancelled \cup {o}
  /\ UNCHANGED <<closed, closer, verdict, record, lost, restarts>>

(* wg.Done                                                                 *)
Depart(o) ==
  /\ Goto(o, "left", "ended")
  /\ UNCHANGED <<unique, active, closed, closer, cancelled, verdict, record, lost, restarts>>

-----------------------------------------------------------------------------
(* Cancelling, cleaning up, closing and restarting.                        *)

Cancel(o) ==
  /\ o \in active
  /\ cancelled' = cancelled \cup {o}
  /\ UNCHANGED <<pc, unique, active, closed, closer, verdict, record, lost, restarts>>

(* The administrator removes what the job left behind.                     *)
ResolveCleanup(o) ==
  /\ record[o] = "cleanup_required"
  /\ record' = [record EXCEPT ![o] = "failed"]
  /\ UNCHANGED <<pc, unique, active, closed, closer, cancelled, verdict, lost, restarts>>

(* Server.Shutdown cancels the parent context, then calls Close.           *)
CancelParent ==
  /\ closer = "idle"
  /\ closer' = "cancelled"
  /\ UNCHANGED <<pc, unique, active, closed, cancelled, verdict, record, lost, restarts>>

Close ==
  /\ closer = "cancelled"
  /\ closer' = "waiting"
  /\ closed' = TRUE
  /\ cancelled' = cancelled \cup active
  /\ UNCHANGED <<pc, unique, active, verdict, record, lost, restarts>>

CloseReturns ==
  /\ closer = "waiting"
  /\ \A o \in Operations : pc[o] \notin Counted
  /\ closer' = "returned"
  /\ UNCHANGED <<pc, unique, active, closed, cancelled, verdict, record, lost, restarts>>

(* RecoverInterruptedOperations; the rows of an application update, which  *)
(* ApplicationUpdate models, are no operations of the manager.             *)
Recovered(status) == IF status \in Open THEN "failed" ELSE status

(* The process stops, orderly or not, at any time, and New starts again.   *)
Restart ==
  /\ restarts < MaxRestarts
  /\ restarts' = restarts + 1
  /\ pc' = [o \in Operations |-> IF pc[o] = "idle" THEN "idle" ELSE "ended"]
  /\ unique' = [k \in Keys |-> Free]
  /\ active' = {}
  /\ closed' = FALSE
  /\ closer' = "idle"
  /\ cancelled' = {}
  /\ record' = [o \in Operations |-> Recovered(record[o])]
  /\ lost' = {}
  /\ UNCHANGED verdict

Goroutine(o) ==
  Begin(o) \/ FinishUnstarted(o) \/ Work(o) \/ Finish(o) \/ Leave(o) \/ Depart(o)

Call(o) == Create(o) \/ Launch(o) \/ FinishRefused(o) \/ Abandon(o)

Next ==
  \/ \E o \in Operations :
       \/ Reserve(o) \/ Create(o) \/ Launch(o) \/ FinishRefused(o) \/ Abandon(o)
       \/ Begin(o) \/ FinishUnstarted(o) \/ Work(o) \/ Finish(o) \/ Leave(o)
       \/ Depart(o) \/ Cancel(o) \/ ResolveCleanup(o)
  \/ CancelParent \/ Close \/ CloseReturns \/ Restart

Spec == Init /\ [][Next]_vars

(* Goroutines and handlers that can run do run; a job returns when it is   *)
(* done, runs into its timeout or sees its context cancelled.              *)
Fairness ==
  /\ \A o \in Operations : WF_vars(Call(o)) /\ WF_vars(Goroutine(o))
  /\ WF_vars(Close) /\ WF_vars(CloseReturns)

FairSpec == Spec /\ Fairness

-----------------------------------------------------------------------------
(* Types: the manager's maps hold operations, rows the statuses of the     *)
(* store's statements.                                                     *)
TypeOK ==
  /\ pc \in [Operations -> {"idle", "refused", "ended"} \cup Calling \cup Counted]
  /\ unique \in [Keys -> Operations \cup {Free, Reserved}]
  /\ active \subseteq Operations
  /\ closed \in BOOLEAN
  /\ closer \in {"idle", "cancelled", "waiting", "returned"}
  /\ cancelled \subseteq Operations
  /\ verdict \in [Operations -> Terminal \cup {"none"}]
  /\ record \in [Operations -> Terminal \cup Open \cup {"absent"}]
  /\ lost \subseteq Operations
  /\ restarts \in 0..MaxRestarts

(* Of the operations with one key, at most one is between its reservation  *)
(* and the deferred call that frees the key, which is taken as long.       *)
OneOperationPerKey ==
  \A k \in Keys :
    LET holders == {o \in Operations : KeyOf[o] = k /\ pc[o] \in Calling \cup Running}
    IN /\ Cardinality(holders) <= 1
       /\ unique[k] # Free <=> holders # {}

(* A row is left open only by an operation that still works, or by one     *)
(* whose statement failed, and by that one only until the next start.      *)
OpenRowsAreLive ==
  \A o \in Operations :
    record[o] \in Open => pc[o] \in Calling \cup Running \/ o \in lost

(* manager.go:88, 179: a key admits one operation and is in use exactly as *)
(* long, and what Wait or the list shows as running is running, however    *)
(* starting, ending, cancelling and closing race and fail.                 *)
KeysAndRowsAgree == OneOperationPerKey /\ OpenRowsAreLive

(* manager.go:104, 157: a key in use becomes free again, whether the       *)
(* operation could not be created, was refused, failed or ended.           *)
KeyIsFreed == \A k \in Keys : unique[k] # Free ~> unique[k] = Free
=============================================================================
