---------------------------- MODULE RunController ----------------------------
(***************************************************************************)
(* The exclusion discipline of a local task run: backup.Service.Run calls  *)
(* run.Controller.Execute, whose attempts call repolock.Registry.With.     *)
(* A request takes, in this order, the flag of its task, one of MaxParallel*)
(* global slots, the controller's mutex of its repository and, for each    *)
(* attempt, the repository lock; the deferred calls give them back in the  *)
(* reverse order.  The repository service (maintenance, key rotation,      *)
(* connection), restores on Agents and the connection test of a database   *)
(* use the repository lock without passing through the controller.         *)
(*                                                                         *)
(* Abstracted: what an operation does inside the lock is its outcome only  *)
(* (RepositoryProtection models it), and the retry delay is a state, not a *)
(* duration.  A refused call (task disabled, StartRun fails) changes       *)
(* nothing and is a stuttering step.                                       *)
(***************************************************************************)
EXTENDS Naturals, FiniteSets

CONSTANTS
  Requests,      \* calls of backup.Service.Run: manual and scheduled triggers
  Users,         \* callers of Registry.With outside the controller
  Tasks,
  Repositories,
  TaskOf,        \* the task each request runs
  RepositoryOf,  \* the repository each request or user works on
  MaxParallel,   \* capacity of Controller.global, 2 in backup.New
  MaxAttempts,   \* Request.MaxAttempts, 3 in backup.Service.Run
  MaxRestarts,   \* bound on process restarts, for TLC
  None           \* "nobody holds it"

Actors == Requests \cup Users

ASSUME ParametersAssumption ==
  /\ IsFiniteSet(Requests)
  /\ Requests \cap Users = {}
  /\ None \notin Actors
  /\ TaskOf \in [Requests -> Tasks]
  /\ RepositoryOf \in [Actors -> Repositories]
  /\ MaxParallel \in Nat \ {0}
  /\ MaxAttempts \in Nat \ {0}
  /\ MaxRestarts \in Nat

VARIABLES
  pc,            \* where each request or user is
  cancelled,     \* requests whose context is done
  runningTasks,  \* Controller.runningTasks
  global,        \* number of tokens in the channel Controller.global
  mutex,         \* Controller.repositories: holder of each mutex
  lock,          \* Registry.locks: holder of each repository lock
  attempts,      \* attempts made by each request
  result,        \* Result.Status of each request
  record,        \* status of the run's row in the store
  restarts       \* restarts so far

vars == <<pc, cancelled, runningTasks, global, mutex, lock, attempts, result,
          record, restarts>>

-----------------------------------------------------------------------------

Terminal == {"success", "failed", "cancelled", "skipped"}

(* A partial backup returns without an error: here it is a success. *)
Outcomes == {"success", "temporary", "failed"}

RequestStates == {"idle", "started", "queued", "slotted", "entering",
                  "operating", "backoff", "unlocking", "freeing", "clearing",
                  "finishing", "done"}

HoldsMutex == {"entering", "operating", "backoff", "unlocking"}
HoldsSlot  == {"slotted", "freeing"} \cup HoldsMutex
HoldsTask  == {"queued", "clearing"} \cup HoldsSlot

TypeOK ==
  /\ pc \in [Actors -> RequestStates]
  /\ \A u \in Users : pc[u] \in {"idle", "operating"}
  /\ cancelled \subseteq Requests
  /\ runningTasks \subseteq Tasks
  /\ global \in 0..MaxParallel
  /\ mutex \in [Repositories -> Requests \cup {None}]
  /\ lock \in [Repositories -> Actors \cup {None}]
  /\ attempts \in [Requests -> 0..MaxAttempts]
  /\ result \in [Requests -> Terminal \cup {"none"}]
  /\ record \in [Requests -> Terminal \cup {"absent", "running"}]
  /\ restarts \in 0..MaxRestarts

Init ==
  /\ pc = [a \in Actors |-> "idle"]
  /\ cancelled = {}
  /\ runningTasks = {}
  /\ global = 0
  /\ mutex = [r \in Repositories |-> None]
  /\ lock = [r \in Repositories |-> None]
  /\ attempts = [q \in Requests |-> 0]
  /\ result = [q \in Requests |-> "none"]
  /\ record = [q \in Requests |-> "absent"]
  /\ restarts = 0

-----------------------------------------------------------------------------

Goto(q, from, to) == pc[q] = from /\ pc' = [pc EXCEPT ![q] = to]

(* The row of the run is inserted with status running before the           *)
(* controller is asked (backup.Service.Run).                               *)
StartRun(q) ==
  /\ Goto(q, "idle", "started")
  /\ record' = [record EXCEPT ![q] = "running"]
  /\ UNCHANGED <<cancelled, runningTasks, global, mutex, lock, attempts,
                 result, restarts>>

(* Execute: a second request for a running task is skipped, not queued.    *)
Admit(q) ==
  /\ \/ /\ TaskOf[q] \in runningTasks
        /\ Goto(q, "started", "finishing")
        /\ result' = [result EXCEPT ![q] = "skipped"]
        /\ UNCHANGED runningTasks
     \/ /\ TaskOf[q] \notin runningTasks
        /\ Goto(q, "started", "queued")
        /\ runningTasks' = runningTasks \cup {TaskOf[q]}
        /\ UNCHANGED result
  /\ UNCHANGED <<cancelled, global, mutex, lock, attempts, record, restarts>>

AcquireSlot(q) ==
  /\ global < MaxParallel
  /\ Goto(q, "queued", "slotted")
  /\ global' = global + 1
  /\ UNCHANGED <<cancelled, runningTasks, mutex, lock, attempts, result,
                 record, restarts>>

(* sync.Mutex.Lock: a cancelled context does not interrupt this wait.      *)
LockMutex(q) ==
  /\ mutex[RepositoryOf[q]] = None
  /\ Goto(q, "slotted", "entering")
  /\ mutex' = [mutex EXCEPT ![RepositoryOf[q]] = q]
  /\ attempts' = [attempts EXCEPT ![q] = 1]
  /\ UNCHANGED <<cancelled, runningTasks, global, lock, result, record,
                 restarts>>

Acquire_Unguarded(a) ==    \* mutant: the send to a full channel does not block
  lock' = [lock EXCEPT ![RepositoryOf[a]] = a]

(* Registry.With, for a request and for any other user of the lock.        *)
Acquire(a) ==
  /\ lock[RepositoryOf[a]] = None
  /\ lock' = [lock EXCEPT ![RepositoryOf[a]] = a]

Release(a) == lock' = [lock EXCEPT ![RepositoryOf[a]] = None]

EnterRepository_WithoutLock(q) ==  \* mutant: repositoryLocker is nil
  /\ Goto(q, "entering", "operating")
  /\ UNCHANGED <<cancelled, runningTasks, global, mutex, lock, attempts, result,
                 record, restarts>>

EnterRepository(q) ==
  /\ Goto(q, "entering", "operating")
  /\ Acquire(q)
  /\ UNCHANGED <<cancelled, runningTasks, global, mutex, attempts, result,
                 record, restarts>>

GiveUp_KeepsMutex(q) ==    \* mutant: no deferred Unlock on the cancelled path
  /\ q \in cancelled
  /\ \/ Goto(q, "queued", "clearing")
     \/ Goto(q, "entering", "freeing")
     \/ Goto(q, "backoff", "freeing")
  /\ result' = [result EXCEPT ![q] = "cancelled"]
  /\ UNCHANGED <<cancelled, runningTasks, global, mutex, lock, attempts,
                 record, restarts>>

(* The selects on ctx.Done: waiting for a slot, for the repository lock    *)
(* and for the retry timer.                                                *)
GiveUp(q) ==
  /\ q \in cancelled
  /\ \/ Goto(q, "queued", "clearing")
     \/ Goto(q, "entering", "unlocking")
     \/ Goto(q, "backoff", "unlocking")
  /\ result' = [result EXCEPT ![q] = "cancelled"]
  /\ UNCHANGED <<cancelled, runningTasks, global, mutex, lock, attempts,
                 record, restarts>>

(* The operation returns: With gives the lock back, then Execute decides.  *)
Succeed(q, outcome) ==
  /\ outcome = "success"
  /\ Goto(q, "operating", "unlocking")
  /\ result' = [result EXCEPT ![q] = outcome]

Abort(q, outcome) ==
  /\ outcome \in {"temporary", "failed"}
  /\ Goto(q, "operating", "unlocking")
  /\ \/ /\ q \in cancelled
        /\ result' = [result EXCEPT ![q] = "cancelled"]
     \/ /\ q \notin cancelled
        /\ outcome = "failed" \/ attempts[q] = MaxAttempts
        /\ result' = [result EXCEPT ![q] = "failed"]

Retry(q, outcome) ==
  /\ outcome = "temporary"
  /\ q \notin cancelled
  /\ attempts[q] < MaxAttempts
  /\ Goto(q, "operating", "backoff")
  /\ UNCHANGED result

Return(q) ==
  /\ \E outcome \in Outcomes :
       Succeed(q, outcome) \/ Abort(q, outcome) \/ Retry(q, outcome)
  /\ Release(q)
  /\ UNCHANGED <<cancelled, runningTasks, global, mutex, attempts, record,
                 restarts>>

BackoffElapsed(q) ==
  /\ Goto(q, "backoff", "entering")
  /\ attempts' = [attempts EXCEPT ![q] = @ + 1]
  /\ UNCHANGED <<cancelled, runningTasks, global, mutex, lock, result, record,
                 restarts>>

UnlockMutex(q) ==
  /\ Goto(q, "unlocking", "freeing")
  /\ mutex' = [mutex EXCEPT ![RepositoryOf[q]] = None]
  /\ UNCHANGED <<cancelled, runningTasks, global, lock, attempts, result,
                 record, restarts>>

FreeSlot_Leaks(q) ==       \* mutant: the token stays in the channel
  /\ Goto(q, "freeing", "clearing")
  /\ UNCHANGED <<cancelled, runningTasks, global, mutex, lock, attempts, result,
                 record, restarts>>

FreeSlot(q) ==
  /\ Goto(q, "freeing", "clearing")
  /\ global' = global - 1
  /\ UNCHANGED <<cancelled, runningTasks, mutex, lock, attempts, result,
                 record, restarts>>

ClearTask(q) ==
  /\ Goto(q, "clearing", "finishing")
  /\ runningTasks' = runningTasks \ {TaskOf[q]}
  /\ UNCHANGED <<cancelled, global, mutex, lock, attempts, result, record,
                 restarts>>

(* The error of FinishRun is dropped: the row may keep saying running.     *)
FinishRun(q) ==
  /\ Goto(q, "finishing", "done")
  /\ record' \in {[record EXCEPT ![q] = result[q]], record}
  /\ UNCHANGED <<cancelled, runningTasks, global, mutex, lock, attempts,
                 result, restarts>>

Cancel(q) ==
  /\ pc[q] \notin {"idle", "done"}
  /\ cancelled' = cancelled \cup {q}
  /\ UNCHANGED <<pc, runningTasks, global, mutex, lock, attempts, result,
                 record, restarts>>

(* A user of the repository lock outside the controller.                   *)
UserEnter(u) ==
  /\ Goto(u, "idle", "operating")
  /\ Acquire(u)
  /\ UNCHANGED <<cancelled, runningTasks, global, mutex, attempts, result,
                 record, restarts>>

UserLeave(u) ==
  /\ Goto(u, "operating", "idle")
  /\ Release(u)
  /\ UNCHANGED <<cancelled, runningTasks, global, mutex, attempts, result,
                 record, restarts>>

(* The process stops and starts again: everything in memory is gone, the   *)
(* rows are kept, and RecoverInterruptedRuns closes the running ones       *)
(* before any request is served.                                           *)
Recovered(status) == IF status = "running" THEN "failed" ELSE status

Restart ==
  /\ restarts < MaxRestarts
  /\ restarts' = restarts + 1
  /\ pc' = [a \in Actors |-> IF a \in Users \/ pc[a] = "idle" THEN "idle" ELSE "done"]
  /\ cancelled' = {}
  /\ runningTasks' = {}
  /\ global' = 0
  /\ mutex' = [r \in Repositories |-> None]
  /\ lock' = [r \in Repositories |-> None]
  /\ record' = [q \in Requests |-> Recovered(record[q])]
  /\ UNCHANGED <<attempts, result>>

(* What a request does when it is served, and what it does by itself.      *)
Waits(q) == AcquireSlot(q) \/ LockMutex(q) \/ EnterRepository(q)

Runs(q) ==
  \/ Admit(q) \/ Return(q) \/ BackoffElapsed(q) \/ UnlockMutex(q) \/ FreeSlot(q)
  \/ ClearTask(q) \/ FinishRun(q)

RequestStep(q) ==
  \/ StartRun(q) \/ Admit(q) \/ AcquireSlot(q) \/ LockMutex(q)
  \/ EnterRepository(q) \/ GiveUp(q) \/ Return(q) \/ BackoffElapsed(q)
  \/ UnlockMutex(q) \/ FreeSlot(q) \/ ClearTask(q) \/ FinishRun(q)
  \/ Cancel(q)

Next ==
  \/ \E q \in Requests : RequestStep(q)
  \/ \E u \in Users : UserEnter(u) \/ UserLeave(u)
  \/ Restart

Spec == Init /\ [][Next]_vars

(* Every goroutine runs, operations return, and a waiter on a mutex or a   *)
(* channel is served: Go's sync.Mutex hands over to a starving waiter and  *)
(* channel senders queue first in, first out.  Nobody has to cancel.  A    *)
(* request is at one place at a time, so one condition stands for each of  *)
(* the actions it covers.                                                  *)
Fairness ==
  /\ \A q \in Requests : WF_vars(Runs(q)) /\ SF_vars(Waits(q))
  /\ \A u \in Users : WF_vars(UserLeave(u))

FairSpec == Spec /\ Fairness

-----------------------------------------------------------------------------

Operating(r) == {a \in Actors : pc[a] = "operating" /\ RepositoryOf[a] = r}

(* No two operations of the control service work on one repository at the  *)
(* same time, whether a backup attempt, maintenance or a restore.          *)
MutualExclusion ==
  \A a, b \in Actors :
    pc[a] = "operating" /\ pc[b] = "operating" /\ RepositoryOf[a] = RepositoryOf[b]
      => a = b

(* A task never has two runs past the admission test of Execute: manual    *)
(* and scheduled triggers of one task cannot overlap.                      *)
OneRunPerTask ==
  \A p, q \in Requests :
    pc[p] \in HoldsTask /\ pc[q] \in HoldsTask /\ TaskOf[p] = TaskOf[q] => p = q

(* No path through Execute (cancellation at any wait, failure, retry) leaks*)
(* or returns twice a slot: the tokens are the runs that hold one, so the  *)
(* semaphore neither starves nor lets more than MaxParallel runs through.  *)
SlotsAccounted ==
  /\ global = Cardinality({q \in Requests : pc[q] \in HoldsSlot})
  /\ global <= MaxParallel

(* Whatever way runs end, a controller with no run in it holds nothing.    *)
NothingLeaks ==
  (\A q \in Requests : pc[q] \in {"idle", "started", "finishing", "done"})
    => /\ runningTasks = {}
       /\ global = 0
       /\ \A r \in Repositories : mutex[r] = None /\ lock[r] \notin Requests

(* A run whose row has a terminal status never changes it again, across    *)
(* restarts and late finishes.                                             *)
TerminalIsFinal ==
  [][\A q \in Requests : record[q] \in Terminal => record'[q] = record[q]]_vars

-----------------------------------------------------------------------------

(* The inductive invariant: each resource is held by the run or user whose *)
(* place in the program says so, and by nobody else.                       *)
LockHeld ==
  /\ \A a \in Actors : pc[a] = "operating" <=> lock[RepositoryOf[a]] = a
  /\ \A r \in Repositories : lock[r] # None => RepositoryOf[lock[r]] = r

MutexHeld ==
  /\ \A q \in Requests : pc[q] \in HoldsMutex <=> mutex[RepositoryOf[q]] = q
  /\ \A r \in Repositories : mutex[r] # None => RepositoryOf[mutex[r]] = r

TaskHeld ==
  /\ \A q \in Requests : pc[q] \in HoldsTask => TaskOf[q] \in runningTasks
  /\ \A t \in runningTasks :
       \E q \in Requests : TaskOf[q] = t /\ pc[q] \in HoldsTask

SlotHolders == {q \in Requests : pc[q] \in HoldsSlot}

Decided ==
  \A q \in Requests :
    pc[q] \in {"unlocking", "freeing", "clearing", "finishing"} => result[q] \in Terminal

AttemptsLeft == \A q \in Requests : pc[q] = "backoff" => attempts[q] < MaxAttempts

IInv ==
  /\ TypeOK
  /\ LockHeld
  /\ MutexHeld
  /\ TaskHeld
  /\ OneRunPerTask
  /\ global = Cardinality(SlotHolders)
  /\ AttemptsLeft
  /\ Decided

-----------------------------------------------------------------------------

(* What the callers rely on, without the mechanism: exclusive access.      *)
Access == INSTANCE ExclusiveAccess WITH
            working <- [r \in Repositories |-> Operating(r)]

RefinesExclusiveAccess == Access!Spec

=============================================================================
