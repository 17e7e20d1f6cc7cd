------------------------ MODULE RepositoryProtection ------------------------
(***************************************************************************)
(* One Restic repository and everything that writes to it or to its status *)
(* row: local backup runs (backup.Service.execute), backups of the same    *)
(* task on an Agent (resticagent.Engine.Run, whose result is applied by    *)
(* agenttask.Service.finish), maintenance and connection jobs              *)
(* (repository.Service) and the repository edit form.  A repository belongs*)
(* to at most one task, so the task flag of Controller.Execute orders its  *)
(* local runs; RunController models that exclusion in detail.              *)
(*                                                                         *)
(* A backup that could not read every file leaves a PARTIAL snapshot, which*)
(* must survive retention until a complete one supersedes it: it is tagged *)
(* protected, or, when tagging fails, its id is kept in the status of the  *)
(* repository, which stops maintenance until the next run has tagged it.   *)
(*                                                                         *)
(* Every Restic command and every statement on the store is a step, since  *)
(* the process can stop, a command can fail and another actor can run in   *)
(* between.  Abstracted: the contents of snapshots, credentials, database  *)
(* exports (never partial, so a full snapshot here), run rows.             *)
(***************************************************************************)
EXTENDS Naturals, FiniteSets

CONSTANTS
  Runs,          \* local runs of the task
  AgentRuns,     \* runs of the task on an Agent
  Maintainers,   \* callers of repository.Service.Maintain
  Connectors,    \* callers of Initialize and VerifyExisting
  Editors,       \* submissions of the repository form
  MaxAttempts,   \* Request.MaxAttempts of backup.Service.Run
  MaxSnapshots,  \* bound on the snapshots created, for TLC
  MaxRestarts,   \* bound on process restarts, for TLC
  None

Actors == Runs \cup AgentRuns \cup Maintainers \cup Connectors \cup Editors

ASSUME ParametersAssumption ==
  /\ Runs \cap AgentRuns = {} /\ Runs \cap Maintainers = {}
  /\ Runs \cap Connectors = {} /\ Runs \cap Editors = {}
  /\ AgentRuns \cap Maintainers = {} /\ AgentRuns \cap Connectors = {}
  /\ AgentRuns \cap Editors = {} /\ Maintainers \cap Connectors = {}
  /\ Maintainers \cap Editors = {} /\ Connectors \cap Editors = {}
  /\ None \notin Actors
  /\ MaxAttempts \in Nat \ {0}
  /\ MaxSnapshots \in Nat
  /\ MaxRestarts \in Nat

(* The execution target of a task is the control service or an Agent.      *)
ASSUME OneTarget == Runs = {} \/ AgentRuns = {}

VARIABLES
  status,    \* repositories.status in the store
  content,   \* completeness of each snapshot ever created, in order
  present,   \* snapshots that are in the repository
  tagged,    \* snapshots that carry the tag rc:protected-partial
  damaged,   \* whether the data of the repository is damaged
  lock,      \* holder of the repository lock
  flag,      \* the local run past the admission test of the controller
  pc,        \* where each actor is
  seen,      \* the status each actor has read
  own,       \* the partial snapshot a run still has to protect, 0 if none
  attempts,  \* attempts made by each local run
  waiters,   \* the Agent runs whose result somebody waits for
  exposed,   \* history: partial snapshots whose protection was given up
  restarts

vars == <<status, content, present, tagged, damaged, lock, flag, pc, seen, own,
          attempts, waiters, exposed, restarts>>

-----------------------------------------------------------------------------

Snapshots == 1..MaxSnapshots

Plain(kind) == [kind |-> kind, snapshot |-> 0]
Unprotected(s) == [kind |-> "unprotected-partial", snapshot |-> s]

Statuses == {Plain(k) : k \in {"uninitialized", "disconnected", "ready", "abnormal"}}
              \cup {Unprotected(s) : s \in Snapshots}

Ready == Plain("ready")
Pending(st) == st.kind = "unprotected-partial"
Writable(st) == st = Ready \/ Pending(st)

States == {"idle", "queued", "loaded", "waiting", "tagging", "marking", "backing",
           "protecting", "recording", "clearing", "reported", "done",
           "forgetting", "pruning", "checking",
           "initializing", "verifying", "publishing", "writing"}

TypeOK ==
  /\ status \in Statuses
  /\ content \in [Snapshots -> {"none", "full", "partial"}]
  /\ present \in SUBSET Snapshots
  /\ tagged \in SUBSET Snapshots
  /\ damaged \in BOOLEAN
  /\ lock \in Actors \cup {None}
  /\ flag \in Runs \cup {None}
  /\ pc \in [Actors -> States]
  /\ seen \in [Actors -> Statuses]
  /\ own \in [Actors -> Snapshots \cup {0}]
  /\ attempts \in [Runs -> 0..MaxAttempts]
  /\ waiters \in SUBSET AgentRuns
  /\ exposed \in SUBSET Snapshots
  /\ restarts \in 0..MaxRestarts

Init ==
  /\ status \in {Plain("uninitialized"), Plain("disconnected"), Ready}
  /\ content = [s \in Snapshots |-> "none"]
  /\ present = {}
  /\ tagged = {}
  /\ damaged = FALSE
  /\ lock = None
  /\ flag = None
  /\ pc = [a \in Actors |-> "idle"]
  /\ seen = [a \in Actors |-> Ready]
  /\ own = [a \in Actors |-> 0]
  /\ attempts = [r \in Runs |-> 0]
  /\ waiters = {}
  /\ exposed = {}
  /\ restarts = 0

-----------------------------------------------------------------------------
(* Steps shared by the actors.                                             *)

Goto(a, from, to) == pc[a] = from /\ pc' = [pc EXCEPT ![a] = to]

Created == {s \in Snapshots : content[s] # "none"}

(* The next snapshot; the bound MaxSnapshots disables further ones.        *)
IsNext(s) == s \in Snapshots /\ Created = 1..(s - 1)

Superseded(s) == \E t \in Created : t > s /\ content[t] = "full"

(* Partial snapshots of runs that have not protected them yet.             *)
InHand == {own[a] : a \in Runs \cup AgentRuns} \ {0}

(* The unprotected snapshot that a write of st to the status row forgets.  *)
Overwritten(st) ==
  IF Pending(status) /\ status # st /\ status.snapshot \notin tagged
  THEN {status.snapshot} ELSE {}

SetStatus(st) == status' = st /\ exposed' = exposed \cup Overwritten(st)

Acquire(a) == lock = None /\ lock' = a

TagExisting(s) == tagged' = tagged \cup ({s} \cap present)

AddSnapshot(s, kind) ==
  /\ IsNext(s)
  /\ content' = [content EXCEPT ![s] = kind]
  /\ present' = present \cup {s}

Repository == <<content, present, tagged, damaged>>
Protection == <<status, exposed>>

-----------------------------------------------------------------------------
(* A local run.                                                            *)

(* backup.Service.Run reads the status before it is admitted.              *)
Load(r) ==
  /\ Goto(r, "idle", "loaded")
  /\ seen' = [seen EXCEPT ![r] = status]
  /\ UNCHANGED <<Repository, Protection, lock, flag, own, attempts, waiters, restarts>>

(* Controller.Execute: skipped while another run of the task is inside.    *)
Admit(r) ==
  /\ \/ flag # None /\ Goto(r, "loaded", "done") /\ UNCHANGED flag
     \/ flag = None /\ Goto(r, "loaded", "waiting") /\ flag' = r
  /\ UNCHANGED <<Repository, Protection, lock, seen, own, attempts, waiters, restarts>>

(* An attempt, with the repository lock: the status that decides is the one*)
(* that was read in Load.                                                  *)
BeginAttempt(r) ==
  /\ Writable(seen[r])
  /\ Acquire(r)
  /\ Goto(r, "waiting", IF Pending(seen[r]) THEN "tagging" ELSE "backing")
  /\ attempts' = [attempts EXCEPT ![r] = @ + 1]
  /\ UNCHANGED <<Repository, Protection, flag, seen, own, waiters, restarts>>

(* The run ends: it gives back the lock and the flag.                      *)
Leave(r) ==
  /\ pc' = [pc EXCEPT ![r] = "done"]
  /\ lock' = None
  /\ flag' = None

(* Not writable, or the context is cancelled while waiting.                *)
Refuse(r) ==
  /\ Goto(r, "waiting", "done")
  /\ flag' = None
  /\ UNCHANGED <<Repository, Protection, lock, seen, own, attempts, waiters, restarts>>

(* A pending snapshot is tagged first; a failure is not retried.           *)
TagPending(r) ==
  /\ pc[r] = "tagging"
  /\ \/ /\ TagExisting(seen[r].snapshot)
        /\ Goto(r, "tagging", "marking")
        /\ UNCHANGED <<lock, flag>>
     \/ Leave(r) /\ UNCHANGED tagged
  /\ UNCHANGED <<content, present, damaged, Protection, seen, own, attempts,
                 waiters, restarts>>

MarkReady(r) ==
  /\ pc[r] = "marking"
  /\ \/ SetStatus(Ready) /\ Goto(r, "marking", "backing") /\ UNCHANGED <<lock, flag>>
     \/ Leave(r) /\ UNCHANGED Protection
  /\ UNCHANGED <<Repository, seen, own, attempts, waiters, restarts>>

(* restic backup: complete, partial, or nothing new (skip-if-unchanged or  *)
(* an error), with up to MaxAttempts attempts for a temporary error.       *)
NextAfter(kind) == IF kind = "partial" THEN "protecting" ELSE "clearing"

CanRetry(r) == attempts[r] < MaxAttempts

SnapshotCreated(r) ==
  \E s \in Snapshots, kind \in {"full", "partial"} :
    /\ AddSnapshot(s, kind)
    /\ Goto(r, "backing", NextAfter(kind))
    /\ own' = [own EXCEPT ![r] = IF kind = "partial" THEN s ELSE 0]
    /\ UNCHANGED <<lock, flag>>

Backup(r) ==
  /\ pc[r] = "backing"
  /\ \/ SnapshotCreated(r)
     \/ Leave(r) /\ UNCHANGED <<content, present, own>>
     \/ /\ CanRetry(r)
        /\ Goto(r, "backing", "waiting")
        /\ lock' = None
        /\ UNCHANGED <<content, present, own, flag>>
  /\ UNCHANGED <<tagged, damaged, Protection, seen, attempts, waiters, restarts>>

ProtectPartial_IgnoresError(r) ==  \* mutant: the error of the tag is dropped
  /\ pc[r] = "protecting"
  /\ TagExisting(own[r]) \/ UNCHANGED tagged
  /\ Leave(r)
  /\ own' = [own EXCEPT ![r] = 0]
  /\ UNCHANGED <<content, present, damaged, Protection, seen, attempts, waiters,
                 restarts>>

ProtectPartial(r) ==
  /\ pc[r] = "protecting"
  /\ \/ /\ TagExisting(own[r])
        /\ Leave(r)
        /\ own' = [own EXCEPT ![r] = 0]
     \/ /\ Goto(r, "protecting", "recording")
        /\ UNCHANGED <<tagged, own, lock, flag>>
  /\ UNCHANGED <<content, present, damaged, Protection, seen, attempts, waiters, restarts>>

(* The error of this UpdateRepositoryStatus is dropped.                    *)
RecordUnprotected(r) ==
  /\ pc[r] = "recording"
  /\ \/ SetStatus(Unprotected(own[r]))
     \/ UNCHANGED status /\ exposed' = exposed \cup {own[r]}  \* the update fails
  /\ Leave(r)
  /\ own' = [own EXCEPT ![r] = 0]
  /\ UNCHANGED <<Repository, seen, attempts, waiters, restarts>>

(* A complete snapshot ends the protection of every partial one; an error  *)
(* of this command is dropped.                                             *)
ClearTags(r) ==
  /\ pc[r] = "clearing"
  /\ tagged' \in {{}, tagged}
  /\ Leave(r)
  /\ UNCHANGED <<content, present, damaged, Protection, seen, own, attempts,
                 waiters, restarts>>

-----------------------------------------------------------------------------
(* A run on an Agent: it never takes the repository lock.                  *)

AgentUnchanged == UNCHANGED <<damaged, lock, flag, attempts, restarts>>

(* agenttask.Service.Run creates a lease and waits for its result.         *)
Dispatch(a) ==
  /\ Goto(a, "idle", "queued")
  /\ waiters' = waiters \cup {a}
  /\ UNCHANGED <<content, present, tagged, Protection, seen, own>>
  /\ AgentUnchanged

(* The Agent claims the lease and the Builder reads the status into its    *)
(* definition; the Agent executes one assignment at a time.                *)
Busy(a) == pc[a] \in {"tagging", "backing", "protecting"}

Hydrate(a) ==
  /\ \A b \in AgentRuns : ~Busy(b)
  /\ Goto(a, "queued", IF ~Writable(status) THEN "done"
                       ELSE IF Pending(status) THEN "tagging" ELSE "backing")
  /\ seen' = [seen EXCEPT ![a] = status]
  /\ UNCHANGED <<content, present, tagged, Protection, own, waiters>>
  /\ AgentUnchanged

(* When the tag fails the result says nothing about protection.            *)
AgentTagPending(a) ==
  /\ \/ TagExisting(seen[a].snapshot) /\ Goto(a, "tagging", "backing")
     \/ Goto(a, "tagging", "done") /\ UNCHANGED tagged
  /\ UNCHANGED <<content, present, Protection, seen, own, waiters>>
  /\ AgentUnchanged

(* Unlike a local run, a complete backup leaves the tags as they are.      *)
AgentBackup(a) ==
  /\ \/ \E s \in Snapshots :
          \/ /\ AddSnapshot(s, "full")
             /\ Goto(a, "backing", "reported")
             /\ UNCHANGED own
          \/ /\ AddSnapshot(s, "partial")
             /\ Goto(a, "backing", "protecting")
             /\ own' = [own EXCEPT ![a] = s]
     \/ Goto(a, "backing", "reported") /\ UNCHANGED <<content, present, own>>
  /\ UNCHANGED <<tagged, Protection, seen, waiters>>
  /\ AgentUnchanged

AgentProtect(a) ==
  /\ \/ TagExisting(own[a]) /\ own' = [own EXCEPT ![a] = 0]
     \/ UNCHANGED <<tagged, own>>
  /\ Goto(a, "protecting", "reported")
  /\ UNCHANGED <<content, present, Protection, seen, waiters>>
  /\ AgentUnchanged

(* agenttask.Service.finish applies what the result says of protection:    *)
(* without the lock, whatever the status has become meanwhile.             *)
Claim(a) ==
  IF own[a] # 0 THEN {Unprotected(own[a])}
  ELSE IF Pending(seen[a]) THEN {Ready} ELSE {}

ApplyResult(a) ==
  /\ a \in waiters
  /\ waiters' = waiters \ {a}
  /\ Goto(a, "reported", "done")
  /\ \/ \E st \in Claim(a) : SetStatus(st)
     \/ Claim(a) = {} /\ UNCHANGED Protection
     \/ UNCHANGED status /\ exposed' = exposed \cup ({own[a]} \ {0})  \* the update fails
  /\ own' = [own EXCEPT ![a] = 0]
  /\ UNCHANGED <<content, present, tagged, seen>>
  /\ AgentUnchanged

(* The waiting run is cancelled, or the lease ran out: a queued lease is   *)
(* expired with it, an assignment that is executing goes on.               *)
DropWaiter(a) ==
  /\ a \in waiters
  /\ waiters' = waiters \ {a}
  /\ pc' = [pc EXCEPT ![a] = IF @ = "queued" THEN "done" ELSE @]
  /\ UNCHANGED <<content, present, tagged, Protection, seen, own>>
  /\ AgentUnchanged

(* Nobody reads the result of an assignment whose run has ended.           *)
Discard(a) ==
  /\ a \notin waiters
  /\ Goto(a, "reported", "done")
  /\ exposed' = exposed \cup ({own[a]} \ {0})
  /\ own' = [own EXCEPT ![a] = 0]
  /\ UNCHANGED <<content, present, tagged, status, seen, waiters>>
  /\ AgentUnchanged

-----------------------------------------------------------------------------
(* Maintenance: forget, prune and check under the repository lock.         *)

MaintenanceAllowed_Writable(st) == Writable(st)  \* mutant: the test of execute

MaintenanceAllowed(st) == st = Ready

BeginMaintenance(m) ==
  /\ Acquire(m)
  /\ MaintenanceAllowed(status)
  /\ Goto(m, "idle", "forgetting")
  /\ UNCHANGED <<Repository, Protection, flag, seen, own, attempts, waiters, restarts>>

(* A command fails, or a dry run ends after forget.                        *)
StopMaintenance(m) ==
  /\ Goto(m, "forgetting", "idle") \/ Goto(m, "pruning", "idle")
  /\ lock' = None
  /\ UNCHANGED <<Repository, Protection, flag, seen, own, attempts, waiters, restarts>>

(* Whatever the retention policy selects among the snapshots not tagged    *)
(* (a policy with no limit set keeps nothing else).                        *)
Forget(m) ==
  /\ Goto(m, "forgetting", "pruning")
  /\ \E removed \in SUBSET (present \ tagged) : present' = present \ removed
  /\ UNCHANGED <<content, tagged, damaged, Protection, lock, flag, seen, own,
                 attempts, waiters, restarts>>

Prune(m) ==
  /\ Goto(m, "pruning", "checking")
  /\ UNCHANGED <<Repository, Protection, lock, flag, seen, own, attempts, waiters, restarts>>

(* Any error of restic check, a lost connection included, makes the        *)
(* repository abnormal; the update itself can fail in both branches.       *)
Check(m) ==
  /\ Goto(m, "checking", "idle")
  /\ \/ SetStatus(Plain("abnormal"))
     \/ ~damaged /\ SetStatus(Ready)
     \/ UNCHANGED Protection
  /\ lock' = None
  /\ UNCHANGED <<Repository, flag, seen, own, attempts, waiters, restarts>>

(* The data gets damaged, by the disk or by a program other than this one. *)
Damage ==
  /\ ~damaged
  /\ damaged' = TRUE
  /\ UNCHANGED <<content, present, tagged, Protection, lock, flag, pc, seen, own,
                 attempts, waiters, restarts>>

-----------------------------------------------------------------------------
(* Connecting a repository, and editing its row.                           *)

BeginConnect(c) ==
  /\ Acquire(c)
  /\ \/ status = Plain("uninitialized") /\ Goto(c, "idle", "initializing")
     \/ status = Plain("disconnected") /\ Goto(c, "idle", "verifying")
  /\ UNCHANGED <<Repository, Protection, flag, seen, own, attempts, waiters, restarts>>

(* restic init or the read-only check ends; Initialize gives the lock back *)
(* before it writes the status, VerifyExisting after.                      *)
EndConnect(c) ==
  /\ \/ Goto(c, "initializing", "publishing") /\ UNCHANGED Protection
     \/ Goto(c, "verifying", "done") /\ SetStatus(Ready)
     \/ Goto(c, "initializing", "done") /\ UNCHANGED Protection
     \/ Goto(c, "verifying", "done") /\ UNCHANGED Protection
  /\ lock' = None
  /\ UNCHANGED <<Repository, flag, seen, own, attempts, waiters, restarts>>

PublishInitialized(c) ==
  /\ Goto(c, "publishing", "done")
  /\ SetStatus(Ready) \/ UNCHANGED Protection
  /\ UNCHANGED <<Repository, lock, flag, seen, own, attempts, waiters, restarts>>

(* updateRepository reads the row, then writes every column of it back; an *)
(* error of the read is dropped and the status taken to be uninitialized.  *)
EditRead(e) ==
  /\ Goto(e, "idle", "writing")
  /\ \E st \in {status, Plain("uninitialized")} : seen' = [seen EXCEPT ![e] = st]
  /\ UNCHANGED <<Repository, Protection, lock, flag, own, attempts, waiters, restarts>>

EditWrite(e) ==
  /\ Goto(e, "writing", "done")
  /\ SetStatus(seen[e]) \/ UNCHANGED Protection
  /\ UNCHANGED <<Repository, lock, flag, seen, own, attempts, waiters, restarts>>

-----------------------------------------------------------------------------

(* The control service stops and starts: local runs, jobs and waiters are  *)
(* gone; an Agent goes on, and a queued lease can still be claimed.        *)
Restart ==
  /\ restarts < MaxRestarts
  /\ restarts' = restarts + 1
  /\ pc' = [a \in Actors |->
              IF a \in Maintainers THEN "idle"
              ELSE IF a \in AgentRuns \/ pc[a] = "idle" THEN pc[a] ELSE "done"]
  /\ exposed' = exposed \cup ({own[r] : r \in Runs} \ {0})
  /\ own' = [a \in Actors |-> IF a \in AgentRuns THEN own[a] ELSE 0]
  /\ waiters' = {}
  /\ lock' = None
  /\ flag' = None
  /\ UNCHANGED <<Repository, status, seen, attempts>>

RunStep(r) ==
  \/ Load(r) \/ Admit(r) \/ BeginAttempt(r) \/ Refuse(r) \/ TagPending(r)
  \/ MarkReady(r) \/ Backup(r) \/ ProtectPartial(r) \/ RecordUnprotected(r)
  \/ ClearTags(r)

AgentStep(a) ==
  \/ Dispatch(a) \/ Hydrate(a) \/ AgentTagPending(a) \/ AgentBackup(a)
  \/ AgentProtect(a) \/ ApplyResult(a) \/ DropWaiter(a) \/ Discard(a)

MaintenanceStep(m) ==
  \/ BeginMaintenance(m) \/ StopMaintenance(m) \/ Forget(m) \/ Prune(m) \/ Check(m)

Next ==
  \/ \E r \in Runs : RunStep(r)
  \/ \E a \in AgentRuns : AgentStep(a)
  \/ \E m \in Maintainers : MaintenanceStep(m)
  \/ \E c \in Connectors : BeginConnect(c) \/ EndConnect(c) \/ PublishInitialized(c)
  \/ \E e \in Editors : EditRead(e) \/ EditWrite(e)
  \/ Damage
  \/ Restart

Spec == Init /\ [][Next]_vars

-----------------------------------------------------------------------------
(* Properties.                                                             *)

Partial(s) == content[s] = "partial" /\ ~Superseded(s)

(* A partial snapshot that no complete one supersedes is tagged, or its id *)
(* is in the status of the repository, or a run still has it in hand; it   *)
(* drops out only where the code gives it up: an update error, a restart,  *)
(* a result nobody reads, a status write that knew nothing of it.          *)
PartialsAccounted ==
  \A s \in present :
    Partial(s) /\ s \notin tagged /\ s \notin exposed
      => status = Unprotected(s) \/ s \in InHand

(* Retention never removes such a snapshot, whatever the policy: for a     *)
(* task executed by the control service.                                   *)
PartialsKept == \A s \in Created : Partial(s) /\ s \notin exposed => s \in present

Maintaining(m) == pc[m] \in {"forgetting", "pruning", "checking"}

(* While maintenance works, the status stays what it was admitted for: no  *)
(* backup attempt, connection or maintenance changes it underneath.        *)
MaintenanceOnReady == \A m \in Maintainers : Maintaining(m) => status = Ready

-----------------------------------------------------------------------------
(* The inductive invariant: what the lock and the places of the runs say.  *)

HoldsLock == {"tagging", "marking", "backing", "protecting", "recording", "clearing",
              "forgetting", "pruning", "checking", "initializing", "verifying"}

Service == Runs \cup Maintainers \cup Connectors \cup Editors

LockHeld ==
  /\ \A a \in Service : pc[a] \in HoldsLock <=> lock = a
  /\ lock \in Service \cup {None}

OwnPlace ==
  /\ \A r \in Runs : own[r] # 0 <=> pc[r] \in {"protecting", "recording"}
  /\ \A a \in AgentRuns : /\ own[a] # 0 => pc[a] \in {"protecting", "reported"}
                          /\ pc[a] = "protecting" => own[a] # 0

AttemptsLeft ==
  \A r \in Runs : pc[r] \in {"idle", "loaded", "waiting"} => attempts[r] < MaxAttempts

(* When the tags are about to be cleared, every partial snapshot has been  *)
(* superseded: the lock keeps other backups from adding one meanwhile.     *)
ClearingSuperseded ==
  \A r \in Runs : pc[r] = "clearing" =>
    \A s \in Created : content[s] = "partial" => Superseded(s)

IInv ==
  /\ TypeOK
  /\ LockHeld
  /\ OwnPlace
  /\ AttemptsLeft
  /\ ClearingSuperseded
  /\ PartialsAccounted

=============================================================================
