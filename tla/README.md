# Shadoc: specification, model checking and proofs

TLA+ models of the control service of Shadoc (a self-hosted backup control
service in Go), TLC configurations that check them on small instances, and
proofs, checked by TLAPS, of their safety properties for every instance. Paths
such as `run/controller.go` are under `src/internal/` unless they start with
`src/`.

1. [The system](#1-the-system): components, state, interactions
2. [Modules](#2-modules): what models what
3. [Runs](#3-runs): what TLC checks, bounds, fairness
4. [Proofs](#4-proofs): theorems, invariants, assumptions
5. [Departures](#5-departures): where the code departs from what is said of it
6. [What is not modelled](#6-what-is-not-modelled)
7. [Plan](#7-plan)

`PROJECT.json` lists the components, the runs, the mutants (a plausible bug for
every property, which TLC must find), the source lines of each definition, the
hazards and the theorems.

## 1. The system

Shadoc is one long-running control service (`src/cmd/restic-control`) with a
SQLite database, and any number of Agents (`src/cmd/restic-control-agent`) on
other hosts. Both run external programs: Restic for backups, rsync for plain
copies, database tools for logical exports. The service serves a browser
interface (`httpapi`, `src/web`), runs tasks at their due times, and talks to
Agents over HTTP with mutual TLS; the Agents ask, the service answers.

The database has a single connection (`store/store.go`, `SetMaxOpenConns(1)`) and no
foreign keys: each statement or transaction is atomic, they are totally ordered, and
references between rows are kept by code. Everything else interleaves: HTTP handlers, the
operations they start, dispatchers that tick every 30 seconds, one goroutine per launched
task, one waiter per request to an Agent, and the Agents. After a crash
`recoverInterruptedState` (`src/cmd/restic-control/main.go`) closes rows that were left
open; nothing in memory survives.

### 1.1 Inventory

Lines are non-test Go lines of the packages.

| Component | Lines | State | Operations | What makes it hard, and what correct means |
| --- | --- | --- | --- | --- |
| Run controller, repository lock (`run`, `repolock`) | 190 | task flags, a channel of slots, a mutex and a lock channel per repository | `Execute`, `With` | Four resources taken in sequence and returned on every path, under cancellation and retries. Exclusive access, one run per task, bounded parallelism, no leak, no run stuck. |
| Local backup (`backup`, `taskrun`) | 516 | row of the run, status of the repository, tags of snapshots | `Run`, `execute` | The status is read before the waits. A partial snapshot survives retention until a complete one supersedes it. |
| Repository service (`repository`, `restic`) | 1817 | status, retention, keys | `Initialize`, `VerifyExisting`, `Maintain`, `RotatePassword`, `RevokeOldPassword`, listings | Several commands and statements under one lock, each of which can fail. Maintenance works on a ready repository only; the stored password always opens the repository. |
| Agent dispatch and lease protocol (`agenttask`, `agentcontrol`, `agentruntime`, `agentprotocol`) | 2133 | `agent_leases`, row of the run, what the Agent has in hand | `Run`, `Lease`, `Progress`, `Complete`, `Step` | Lost, late and repeated requests, expiry racing the result, crashes of both sides. At most one execution; a recorded success is real; every run decided. |
| Agent backup engine (`resticagent`, `agentassignment`) | 297 | snapshots and tags on the repository | `Run`, `Build` | Works without the repository lock. |
| Managed operations on Agents (`agentdeploy/upgrade.go`) | 457 | `draining_at`, the Agent's process and programs | `Upgrade`, `ReprobeTools`, `ProbeHeartbeat` | Draining races a claim; a failing upgrade must come back to a version that works. |
| Agent deployment and removal (`agentdeploy`, `agentservice`, `agenttool`) | 2000 | files and services on the remote host, the HTTPS endpoint | deploy, verify, remove, `Configure` | Remote commands with compensation; a listener and its stored settings must agree. |
| Enrolment and certificates (`agentcontrol`, `agentruntime/credentials.go`) | 700 | tokens, certificates active/pending/retired, files of the Agent | `Enroll`, `Renew`, heartbeat, revocation | Lost answers and crashes between two files. A token is used once; an Agent keeps a certificate that is accepted; a revoked machine stays out. |
| Plan scheduling (`scheduler`, `schedule`) | 451 | `schedule_occurrences`, the plan's anchor, goroutines | `Tick`, `RecordDue`, `executeOccurrence` | Separate statements per occurrence, edits and restarts between them. No due time lost, none run twice, none pending for ever. |
| Maintenance dispatcher (`maintenance`) | 106 | as above | `Tick` | A plan with one target. |
| Operation manager (`operation`) | 303 | `operations`, unique keys, cancel functions | `Start`, `StartUnique`, `Cancel`, `Wait`, `Close` | Start, finish and close race; the mutex is not held over statements. One operation per key, the key freed on every path. |
| Repository key rotation, protection set-up (`repository`, `protectionsetup`, `secret`) | 1400 | secret of the repository, pending secret, keys of Restic, drafts | rotate, revoke, draft, apply, cancel, delete | A vault, a store and Restic without a common transaction, and a stop between any two steps. |
| Vault and secret gate (`vault`, `secret`) | 574 | key file, unlocked key, mode | `LoadOrCreateKey`, lock, unlock, change | Overlapping changes and losses of power. The key survives; the protection reported is the one on the disk. |
| Configuration (`store/resources.go`, `store/crud.go`, `httpapi`) | | hosts, repositories, connections, tasks, secrets | create, edit, delete | Handlers read, store a secret, commit, delete the old secret; they overlap. No dangling reference, no secret lost. |
| Work of tasks (`taskpreview`, `store/delete_preview.go`, `lifecycle`) | 2100 | previews, plans, policies, occurrences, runs | preview, confirm, edit, delete | Checked in one transaction, used in another. Nothing runs for a task that is gone; what is confirmed is what runs. |
| Restore (`restore`, `agentrestore`, `dbrestore`) | 828 | confirmations, requests, files and databases restored to | preflight, authorise, restore | Two restores and other users of the machine meet at one target. What is restored was confirmed; what is others' is spared. |
| Restore verification (`restoreverification`) | 439 | policy, verification rows, a directory | `Run`, `Cleanup`, recovery | A directory and its row are not changed together. What is left has a row that says so. |
| Alerts and notifications (`alerting`, `notification`, channels) | 1381 | alerts, deliveries | observe, reconcile, deliver | Observers and the reconciler act on what they read earlier. The alert converges. |
| Capacity (`repositorycapacity`, `capacitymonitor`) | 769 | policies, observations, requests to Agents | `Tick`, `Probe` | Claims, late answers, deferred probes. No repository waits for ever, no old measurement over a newer one. |
| Installation, update, migration (`appinstall`, `serviceinstall`, `servicemigration`) | 4264 | files, service units, a marker, a row | replace with rollback | A cut between two renames; a way back that fails. |
| Export and import (`controlplane`) | 1660 | bundle, preview, secrets, CA files, rows | `Export`, `PreflightImport`, `Import` | Secrets are read one by one while they change; an import is files, secrets and a transaction. One moment; all or nothing. |
| Rsync (`rsync`) | 669 | row of the run | `Run` | One command; takes neither controller nor lock. |
| Store (`store`) | 10469 | all tables | `Open`, statements and transactions | Conditions of updates; references kept by code; an upgrade without a version number, cut off and repeated, which must lose and undo nothing. |
| HTTP API (`httpapi`) | 7539 | `manualRuns`, sessions | about 150 routes | Validation and delegation; read-modify-write of rows. |
| Databases (`database`), domain, configuration, sign-in, diagnostics, probes, web interface | about 5000 | | | Adapters, validation and presentation: sequential code. |

### 1.2 Interactions

- `httpapi` and `scheduler` call `backup.Service.Run`, `agenttask.Service.Run` or
  `rsync.Service.Run` for a task, depending on where it executes. `taskrun`
  tells the observers of alerts and capacity when a run has ended, with a
  context that does not end with the run's.
- `backup.Service.Run` inserts the row of the run, then passes
  `run.Controller.Execute`, whose attempts pass `repolock.Registry.With`.
  Maintenance, key rotation, connection and restores of paths pass `With` only.
  The one registry is shared by all of them (`main.go:427`).
- Runs on an Agent, rsync and restores into databases pass neither. A lease in
  the database is all that ties the Agent's work to the service. Restores,
  listings and capacity probes on Agents use requests of their own tables, with
  the same protocol.
- The status column of a repository is written by local runs, by
  `agenttask.Service.finish`, by maintenance, by connection jobs and by the edit
  form. Local writers other than the form hold the repository lock.
- Managed operations set `draining_at`, which the claim of a lease tests.
- Plans and maintenance policies share one recorder and the table of occurrences.
- Long jobs of the handlers (rotation, initialisation, restores, deployment) are
  operations of `operation.Manager`, most of them with a unique key.
- Handlers that change a resource with a secret write the vault and the row in
  separate transactions; export and import read and write both.

## 2. Modules

| Module | Models | Checked in run |
| --- | --- | --- |
| `ExclusiveAccess` | what callers of `Registry.With` are promised | `controller_safety` (as a refinement) |
| `RunController` | `run.Controller.Execute`, `repolock.Registry.With`, the row of a run, recovery | `controller_safety`, `controller_live` |
| `RepositoryProtection` | one repository and its writers: local runs, Agent runs, maintenance, connection, edit form | `protection` |
| `AgentLease` | `agenttask.Service.Run`, `agentcontrol.Service`, `agentruntime.Runtime.Step`, the managed restart | `lease_failures`, `lease_live` |
| `ScheduleCadence` | `NextAnchored` and the decision of `RecordDue` | with `ScheduleOccurrence` |
| `ScheduleOccurrence` | `Dispatcher.Tick`, `Recorder`, `executeOccurrence`, recovery | `schedule_safety`, `schedule_live` |
| `RepositoryCapacity` | the capacity dispatcher, probes, requests to Agents, policy rows | `schedule_safety`, `schedule_live` |
| `OperationManager` | `operation.Manager` | `services` |
| `VaultKey` | `vault.KeyFile`, `secret.VaultController`, the gate | `recovery` |
| `DatabaseUpgrade` | `store.Open`: a database of any earlier release is brought to this one's tables | `services` |
| `ApplicationUpdate` | the managed update, its helper and its row | `services` |
| `ApplicationInstall` | `InstallCurrent` and `installExecutableForScope` | `services`, `install_legacy` |
| `ServiceMigration` | `migrate-to-root` | `services` |
| `RepositorySecrets` | set-up drafts, initialisation, rotation, revocation, deletion | `recovery`, `setup_retry` |
| `RestoreVerification` | `restoreverification.Service` and the policy of one task | `recovery` |
| `ControlPlaneExport` | `controlplane.Service.Export` beside changes of the configuration | `recovery` |
| `ControlPlaneImport` | `PreflightImport`, `Import`, beside the CA and handlers | `recovery` |
| `ResourceReferences` | hosts, Agents, repositories, connections, tasks and their secrets | `administration` |
| `TaskWork` | previews, plans, policies, occurrences and runs of tasks | `administration` |
| `AgentIdentity` | enrolment, heartbeat, renewal, revocation | `administration` |
| `AgentInstallation` | deployment, upgrade, probe, removal of an Agent; installation of its Restic | `administration` |
| `AgentEndpoint` | the configuration of the HTTPS endpoint for Agents | `administration` |
| `Restore` | confirmations, and restores of every kind | `lease_failures` |
| `Alerts` | observers, reconciler, notifications | `lease_live` |
| `Scheduling`, `Restores`, `Services`, `Recovery`, `Administration` | several of the above side by side (see below) | as their parts |
| `MC…` | the instances TLC checks | |
| `…Proofs` | theorems and proofs | |

A definition named `X_Something` with the comment "mutant" is not part of a
model: it is the form of `X` with a plausible bug, kept to show that the
properties of the runs detect it.

**Compositions.** Five modules put components side by side whose models share no
state: each extends one of them and instantiates the others, with variables of one
name renamed, and names the properties they promise. Their constants get the
assumptions the proofs use there. `Scheduling` is `ScheduleOccurrence` with
`RepositoryCapacity`; `Restores` is `AgentLease` with `Restore`; `Services` is
`OperationManager` with `ApplicationUpdate`, `ApplicationInstall`, `ServiceMigration`
and `DatabaseUpgrade`; `Recovery` is `RestoreVerification` with `RepositorySecrets`,
`VaultKey`, `ControlPlaneExport` and `ControlPlaneImport`; `Administration` is `TaskWork` with
`ResourceReferences`, `AgentIdentity`, `AgentEndpoint` and two instances of
`AgentInstallation`, of which the variable `tool` picks one for a behaviour.

**Instances with parts.** An MC module extends a composition. Its initial state picks
a `part`, only the steps of that part follow, and the other variables keep one value:
the states of such a run are the union of the states of its parts, nothing is a
product. A part may also restrict a component: in `recovery`, `RepositorySecrets` is
checked once with one actor at a time and several rotations ("alone"), once with any
two actors at once and one rotation ("pairs"). Where a composition states fairness, the
fair actions of a part are disabled in the states of the others.

### 2.1 RunController

The state is the controller's own: `runningTasks`, `global` (tokens in the channel),
`mutex` (holder of each `sync.Mutex`), `lock` (holder of each channel of the registry),
and per request its place in `Execute` (`pc`), its attempts, its result and the status of
its row. A request is a call of `backup.Service.Run`. The actions follow the code in
order: `StartRun` inserts the row; `Admit` tests and sets the flag under `mu` (a second
run is skipped); `AcquireSlot`, `LockMutex`, `EnterRepository` wait; `Return` ends an
attempt (success, temporary or permanent error; a temporary one leads to a backoff while
attempts remain, with slot and mutex held but the repository lock returned); `GiveUp` is
a cancelled context at the three waits that look at it (the mutex is not one of them);
`UnlockMutex`, `FreeSlot`, `ClearTask` are the deferred calls in reverse order;
`FinishRun` writes the result. `UserEnter` and `UserLeave` are callers of `With` that do
not pass the controller. `Restart` loses all memory and lets recovery fail the rows that
are `running`.

### 2.2 RepositoryProtection

A backup that could not read every file leaves a partial snapshot, which must survive
retention until a complete one supersedes it: it is tagged, or when tagging fails its id
is kept in the status of the repository, which stops maintenance. Every Restic command
and every statement is a step. `Load` is the read of the status before the waits;
`BeginAttempt` (with lock) decides on that copy; `TagPending`, `MarkReady`, `Backup`,
`ProtectPartial`, `RecordUnprotected`, `ClearTags` are `execute`. The Agent's side is
`Dispatch`, `Hydrate` (the builder reads the status when the lease is claimed),
`AgentTagPending`, `AgentBackup`, `AgentProtect`, `ApplyResult`
(`agenttask.Service.finish`), `DropWaiter`, `Discard`. `BeginMaintenance`, `Forget`,
`Prune`, `Check`, `StopMaintenance` are `maintainUnlocked`; the retention policy is any
choice among untagged snapshots. `BeginConnect`, `EndConnect`, `PublishInitialized` are
`Initialize` and `VerifyExisting`; `EditRead` and `EditWrite` the handler of the edit
form, which writes all columns back. `exposed` is a history variable: the partial
snapshots whose protection the code itself gives up (the status update that records them
fails and the error is dropped, the service stops before they are recorded, a status that
holds them is overwritten, nobody waits for the result any more).

### 2.3 AgentLease

`record`, `waiter` and `verdict` are the side of `agenttask.Service.Run`;
`lease` and `overdue` the row of `agent_leases` (an expiry time is whether it
has passed; a renewal that arrives late makes a lease no longer overdue);
`phase`, `job`, `outcome`, `executions` the Agent; `net` the requests on their
way; `draining`, `revoked`, `manager` the managed restart. A claim is committed
before its answer is sent (`ClaimLease`, then `Hydrate` or `HydrateFails`). Requests
can be lost or arrive late, answers can be lost; the Agent repeats the delivery
of its result until it is answered with something it does not retry. The poll
and the expiry of the waiter are two statements (`PollLease`, `Expire`).
`CancelRun` is the end of the run's context, which also hits the statements that
are being made with it.

### 2.4 ScheduleCadence and ScheduleOccurrence

`ScheduleCadence` is pure: the next due time of an interval schedule with Go's
truncating division, and the decision whether a due time runs or is missed.
`ScheduleOccurrence` has the dispatcher's place in `Tick` (`phase`) and its local
variables (`tick`), the plans, the rows of `schedule_occurrences` (`occ`) and the
goroutines (`task`). The plans are read once per tick (`BeginTick`), before any of
the statements: `TakePlan` (reads the cursor), `RecordDue` (`INSERT OR IGNORE` of
one due time), `Claim` (pending to running, launch), each of which can fail and
end the tick (`EndTick`). `EditPlan` moves the anchor when the schedule changes or
the plan is enabled. `Shutdown` ends the context, `Restart` loses what is in
memory and interrupts rows that are open. A maintenance policy is a plan with one
target.

### 2.5 What the service does for itself

`OperationManager`: `pc` is the place of an operation in `Start`, `StartUnique`
and `run`, `unique` and `active` the maps of the manager, `record` the rows. What the
mutex protects is one action (`Reserve`, `Launch`, `Leave`), every statement another
(`Create`, `Begin`, `Finish`), and each statement may fail; `lost` are the operations
whose last statement did. `Close` and `CancelParent` end the service, `Restart`
recovers the rows.

`VaultKey`: a key is its number; the file names a key and what wraps it. `file` is what
readers see and `durable` what a loss of power may leave there: a creation or a rename
whose directory is not synced can be taken back, and `CreateKey` syncs none. `kept` and
`lost` are history: keys that a synced directory has named, and keys that `LosePower` has
taken. `BeginChange`, `Rename`, `SyncDirectory`, `EndChange` are `LockOnRestart` and
`Automatic`, which no mutex serialises; `Load`, `OpenGate`, `EndUnlock` are `Unlock`.
`alone` and `expected` are history: a change that nothing overlapped with, and what the
administrator may expect of the file.

`ApplicationUpdate` has one action per step of the helper (`Check` to `Wait`), the way
back (`RollBack` to `WaitOld`) and the rows it writes; the service restarts and the
machine reboots anywhere. `ApplicationInstall` is the command `install-app` with the
way back of each failure. `ServiceMigration` is `migrate-to-root` with its marker, cut
off and run again at any step, while the user writes data through whichever service
runs.

`DatabaseUpgrade` has one action per step of `migrate`, in its order (`at`); there is no
version number, so a step looks at `columns`, `tables` and `rows` only. The initial
states are databases of earlier releases: every set of missing columns with every old
form of the rows. The process stops at any step and starts again, and an open database is
written to by requests, of which the steps of the next start should undo nothing and undo
two settings (`Undone`, section 5). `intended` is what the rows mean, with every request
since; `cut` that a stop fell between adding a column and the inference made for it
(section 5).

### 2.6 Secrets, restores that can be trusted, bundles

`RepositorySecrets`: a secret is an id and a password; keys of Restic are named by
the secret whose password opens them. Each of `Create`, `Apply`, `Cancel`, `Rotate`,
`Revoke`, `Remove` is a program of several actions, one per statement or Restic command,
and the actors that run them overlap.

`RestoreVerification`: `record` is the row of an attempt, `content` what is in its
directory; `CountCleanups`, `DropPolicy`, `Disable`, `DeleteTask` are the deletions that
must notice what is left. `ControlPlaneExport`: `Snapshot` is the transaction that
reads the rows, `ReadSecret` the reads that follow it, `Seal` what `SealBundle`
accepts. `ControlPlaneImport`: `BeginImport`, `Put`, `InstallKey`, `InstallCert`,
`Commit`, and `Undo`, `UndoCA` for what fails; `CreateHere`, `StartAgents`, `MakeKey`,
`MakeCert` are the service that goes on meanwhile.

### 2.7 Administration

`ResourceReferences`: a call reads and stores its secret, commits a row in a transaction
that checks references again, and discards what is left over. `TaskWork`: two tasks, a
plan and work, and one task in several forms, because what confirms a scope (`previews`)
is consumed in another transaction than the one that writes the task. `AgentIdentity`:
the two machines want to be the same Agent; `requests` are under way, `disk` is what a
machine has stored, a renewal is two files and a pending certificate.
`AgentInstallation`: `active`, `previous`, `staged` are the programs on a host, `running`
its process; the constant `Tool` selects the Agent or its Restic, whose protocols differ
in who verifies the new version. A remote command is a script in `scripts`, of one step
for each file it moves and each start of the service; `Send` begins it, and `GiveUp` (a
timeout, a cancellation, a lost connection) goes on without it while its own steps follow
beside those of the next command. `AgentEndpoint`: `StopOld`, `Build`,
`SaveAgentServiceSettings` and `Rollback` are `Configure`.

### 2.8 Restores, alerts, capacity

`Restore`: a confirmation is made by a preflight, authorised and consumed once; a request
is a directory, a file or a database, here or on an Agent; `target` is what is there,
`others` what somebody else has done there, at any moment: `exposed` remembers that they
made a database between two statements of a restore. `Alerts`: `object` is what the alert
is about (a task, a plan, a verification, a repository, an Agent, a condition), and
decides which statuses raise it; `seen` is what a producer read before it acts.
`RepositoryCapacity`: `claim` is the claim of a row for ten minutes, `revived` are the
policies a start has enabled (`EnableAll`) that have no time for a probe yet, `order` the
requests an Agent has to fetch, `behind` the probes that looked at the clock before one
that has already written.

## 3. Runs

All are started in this directory, for example `tlc -config RunControllerSafety.cfg
MCRunController`. States are distinct states, rounded; the times are of two workers.

| Run | Instance and bounds | States | Shows |
| --- | --- | --- | --- |
| `controller_safety` | 3 requests (two of one task), 1 maintenance user, 2 repositories, 1 slot, 2 attempts, 1 restart | 917 000, 1 min | `MutualExclusion`, `NothingLeaks`; implements `ExclusiveAccess` |
| `controller_live` | part `crowd`: 3 requests of different tasks, two on one repository, 2 slots; part `retries`: 2 requests and 1 user on one repository, 2 slots, 2 attempts, 1 restart | 112 000, 1 min | `EveryRunEnds` |
| `protection` | part `local`: 2 local runs, maintenance, a connection job; part `agent`: 2 Agent runs, maintenance, the edit form; 4 snapshots, 2 attempts, 2 restarts | 190 000, 10 s | `PartialsAccounted` with and without the lock, `LocalPartialsKept` |
| `lease_failures` | part `lease`: 1 cancelable run, 1 Agent, 1 restart, 1 crash, 1 failing statement; part `restore`: 2 restores of 2 snapshots at one target, 2 acts of others at any moment | 852 000, 40 s | `AtMostOnce`, `SuccessIsReal`, `RunEndsWithLease`, `DrainSparesLiveWork`; `RestoresWhatWasConfirmed`, `SparesOthers` |
| `lease_live` | part `lease`: 1 run, 1 restart, 1 crash, no cancellation or failing statement; part `alerts`: 2 observers, the reconciler, 6 sorts of alert, 1 failing statement | 339 000, 1 min | `LeasesEnd`, `AlertsConverge` |
| `schedule_safety` | part `schedule`: 2 dispatchers, 1 plan with 2 tasks, intervals 1 and 2, 2 time units, 1 due time per tick, an edit, a restart, a failing statement; part `capacity`: 2 repositories, one on an Agent, 1 probe at a time | 843 000, 1 min | `AtMostOncePerDue`, `NoGaps`, `NoOrphans`; `MonitorHolds` |
| `schedule_live` | part `schedule`: 1 dispatcher, 2 plans, 2 due times per tick, 1 restart; part `capacity` | 70 000, 1.5 min | `LaunchesNewest`, `OccurrencesEnd`, `ProbesGoOn` |
| `services` | 3 operations, two with one key, 1 failing statement, and 2 of them with 1 restart; 2 updates and 3 versions; 1 installation; 3 runs of the migration with 2 writes; 2 troubles each; 2 Agents, 2 hosts and 2 deployments in a database of any form | 763 000, 1.5 min | `KeysAndRowsAgree`, `KeyIsFreed`, `UpdateIsHonest`, `InstallRestores`, `MigrationIsAtomic`, `UpgradeKeeps` |
| `recovery` | 1 repository with a draft, 3 secrets, 1 trouble, one caller at a time or any two at once; 2 verifications with 2 restarts; 1 bundle of 4 secrets; 2 imports of 2 bundles; 2 handlers, 2 passphrases and 2 keys of the vault, 2 troubles | 774 000, 1.5 min | `PasswordsSurvive`, `RevocationRepeats`, `LeftoversAreRecorded`, `BundleIsOneMoment`, `ImportIsWhole`, `VaultHolds` |
| `administration` | 3 secrets and overlapping calls, around a host, an Agent and their repositories, or a repository moved to S3 and back, and a database connection; 2 tasks, 1 plan, 1 occurrence; 1 task in 3 forms, 2 calls; 2 machines and 2 tokens; 2 operations with 3 versions, one broken, on a host with or without the tool, 2 troubles; 3 configurations of the endpoint | 1 040 000, 1.5 min | `ReferencesHold`, `BackupsStayPut`, `WorkIsRooted`, `TasksFit`, `AccessHolds`, `UpgradeRestores`, `EndpointAsStored` |
| `setup_retry` | a draft and its retries | violation | see section 5 |
| `install_legacy` | one installation | violation | see section 5 |

**Why the bounds suffice.** The shortest way to break each property in the code's
neighbourhood (the mutants) needs fewer actors than the instances have: two runs and one
user of the lock for exclusion; a third request makes a run of the same task wait behind
a skipped one. For waiting, two runs that share a repository and hold both slots, and a
third that needs one: the shortest queue in which a run waits for the mutex with a slot
in its hands and keeps another repository waiting. Two runs of a task make a partial
snapshot and a complete one that supersedes it, and with a retry each two more. A
restart, a crash and a failing statement can fall at any step, so one of each reaches
every place they can disturb; two troubles make the way back fail as well; several of
them in one behaviour are covered by the proofs, whose bounds are arbitrary. Two due
times are what catching up and the limit per tick need. Handlers race in pairs, so two
callers of each sort are there where their calls can overlap. Three versions are one that
works, a broken one and a next one that must not be lost to it; a second operation meets
what the first has left on the host, its scripts included. The names of the bounds:
`MaxAttempts`, `MaxSnapshots`, `MaxRestarts`, `MaxCrashes`, `MaxFaults`, `MaxEdits`,
`Horizon`, `MaxTroubles`, `MaxCalls`, `MaxOps`, `MaxSecrets`, `MaxBundles`, `MaxImports`,
`MaxUpdates`, `MaxVersion`, `MaxWrites`, `MaxRuns`, `MaxKeys`, `MaxOthers`, `MaxSaves`,
`MaxSnapshot`, `MaxDeployments`. Only `MaxAttempts`, `MaxParallel` and `MaxPerTick` are
in the code too.

**Stopping.** Deadlock is checked only where it means something. In `controller_safety`
every state has a successor. In the others an instance has a fixed number of runs, calls
or troubles, or a last moment of time, and is over when they are.

**Symmetry** is used in safety runs only, over model values that no definition
tells apart.

**Fairness.** *Controller:* goroutines run, operations return (Restic commands end or are
killed with their context), users of the lock leave it; strong fairness for the three
waits, since a sender on a full Go channel is queued first in, first out, and
`sync.Mutex` hands over to a waiter that starves. Nothing is assumed of cancellation or
restarts; a wait (`Waits`) and what a run does by itself (`Runs`) are one fair action
each, as a goroutine has one next step at a time. *Lease:* the waiter polls, the Agent
goes on with a step it has begun and repeats its delivery; a lease that nobody renews
passes its expiry (`Lapse` is fair, and renewals that never stop keep the lease open only
while the Agent executes, which is fair as well); of deliveries repeated for ever one is
answered (strong fairness of `AnsweredResult`). Claims are not fair: an Agent may stay
away, and the run must be decided all the same. *Schedule:* the ticker ticks, goroutines
run and tasks end, a service that shuts down is started again; time need not advance.
*Operations:* calls of handlers and goroutines go on, and a `Close` that began ends.
*Secrets:* an actor that has started goes on; a revocation that is asked for again and
again gets the repository lock (first in, first out); `setup_retry` assumes of the
administrator, to the draft's advantage, that he retries for ever. *Alerts:* observers go
on and the reconciler ticks; nothing is assumed of the state it watches. *Capacity:* the
dispatcher ticks, probes go on, their times come. Agents need not answer, and
`ProbesGoOn` says what happens when they do: the code waits for an answer as long as it
takes (section 5).


## 4. Proofs

`tlapm` checks every module named `…Proofs`. The constants are arbitrary sets and
numbers, restricted by the assumptions listed below only; the bounds of section 3 are
arbitrary too. Every safety property of a run that passes, invariants and action
properties alike, is the conclusion of a theorem: the run shows it on a small
instance, the theorem for every instance. The theorem is about the specification of the
component, `Init /\ [][Next]_vars`, and of a composition about the part it names
(`References!Spec`, `ToolSpec`, and so on); `LocalKept` is about the choice between
parts that the run `protection` makes.

| Module | Theorems |
| --- | --- |
| `RunControllerProofs` | `TypeCorrect`, `Exclusion`, `SingleRun`, `BoundedParallelism`, `NoLeak`, `RecordsAreFinal`, `ImplementsExclusiveAccess` |
| `RepositoryProtectionProofs` | `TypeCorrect`, `Accounted`, `MaintenanceExclusion`, `Kept`, `LocalKept` |
| `AgentLeaseProofs` (`Restores`) | `TypeCorrect`, `ExecutedAtMostOnce`, `RecordedSuccess`, `EndsAfterLease`, `LeasesAreFinal`, `DrainIsEffective`; `RestoresAsConfirmed`, `RestoresSpareOthers` |
| `ScheduleProofs` (`Scheduling`) | `NextIsLeastDue`, `AggregateIsHonest`, `TypeCorrect`, `ClaimedOnce`, `WorkIsRecorded`, `RowsHaveOwners`, `OccurrenceIsBounded`, `RecorderLeavesNoGaps`, `CatchUpRunsNewest`; `MonitorNeverLoses` |
| `ServicesProofs` (`Services`) | `TypeCorrect`, `KeysAgree`; `UpdatesAreHonest`, `FailedInstallsRestore`, `MigrationsAreAtomic`, `UpgradesKeep` |
| `RecoveryProofs` (`Recovery`) | `TypeCorrect`, `LeftoversHaveRows`; `PasswordsAlwaysSurvive`, `BundlesAreOneMoment`, `ImportsAreWhole` |
| `AdministrationProofs` (`Administration`) | `NothingOutlivesItsTask`, `ConfirmationsFit`; `ReferencesStayValid`, `BackupsNeverMove`, `OneMachineIsTheAgent`, `UpgradesRestore`, `EndpointFollowsStore` |
| `VaultKeyProofs` (`Recovery`) | `TypeCorrect`, `KeySurvives` |

`PROJECT.json` lists all of them with what each establishes. Some state properties
that no run needs to spend its time on, because the proof settles them for every
instance: one run per task, slots in use, maintenance on a ready repository, final
rows of runs, of leases and of due times.

**Assumptions.** Each is named, stands in the module that declares the constants and
is evaluated by TLC in the runs of that module.

| Assumption | In | Says |
| --- | --- | --- |
| `ParametersAssumption` | `RunController`, `RepositoryProtection`, `AgentLease`, `ScheduleOccurrence`, `OperationManager` | kinds of actors are disjoint, what is counted is finite, there is a slot and an attempt, bounds are numbers, a constant that means nobody is nobody |
| `OneTarget` | `RepositoryProtection` | the task runs on the service or on an Agent |
| `RestoresAssumption` | `Restores` | a request is not nobody, a snapshot is not an unfinished one |
| `ProbesAssumption` | `Scheduling` | finitely many repositories, each of which the dispatcher may probe |
| `DeploymentsAssumption` | `Services` | having no host is not a host |
| `ImportsAssumption` | `Recovery` | the bound on imports is a number |
| `ReferencesAssumption` | `Administration` | the names of nobody, of the controller and of S3 are not identifiers; hosts are not Agents; the forms of repositories and tasks are those validation lets pass |
| `EndpointAssumption`, `VersionsAssumption` | `Administration` | being switched off is not a port, having no file is not a version |

Three theorems have a hypothesis besides: `Kept` and `LocalKept` (no Agent runs and no
edits of the form) and `CatchUpRunsNewest` (`OneDispatcher`: a service starts one
dispatcher of plans; with two, a slow tick could launch what it recorded before a newer
due time).

*RunController.* None of the properties is inductive: exclusion says nothing of
who holds the lock. `IInv` ties each resource to the places in the program that
hold it (`LockHeld`, `MutexHeld`, `TaskHeld`, the token count equals the number of
`SlotHolders`), says that a decided request has a result and that a backoff has
attempts left. Exclusion and absence of leaks then follow without looking at
steps. Final rows need `Decided` (a row is written with a terminal result only)
and that only a running row is recovered. For the refinement, `working` is the
set of operating actors of a repository: `EnterRepository` and `UserEnter` are
`Enter`, `Return` and `UserLeave` are `Leave`, `Restart` is `Stop`, everything else
stutters; the lock invariant makes the sets empty when `Enter` needs it.

*RepositoryProtection.* `PartialsAccounted` holds for local and Agent runs alike.
It needs `OwnPlace` (a run that still has a partial snapshot in hand is at the
places where it protects it) and `ClearingSuperseded`: when the tags are about to
be removed, no partial snapshot is left that no complete one supersedes, because
the lock keeps other local runs from making one. `OneTarget` (the task runs on the
service or on an Agent) keeps an Agent's run from doing so. `Kept` and
`MaintenanceExclusion` are proved for local runs without edits of the form, which
is what the code gives: an Agent or the form can change the status while
maintenance works (section 5).

*AgentLease.* `AtMostOnce` needs that an unclaimed lease has left no trace on any Agent
and that an Agent that has not begun has not executed. `SuccessIsReal` follows results
from the Agent through the network and the lease to the waiter: what is on its way, and
what the waiter holds, is the outcome. `RunEndsWithLease` is conditional on no restart
and no failing statement, which is what the code promises. `DrainSparesLiveWork` is an
action property from `DrainAccounted`: after the drain was observed no claim succeeds
while `draining_at` is set, and only the manager clears it.

*Schedule.* `NextIsLeastDue` is arithmetic on the truncating division.
`ClaimedOnce` is the invariant that a due time that was launched has left the
states a claim accepts. `RecorderLeavesNoGaps` is the longest: a tick works from
the schedule the plan still has, or from one older than the anchor the edit gave
the plan (`Recording`, with `Clock` for the order of the times); in the first case
all due times up to its cursor are recorded and the next one it records is the
least due time after it, in the second it records nothing after the new anchor.
`RowsHaveOwners` (`NoOrphans`) needs that whatever runs has a row that is still open
(`RunningIsRecorded`); `AggregateIsHonest` says of any number of tasks what the status
of their occurrence means. `CatchUpRunsNewest` is an action property: that a launched
due time is the newest of its plan needs that, while a tick is at a plan, everything
recorded of it lies at or before the tick's cursor, and that what the tick is to run is
the cursor itself (`CatchUp`, on top of `Recording` and `Clock`).

*Capacity.* `MonitorNeverLoses` rests on `MonitorInv`: the set of repositories the
dispatcher counts as active is exactly that of the probes it has under way, so the
comparison of its size with the limit, made before a probe starts, is about the probes;
and only a probe of the dispatcher takes a repository out of that set
(`LeaversAreItsOwn`), not one made by hand. That an enabled policy without a time was
enabled by a start holds by `PoliciesFit`: every save that enables a policy, every claim
and every outcome gives it a time.

*OperationManager.* That keys and rows agree is not inductive, since between two
statements they need not: `IInv` says of every place in the program who holds the key
(`KeyHeld`, `KeySingle`, `KeyUsed`), that a row is closed before its operation forgets
it unless the statement failed (`RowClosed`, with `Judged` for the outcome), and that
open rows belong to operations that live (`OpenRowsAreLive`).

*VaultKey.* No assumption: any handlers, passphrases and bounds. The invariant is
`OneKey` (every image of the file, the one a loss of power may bring back included, holds
the key that sealed the secrets, unless that key is lost or not kept yet), `KeptOrLost`
(a key is lost only while no synced directory names it, and no key is made while one is
there), `Working` (an unlocked process holds it), `Expected` and `Alone` (a change that
nothing overlapped with leaves the file and the mode that is shown in agreement).

*ApplicationUpdate.* `UpdatesAreHonest` is about the rows that are written and the files
that are there, which a second request, a restart of the service or its clean-up of old
rows may change in between. `UpdateInv` says that at most one row is open
(`OneRowOpen`), that the row of a helper at work is running and too young to be
interrupted (`HelperRow`), which is why no other helper is at the files
(`HelperAlone`), and what each step of the helper finds in them (`HelperFiles`).

*ApplicationInstall.* `InstallInv` says for each step what is already replaced, and what
was saved for the way back before it was. `InstallRestores` is about installations over
a program that was there; that the service of an earlier release is lost otherwise is a
departure (section 5).

*ServiceMigration.* A migration is cut off and taken up by another run, so the invariant
goes by the marker, not by the run: which steps a marker admits (`MarkerFits`), that a
copy is whole and of what was last written unless the user service was started again
(`CopiesFit`), and that what has been removed is not needed any more (`Replaced`).

*DatabaseUpgrade.* `UpgradeInv` has two halves. The form: what a step adds is there from
that step on (`FormFits`). The rows: at every step, in the old form or the new one, they
still mean what is intended (`MeaningFits`), where the intention follows what a start
undoes, and the steps that are done have left nothing of the old form (`RowsFit`). Two
things are not a matter of a single row. Whether an Agent is managed is inferred from the
deployments exactly while the column is new (`ManagedFits`). Which host an Agent is bound
to depends on the order of the bindings, as two Agents may have been deployed to one
host: while Agents are being bound, those that are not yet are the ones that are due
(`Pending`), and among them the one with the latest deployment to a free host gets it
whatever the order (`HostsFit`). That a latest deployment exists is the well-foundedness
of the natural numbers.

*RepositorySecrets.* `PasswordsAlwaysSurvive` needs who holds the repository lock
(`SecretsLock`), that nothing precedes the draft (`DraftFirst`), that what a rotation is
about to commit is its own secret and its key has been added (`RotationFits`), and that a
key is not removed while its secret may still be the repository's password
(`OpenedFits`). That no secret is left over holds without a failure and without a
race only; `CalmFits` is what is then true of every place in the programs.

*ControlPlaneExport, ControlPlaneImport.* The snapshot of a bundle is of one moment
because the configuration is self-contained at every moment (`SelfContained`), and a
secret is read later by the name the snapshot has for it: it is the one of that moment,
or it is gone and the export fails. `ImportInv`: the import under way has no
rows yet and its secrets are in the vault (`MineFits`), the files of the CA are whose
they seem to be (`FilesFit`), a secret of an import is in use, in hand or reported as
left (`StoredKnown`), and the rows of an import are all of its bundle's
(`RowsComplete`).

*TaskWork.* No assumption. Every reference in the work of a task must have a task at
its end, so `IInv` is the property with what it refers to (`WorkIsRooted`, `TasksFit`,
`RowsConfirmed`, `TargetsNamed`) and `IdsUsed`: an id that was given out is not given
out again, without which a deleted task could come back under old work.

*ResourceReferences.* References are kept by whoever deletes: a transaction checks them
again, so no row loses what it refers to. The invariant adds to `ReferencesHold` that a
new identifier is of one call (`NewIds`) and what the rows in the hands of calls may be;
a secret is deleted by whoever left it over, and only if no row refers to it (`Discard`),
and a transaction checks that the secrets it writes exist. So an edit of a repository,
which writes back the id of the credentials it has read (`RepositoryEdits`), leaves a row
whose secrets are there, even where it puts older credentials in the place of newer ones.
`BackupsNeverMove` is an action property of the same invariant.

*AgentIdentity.* Certificates are told apart by their serials (`SerialsIssued`), a
machine holds its own (`CertificatesAreOwn`), and there is one active and at most one
pending (`OneOfEach`). `AccessHolds` speaks of the machine that enrolled last; a renewal
that a revocation overtook is an exception the code makes (section 5), and
`RenewersKnown` says that there is no other: besides machines overtaken, live
certificates are of one machine, and only it can still be sent one.

*AgentInstallation.* One proof for each of the two tools, whose operations differ.
`HostInv` follows the files through an operation and its scripts. While an operation has
given up no script and has found none at work (`Going`), the only script on the host is
the one it waits for (`ScriptIsAwaited`), what it found stays until it activates
(`FoundStays`), every step of an activation leaves the former program parked or in its
place (`ActivationFits`, `CanReturn`), on trial there is something to return to
(`TrialCanEnd`), each step of a way back leads there (`RollbackLands`), and what it
leaves when it reports its end is sound (`EndIsSound`). Once a script goes on by itself
nothing of this is claimed. `UpgradesRestore` is an action property, since a later
operation may start from whatever is there.

*AgentEndpoint.* Store, memory and listener disagree while `Configure` works; `EndpointInv`
says for each of its steps which of them have the old settings and which the new.

*Restore.* Two requests meet at one target. What is about to be published is what was
asked for (`StagingFits`); what was delivered stays there while others remove nothing
(`PathsDelivered`); for a database, while the request that made it is at work, any other
that imports has been overtaken, found the database before it was marked (`OwnerFits`).
`RestoresSpareOthers` needs `OthersApart`: a database that others made has no mark of a
restore, and no restore is about to mark or to drop it, unless they made it between two
statements of one (`exposed`).

*RestoreVerification.* No assumption. `LeftoversAreRecorded` needs `RowsFit` (a row is
ahead of the place of its attempt, so that what a stop leaves behind has a row to be
recovered) and `GoneIsGone` (a directory that was removed is not filled again).

**Only model-checked.** The temporal properties `EveryRunEnds`, `LeasesEnd`,
`AlertsConverge`, `OccurrencesEnd`, `ProbesGoOn`, `KeyIsFreed` and `RevocationRepeats`:
they depend on fairness, whose proof needs ENABLED, which is out of the prover's reach.
`Alerts` has no safety property besides and so no theorem. Which states the parts of a
run reach, and that every action occurs in them, is for TLC alone to show.

## 5. Departures

Two runs end in a counterexample, on purpose: the property is a sentence of the
repository and the code does something else.

- `setup_retry` (`repository/service.go:318`, `store/protection_setup.go:207-209`): a
  draft whose `restic init` succeeded, without its answer being recorded, is never
  completed by a retry.
- `install_legacy` (`appinstall/service.go:91`, `serviceinstall/service.go:778-779`,
  `service_test.go:330`): an installation over the service of an earlier release that
  fails removes the service it has just restored.

The models also allow what the code does in the cases below, and the properties are
stated so as to allow it. They were found by reading and modelling; each says where a
property is weaker than one would wish.

*Runs and repositories.* A run that loaded the status before an earlier run recorded its
unprotected snapshot backs up without tagging it first (`backup/service.go:63` against
the comment at `:144`). A run that waited goes on in a repository that maintenance has
made abnormal meanwhile. Any error of `restic check`, a lost connection included, makes
the repository abnormal (`repository/service.go:1104`). Maintenance writes ready over the
pending status an Agent's result has written (`:1107`), and the edit form writes back the
status it read. A run whose context ends while its lease is read keeps a running row
until the next start (`agenttask/service.go:82`, `src/CONTEXT.md:132`). The limit of a
plan on parallel tasks is one semaphore per occurrence (`scheduler/dispatcher.go:87`,
`dispatcher_test.go:90`): two occurrences that overlap exceed it. An enabled plan may
hold a disabled task.

*Resources.* The form of a repository sends back the id of the S3 credentials it has read
(`httpapi/server.go:6660-6662`), and the row's own are taken only for an empty id
(`store/crud.go:109-111`), which this handler never sends: an edit that overlaps with a
change of the credentials puts the older ones back, while they exist, and deletes the newer
ones as obsolete (`:157-158`).

*Leases.* A lease that has expired is not counted as active work, so a managed restart
interrupts it (`agentdeploy/upgrade.go:372`). A transient error of storing a result is
answered with 409, on which the Agent drops it (`agentcontrol/handler.go:67`).

*Secrets and drafts.* `Cancel` racing `Apply` can leave an item with a deleted secret and
a draft that no call completes, and after a stop a stale copy makes a repository with an
empty password. A stale item written back after a rotation makes
`CompleteRepositoryKeyRevocation` fail for ever (`RevocationRepeats` requires that the
item's secret is not that copy). Stops orphan secrets in several places. The purpose of a
temporary connection can be edited to backup before it expires
(`store/resources.go:254-299`).

*Tasks.* `UpdateTask` does not look at active work; pruning makes the identity of a
task editable again; the confirmation of a preview is consumed before the task is
written, so a failure in between costs it; saving scope rules writes back a stale
`enabled`; deleting a task marks a running occurrence of other tasks cancelled
(`store/delete_preview.go:537`); deleting it also deletes verification rows whose
cleanup is required, where deleting the policy refuses.

*Agents.* A lost answer to an enrolment burns the token and leaves the id active, so it
has to be revoked first. A renewal can be overtaken by revocation and re-enrolment
(`store/agents.go:635`). A pending certificate that is not used before it is due is
retired by its own renewal if that answer is lost too. A stop between `agent.crt` and
`ca.crt` leaves an Agent that cannot start. The way back of an installation of Restic
removes a version that works when the activation was cut off before it began, or when
finalizing was cancelled after the previous file was removed, and reports "previous Agent
Restic restored". A command that is cancelled, times out or loses its connection is not
ended: closing the session (`transport.go:500`) leaves the script at work, beside the
rollback that follows (`upgrade.go:187-188`, `:432`), whose files it may move away after
the rollback has reported that the former program is restored; it may also reach into a
later operation. `UpgradeRestores` claims nothing for an operation with such a script
(`cut`). A rollback without `shadoc-agent.previous`, as when the activation never began,
looks for the service of an Agent of the old name and fails (`transport.go:62`), which is
reported as a failed rollback (`upgrade.go:436-437`); the program and the service are as
they were. A stop during an upgrade leaves a version that nothing has verified, and the
next activation deletes the last good one. A failing `EndAgentDrain` leaves the Agent
draining until a restart. A deployment that fails after the host was bound cleans up the
machine of an Agent that stays active and managed. Two Agent ids deployed to one host
overwrite each other.

*Updates and installation.* A failing synchronisation of the directory after the
rename returns without a way back and says that the old version was kept; so does a
failing record of `health_verified` (`managed_update_command.go:147-163`), while the
new version runs. A stop of the helper between binary and checksum leaves a pair that
does not match, and an unverified version becomes the "previous" one of the next
update. A row that a stopped helper left running blocks updates until a restart more
than ten minutes later. The health check does not look at the version. `update-app`
takes no lock against the managed update.

*Migration to root.* A reboot or a way back that restarts the user service while the
marker stays lets the next run copy over, or lose, what was written meanwhile
(`MigrationIsAtomic` exempts it by `restarted`); the health check of the root service
may be answered by the user service; a failing `disable --now` is ignored; staging that
cannot be removed makes later migrations refuse; a stale marker and a later root
installation together let a way back delete the root installation's data.
`src/README_EN.md:84` says that "A failed migration preserves the user instance".

*Upgrade of the database.* A stop between adding `managed_installation` and inferring its
value loses the inference for good (`store/store.go:1066-1079`; `agents_test.go:600`
expects Agents deployed earlier to be managed): `UpgradeKeeps` exempts it by `cut`. An
Agent that lost its host to another is bound again, at the next start, to the host of its
last deployment once that host is free, because `ensureAgentRemoteHosts` runs at every
start. Policies of restore verification are switched off by every start. A start also
enables all capacity policies but those of S3 and takes their limits away
(`repository_capacity.go:44-50`), although a request may disable them or give them limits
(`httpapi/server.go:2929-2963`). `UpgradeKeeps` asks for these two settings until the
next start only. Commands (`main.go:193`, `managed_update_command.go:96`) open the
database beside a service that may be upgrading it; two processes that upgrade at once
are not modelled.

*Restores.* A restore on an Agent whose claim is lost, or whose Agent dies after
claiming, waits with the repository lock until it is cancelled
(`agentrestore/service.go:100-127`); a cancelled one may still create its target. Two
restores into the same empty database can both succeed. A restore that found a database
just created by another reports success, and can lose it to the creator's cleanup. A
database created by others between the check and the `CREATE` makes the `CREATE` fail
(`postgres.go:107-109`, `mysql.go:115-117`), and is theirs still. But others may remove
the database a restore has just created and make their own before it is marked
(`restore/service.go:123-135`), so that it is taken for the restore's, or replace it
between the guard and the `DROP` (`:177-188`): `SparesOthers` exempts what they made in
these two windows (`exposed`). What they put into a database that a restore has made goes
with it when the restore fails and drops it. A failing removal of the staging directory
reports a failure although the target is published.

*Alerts and capacity.* An escalation is not notified; deliveries that cross leave a stale
last message; finally failed ones are not repeated. A wait for an Agent's measurement has
no timeout (`repositorycapacity/service.go:252-345`): as many unanswered requests as
`MaxParallel` stop all monitoring. A start enables policies that were disabled, without a
time for their next probe (`store/store.go:684`, `repository_capacity.go:44-50`), and the
dispatcher claims none without one (`:182`): such a policy is enabled and never probed
until it is saved or a probe of another kind ends; `MonitorHolds` exempts it (`revived`).
A late failure overwrites the error of a newer success.

*Vault.* `LoadOrCreateKey` syncs the file of the first key but not its directory
(`vault/vault.go:46-68`): until a change of protection has synced it, a loss of power may
take the key although secrets were sealed with it, and the next start makes another one
without a word. `VaultHolds` and `KeySurvives` except keys lost in this way, and no others.
Changes and unlocks that overlap can leave a mode on display that is not the
file's until the next change. A failing synchronisation of the directory reports an
error although the file has changed. A creation of `vault.key` that was cut off makes
every later start fail.

*Restore verification.* Nothing routes or dispatches `Run` and `SavePolicy` at this commit
(`httpapi/server.go:578-579`, `:598-600` register reads, deletion and clean-up only). They
are modelled as they are written; what can be reached today is the recovery and the
clean-up of rows that an earlier release has left.

*Export and import.* A stop after the CA files were installed blocks every later
import ("target Agent CA material already exists"). An Agent service that starts
between the installation of the CA and a failing commit goes on with a CA whose files
are removed. A certificate that is pending at the export is not in the bundle. Two
concurrent saves of notification settings can leave settings that name a deleted
secret, which fails every export (`httpapi/server.go:2033-2090`). A host without a
pinned key, or a secret whose value occurs in the manifest, makes the export fail.

## 6. What is not modelled

- Data: contents of snapshots, arguments and output of commands, credentials,
  formatting, logging, the cryptography of the vault and of TLS.
- Durations: an expiry, a retry delay or a poll interval is an order of events.
- Calendar schedules and time zones: they differ from the interval schedule in
  `NextAnchored` only, for which there is no compact reference definition to
  check them against.
- Administrator sessions and sign-in: sequential, one row per session.
- Rsync runs: one command and one row, outside controller and lock.
- Listings of directories and snapshots on Agents: they change nothing, and their
  requests follow the protocol of task leases.
- The contents of previews and of the task catalogue, forecasts, the measuring of
  capacity, protection templates.
- The transfer and the verification of artifacts, and the command `update-app`.
- Adapters of databases and other external programs, diagnostics, probes,
  validation, presentation, the web interface.

## 7. Plan

Done, the most important behaviour first: exclusive access (`RunController`,
`ExclusiveAccess`), survival of partial snapshots (`RepositoryProtection`), the lease
protocol (`AgentLease`), scheduling (`ScheduleCadence`, `ScheduleOccurrence`), operations
(`OperationManager`), secrets and the vault (`RepositorySecrets`, `VaultKey`),
references and the work of tasks (`ResourceReferences`, `TaskWork`), Agents
(`AgentIdentity`, `AgentInstallation`, `AgentEndpoint`), restores (`Restore`,
`RestoreVerification`), what the service reports and measures (`Alerts`,
`RepositoryCapacity`), and its own life (`ApplicationInstall`, `ApplicationUpdate`,
`ServiceMigration`, `DatabaseUpgrade`, `ControlPlaneExport`, `ControlPlaneImport`).

Worth adding:

1. An abstract specification of a task run (started, at most one execution, one
   final record) that both `RunController` and `AgentLease` implement.
2. Two processes that open one database, and `update-app` beside the managed update.
3. Proofs: that `AgentLease` implements that specification, step by step; safety
   invariants of `Alerts` (what may be shown while a producer is behind).
4. Requests of listings, and sessions of the administrator.
