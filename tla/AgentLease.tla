----------------------------- MODULE AgentLease -----------------------------
(***************************************************************************)
(* A task run on a remote Agent.  agenttask.Service.Run inserts the row of *)
(* the run and a lease, then polls the lease until it is completed or has  *)
(* expired; the Agent (agentruntime.Runtime.Step) claims leases one at a   *)
(* time over HTTP, renews them while it executes, and delivers the result  *)
(* with retries.  A managed restart of the Agent (upgrade, tool and        *)
(* heartbeat probes of agentdeploy.UpgradeService) drains it first; the    *)
(* operation manager admits one of them per Agent.                         *)
(*                                                                         *)
(* A request that was sent can be lost, can arrive late, after the Agent   *)
(* has given up waiting and sent another, and its answer can be lost.      *)
(* The control service and the Agent can stop at any step.                 *)
(*                                                                         *)
(* Abstracted: an expiry time is whether it has passed (overdue), a result *)
(* is its status, and the order of claims among queued leases is left open.*)
(***************************************************************************)
EXTENDS Naturals, FiniteSets

CONSTANTS
  Runs,         \* task runs; each has one lease
  Agents,
  AgentOf,      \* the Agent each run's task is bound to
  Cancelable,   \* runs whose context can be done while they are waited for
  MaxRestarts,  \* bound on restarts of the control service, for TLC
  MaxCrashes,   \* bound on crashes of Agents, for TLC
  MaxFaults,    \* bound on failing statements of the store, for TLC
  None

ASSUME ParametersAssumption ==
  /\ AgentOf \in [Runs -> Agents]
  /\ Cancelable \subseteq Runs
  /\ None \notin Runs
  /\ MaxRestarts \in Nat /\ MaxCrashes \in Nat /\ MaxFaults \in Nat

VARIABLES
  record,      \* status of the row of each run
  waiter,      \* where agenttask.Service.Run is, for each run
  verdict,     \* the status the waiter is about to record
  lease,       \* agent_leases.status
  overdue,     \* leases whose expires_at has passed
  phase,       \* where each Agent's Step is
  job,         \* the run whose assignment each Agent has, or None
  outcome,     \* what executing the assignment of a run came to
  executions,  \* times each assignment was executed
  net,         \* requests on their way to the control service
  draining,    \* Agents with draining_at set
  revoked,     \* Agents with revoked_at set
  manager,     \* the managed operation on each Agent
  restarts, crashes, faults

service == <<record, waiter, verdict>>
agents == <<phase, job, outcome, executions>>
managed == <<draining, revoked, manager>>
bounds == <<restarts, crashes, faults>>
vars == <<service, lease, overdue, agents, net, managed, bounds>>

-----------------------------------------------------------------------------

Finished == {"succeeded", "partial", "failed"}

LeaseStates == {"absent", "queued", "running"} \cup Finished

Messages == [kind : {"progress", "result"}, run : Runs]

(* Types; an Agent has an assignment of its own exactly when it is not     *)
(* between two steps (Runtime.Step works off one assignment at a time).    *)
TypeOK ==
  /\ record \in [Runs -> {"absent", "running"} \cup Finished]
  /\ waiter \in [Runs -> {"idle", "started", "polling", "expiring", "finishing", "done"}]
  /\ verdict \in [Runs -> {"none"} \cup Finished]
  /\ lease \in [Runs -> LeaseStates]
  /\ overdue \in SUBSET Runs
  /\ phase \in [Agents -> {"idle", "leasing", "assigned", "executing", "delivering"}]
  /\ job \in [Agents -> Runs \cup {None}]
  /\ outcome \in [Runs -> {"none"} \cup Finished]
  /\ executions \in [Runs -> Nat]
  /\ net \in SUBSET Messages
  /\ draining \in SUBSET Agents
  /\ revoked \in SUBSET Agents
  /\ manager \in [Agents -> {"idle", "draining", "drained", "restarted"}]
  /\ restarts \in 0..MaxRestarts
  /\ crashes \in 0..MaxCrashes
  /\ faults \in 0..MaxFaults
  /\ \A a \in Agents : /\ job[a] = None <=> phase[a] = "idle"
                       /\ job[a] # None => AgentOf[job[a]] = a

Init ==
  /\ record = [r \in Runs |-> "absent"]
  /\ waiter = [r \in Runs |-> "idle"]
  /\ verdict = [r \in Runs |-> "none"]
  /\ lease = [r \in Runs |-> "absent"]
  /\ overdue = {}
  /\ phase = [a \in Agents |-> "idle"]
  /\ job = [a \in Agents |-> None]
  /\ outcome = [r \in Runs |-> "none"]
  /\ executions = [r \in Runs |-> 0]
  /\ net = {}
  /\ draining = {}
  /\ revoked = {}
  /\ manager = [a \in Agents |-> "idle"]
  /\ restarts = 0 /\ crashes = 0 /\ faults = 0

-----------------------------------------------------------------------------
(* Store statements can fail; MaxFaults bounds how often.                  *)

NoFault == UNCHANGED bounds
Fault == faults < MaxFaults /\ faults' = faults + 1 /\ UNCHANGED <<restarts, crashes>>

Active(r) == lease[r] \in {"queued", "running"}

ExpireLease(r) == lease' = [lease EXCEPT ![r] = IF @ \in Finished THEN @ ELSE "failed"]

-----------------------------------------------------------------------------
(* agenttask.Service.Run.                                                  *)

StartRun(r) ==
  /\ waiter[r] = "idle"
  /\ waiter' = [waiter EXCEPT ![r] = "started"]
  /\ record' = [record EXCEPT ![r] = "running"]
  /\ UNCHANGED <<verdict, lease, overdue, agents, net, managed, bounds>>

(* When the lease cannot be created Run returns: the row stays running.    *)
CreateLease(r) ==
  /\ waiter[r] = "started"
  /\ \/ /\ waiter' = [waiter EXCEPT ![r] = "polling"]
        /\ lease' = [lease EXCEPT ![r] = "queued"]
        /\ NoFault
     \/ /\ waiter' = [waiter EXCEPT ![r] = "done"]
        /\ UNCHANGED lease
        /\ Fault
  /\ UNCHANGED <<record, verdict, overdue, agents, net, managed>>

(* A poll that finds the lease completed, or not completed and overdue.    *)
(* When it cannot be read Run returns: the row stays running.              *)
PollLease(r) ==
  /\ waiter[r] = "polling"
  /\ \/ /\ lease[r] \in Finished
        /\ waiter' = [waiter EXCEPT ![r] = "finishing"]
        /\ verdict' = [verdict EXCEPT ![r] = lease[r]]
        /\ NoFault
     \/ /\ Active(r) /\ r \in overdue
        /\ waiter' = [waiter EXCEPT ![r] = "expiring"]
        /\ verdict' = [verdict EXCEPT ![r] = "failed"]
        /\ NoFault
     \/ /\ waiter' = [waiter EXCEPT ![r] = "done"]
        /\ UNCHANGED verdict
        /\ Fault
  /\ UNCHANGED <<record, lease, overdue, agents, net, managed>>

CancelRun_LeavesLease(r) ==     \* mutant: ctx.Done only finishes the run
  /\ waiter[r] = "polling" /\ r \in Cancelable
  /\ waiter' = [waiter EXCEPT ![r] = "finishing"]
  /\ verdict' = [verdict EXCEPT ![r] = "failed"]
  /\ UNCHANGED <<record, lease, overdue, agents, net, managed, bounds>>

(* The context of the run is done.  CreateAgentLease and AgentLeaseStatus, *)
(* when the select took the tick, fail with it and Run returns: the row    *)
(* stays running.                                                          *)
CancelRun(r) ==
  /\ r \in Cancelable
  /\ \/ /\ waiter[r] = "polling"
        /\ waiter' = [waiter EXCEPT ![r] = "expiring"]
        /\ verdict' = [verdict EXCEPT ![r] = "failed"]
     \/ /\ waiter[r] \in {"started", "polling"}
        /\ waiter' = [waiter EXCEPT ![r] = "done"]
        /\ UNCHANGED verdict
  /\ UNCHANGED <<record, lease, overdue, agents, net, managed, bounds>>

(* The lease may have changed since it was polled; the error is dropped.   *)
Expire(r) ==
  /\ waiter[r] = "expiring"
  /\ waiter' = [waiter EXCEPT ![r] = "finishing"]
  /\ \/ ExpireLease(r) /\ NoFault
     \/ UNCHANGED lease /\ Fault
  /\ UNCHANGED <<record, verdict, overdue, agents, net, managed>>

(* Service.finish; a repository status that cannot be updated makes the run*)
(* failed, a row that cannot be updated stays running.                     *)
FinishRun(r) ==
  /\ waiter[r] = "finishing"
  /\ waiter' = [waiter EXCEPT ![r] = "done"]
  /\ \/ record' = [record EXCEPT ![r] = verdict[r]] /\ NoFault
     \/ record' \in {record, [record EXCEPT ![r] = "failed"]} /\ Fault
  /\ UNCHANGED <<verdict, lease, overdue, agents, net, managed>>

(* Time passes expires_at.                                                 *)
Lapse(r) ==
  /\ Active(r)
  /\ r \notin overdue
  /\ overdue' = overdue \cup {r}
  /\ UNCHANGED <<service, lease, agents, net, managed, bounds>>

-----------------------------------------------------------------------------
(* The Agent, agentcontrol.Service and the store.                          *)

Claimable_Running(a, r) ==      \* mutant: acknowledged_at and status are not tested
  AgentOf[r] = a /\ Active(r) /\ r \notin overdue /\ a \notin draining \cup revoked

Claimable(a, r) ==
  AgentOf[r] = a /\ lease[r] = "queued" /\ r \notin overdue /\ a \notin draining \cup revoked

(* Service.Lease commits the claim, then fills in the definition.          *)
ClaimLease(a, r) ==
  /\ phase[a] = "idle"
  /\ Claimable(a, r)
  /\ lease' = [lease EXCEPT ![r] = "running"]
  /\ phase' = [phase EXCEPT ![a] = "leasing"]
  /\ job' = [job EXCEPT ![a] = r]
  /\ UNCHANGED <<service, overdue, outcome, executions, net, managed, bounds>>

ToIdle(a) == phase' = [phase EXCEPT ![a] = "idle"] /\ job' = [job EXCEPT ![a] = None]

(* The assignment reaches the Agent, or the answer is lost.                *)
Hydrate(a) ==
  /\ phase[a] = "leasing"
  /\ \/ phase' = [phase EXCEPT ![a] = "assigned"] /\ UNCHANGED job
     \/ ToIdle(a)
  /\ UNCHANGED <<service, lease, overdue, outcome, executions, net, managed, bounds>>

(* The lease is completed as failed by the control service itself.         *)
HydrateFails(a) ==
  /\ phase[a] = "leasing"
  /\ ToIdle(a)
  /\ \/ /\ lease' = [lease EXCEPT ![job[a]] = IF @ = "running" THEN "failed" ELSE @]
        /\ NoFault
     \/ UNCHANGED lease /\ Fault
  /\ UNCHANGED <<service, overdue, outcome, executions, net, managed>>

(* Runtime.execute: an assignment that has expired by the Agent's clock and*)
(* the expiry it was sent with, or that no engine accepts, is refused.     *)
Begin(a) ==
  LET r == job[a] IN
  /\ phase[a] = "assigned"
  /\ \/ /\ phase' = [phase EXCEPT ![a] = "executing"]
        /\ executions' = [executions EXCEPT ![r] = @ + 1]
        /\ UNCHANGED outcome
     \/ /\ phase' = [phase EXCEPT ![a] = "delivering"]
        /\ outcome' = [outcome EXCEPT ![r] = "failed"]
        /\ UNCHANGED executions
  /\ UNCHANGED <<service, lease, overdue, job, net, managed, bounds>>

Execute(a) ==
  /\ phase[a] = "executing"
  /\ phase' = [phase EXCEPT ![a] = "delivering"]
  /\ \E status \in Finished : outcome' = [outcome EXCEPT ![job[a]] = status]
  /\ UNCHANGED <<service, lease, overdue, job, executions, net, managed, bounds>>

Send(kind, r) ==
  /\ [kind |-> kind, run |-> r] \notin net
  /\ net' = net \cup {[kind |-> kind, run |-> r]}

(* The progress goroutine.                                                 *)
SendProgress(a) ==
  /\ phase[a] \in {"assigned", "executing", "delivering"}
  /\ Send("progress", job[a])
  /\ UNCHANGED <<service, lease, overdue, agents, managed, bounds>>

(* completeWithRetry, first or later attempt.                              *)
SendResult(a) ==
  /\ phase[a] = "delivering"
  /\ Send("result", job[a])
  /\ UNCHANGED <<service, lease, overdue, agents, managed, bounds>>

Lose(m) ==
  /\ m \in net
  /\ net' = net \ {m}
  /\ UNCHANGED <<service, lease, overdue, agents, managed, bounds>>

Renewable(r) == lease[r] = "running"

(* UpdateAgentLeaseProgress: a late renewal revives an overdue lease.      *)
ReceiveProgress(r) ==
  /\ [kind |-> "progress", run |-> r] \in net
  /\ net' = net \ {[kind |-> "progress", run |-> r]}
  /\ overdue' = IF Renewable(r) /\ AgentOf[r] \notin revoked
                THEN overdue \ {r} ELSE overdue
  /\ UNCHANGED <<service, lease, agents, managed, bounds>>

(* The Agent leaves completeWithRetry when the answer to its delivery comes*)
(* back; it also does when that answer is an error it does not retry, and  *)
(* the handler gives 401 to a revoked Agent and 409 for every error.       *)
Answer(a, r) ==
  \/ phase[a] = "delivering" /\ job[a] = r /\ ToIdle(a)
  \/ UNCHANGED <<phase, job>>     \* the answer is lost, or nobody waits for it

Answer_Retried(a, r) == UNCHANGED <<phase, job>>  \* mutant: conflicts are retried

Rejected(a, r) ==
  \/ phase[a] = "delivering" /\ job[a] = r /\ ToIdle(a)
  \/ UNCHANGED <<phase, job>>

Completable(r) == lease[r] = "running"

(* CompleteAgentLease; a repetition of the stored result is accepted.      *)
ReceiveResult(r) ==
  LET a == AgentOf[r] IN
  /\ [kind |-> "result", run |-> r] \in net
  /\ net' = net \ {[kind |-> "result", run |-> r]}
  /\ \/ /\ a \notin revoked
        /\ Completable(r)
        /\ lease' = [lease EXCEPT ![r] = outcome[r]]
        /\ Answer(a, r)
        /\ NoFault
     \/ /\ a \notin revoked
        /\ lease[r] \in Finished
        /\ Rejected(a, r)
        /\ UNCHANGED lease /\ NoFault
     \/ /\ a \in revoked
        /\ Rejected(a, r)
        /\ UNCHANGED lease /\ NoFault
     \/ /\ Rejected(a, r)
        /\ UNCHANGED lease /\ Fault
  /\ UNCHANGED <<service, overdue, outcome, executions, managed>>

(* The Agent's process ends and is started again by its service manager.   *)
AgentCrash(a) ==
  /\ crashes < MaxCrashes
  /\ crashes' = crashes + 1
  /\ phase[a] # "idle"
  /\ ToIdle(a)
  /\ UNCHANGED <<service, lease, overdue, outcome, executions, net, managed,
                 restarts, faults>>

RevokeAgent(a) ==
  /\ a \notin revoked
  /\ revoked' = revoked \cup {a}
  /\ UNCHANGED <<service, lease, overdue, agents, net, draining, manager, bounds>>

-----------------------------------------------------------------------------
(* UpgradeService: drain, restart the Agent, resume.                       *)

BeginDrain(a) ==
  /\ manager[a] = "idle"
  /\ a \notin revoked
  /\ manager' = [manager EXCEPT ![a] = "draining"]
  /\ draining' = draining \cup {a}
  /\ UNCHANGED <<service, lease, overdue, agents, net, revoked, bounds>>

(* AgentActiveWorkCount, for the leases.                                   *)
ActiveWork_Queued(a) ==         \* mutant: counts what is queued
  {r \in Runs : AgentOf[r] = a /\ lease[r] = "queued"}

ActiveWork(a) == {r \in Runs : AgentOf[r] = a /\ lease[r] = "running"}

Drained(a) ==
  /\ manager[a] = "draining"
  /\ ActiveWork(a) = {}
  /\ manager' = [manager EXCEPT ![a] = "drained"]
  /\ UNCHANGED <<service, lease, overdue, agents, net, draining, revoked, bounds>>

(* The service manager of the host restarts the Agent.                     *)
RestartAgent(a) ==
  /\ manager[a] = "drained"
  /\ ToIdle(a)
  /\ manager' = [manager EXCEPT ![a] = "restarted"]
  /\ UNCHANGED <<service, lease, overdue, outcome, executions, net, draining, revoked,
                 bounds>>

(* The deferred EndAgentDrain: after the heartbeat of the restarted Agent, *)
(* drainTimeout, heartbeatTimeout or a failure on the way.                 *)
EndDrain(a) ==
  /\ manager[a] # "idle"
  /\ manager' = [manager EXCEPT ![a] = "idle"]
  /\ \/ draining' = draining \ {a} /\ NoFault
     \/ UNCHANGED draining /\ Fault
  /\ UNCHANGED <<service, lease, overdue, agents, net, revoked>>

-----------------------------------------------------------------------------
(* The control service stops and starts: waiters, requests being served    *)
(* and managed operations are gone; rows and leases are kept, running rows *)
(* are closed and drain marks cleared before it serves again.              *)
Restart ==
  /\ restarts < MaxRestarts
  /\ restarts' = restarts + 1
  /\ waiter' = [r \in Runs |-> IF waiter[r] = "idle" THEN "idle" ELSE "done"]
  /\ record' = [r \in Runs |-> IF record[r] = "running" THEN "failed" ELSE record[r]]
  /\ phase' = [a \in Agents |-> IF phase[a] = "leasing" THEN "idle" ELSE phase[a]]
  /\ job' = [a \in Agents |-> IF phase[a] = "leasing" THEN None ELSE job[a]]
  /\ net' = {}
  /\ draining' = {}
  /\ manager' = [a \in Agents |-> "idle"]
  /\ UNCHANGED <<verdict, lease, overdue, outcome, executions, revoked, crashes, faults>>

WaiterStep(r) ==
  \/ StartRun(r) \/ CreateLease(r) \/ PollLease(r) \/ CancelRun(r) \/ Expire(r)
  \/ FinishRun(r)

AgentStep(a) ==
  \/ \E r \in Runs : ClaimLease(a, r)
  \/ Hydrate(a) \/ HydrateFails(a) \/ Begin(a) \/ Execute(a)
  \/ SendProgress(a) \/ SendResult(a) \/ AgentCrash(a)

ManagerStep(a) ==
  \/ BeginDrain(a) \/ Drained(a) \/ RestartAgent(a) \/ EndDrain(a) \/ RevokeAgent(a)

Next ==
  \/ \E r \in Runs : WaiterStep(r) \/ Lapse(r) \/ ReceiveProgress(r) \/ ReceiveResult(r)
  \/ \E a \in Agents : AgentStep(a) \/ ManagerStep(a)
  \/ \E m \in net : Lose(m)
  \/ Restart

Spec == Init /\ [][Next]_vars

(* Goroutines run and engines return; a lease nobody renews passes its     *)
(* expiry; of deliveries repeated for ever one arrives, and is answered.   *)
AnsweredResult(a) ==
  /\ phase[a] = "delivering"
  /\ ReceiveResult(job[a])
  /\ phase'[a] = "idle"

Fairness ==
  /\ \A r \in Runs :
       /\ WF_vars(CreateLease(r)) /\ WF_vars(PollLease(r)) /\ WF_vars(Expire(r))
       /\ WF_vars(FinishRun(r)) /\ WF_vars(Lapse(r))
  /\ \A a \in Agents :
       /\ WF_vars(Hydrate(a)) /\ WF_vars(Begin(a)) /\ WF_vars(Execute(a))
       /\ WF_vars(SendResult(a)) /\ SF_vars(AnsweredResult(a))

FairSpec == Spec /\ Fairness

-----------------------------------------------------------------------------
(* Properties.                                                             *)

(* A run's assignment is executed at most once, however requests, answers, *)
(* crashes and restarts fall: the claim of ClaimAgentLease is committed    *)
(* before the answer is sent, and no lease is claimed twice.               *)
AtMostOnce == \A r \in Runs : executions[r] <= 1

(* What is recorded as a success (or a partial one) is what the execution  *)
(* on the Agent came to, and what the lease says: no race of an expiry, a  *)
(* late delivery or a restart turns anything else into a success.          *)
SuccessIsReal ==
  \A r \in Runs :
    record[r] \in {"succeeded", "partial"} => outcome[r] = record[r] /\ lease[r] = record[r]

(* While the control service stays up and its store works, a run is not    *)
(* reported as ended before its lease is: the Agent cannot claim or renew  *)
(* it any more.                                                            *)
RunEndsWithLease ==
  restarts = 0 /\ faults = 0 =>
    \A r \in Runs : record[r] \in Finished => lease[r] \in Finished

(* A completed lease keeps its status: ExpireAgentLease of a waiter that   *)
(* polled before the result came does not overwrite it, nor does a late or *)
(* repeated delivery.                                                      *)
LeaseFinal ==
  [][\A r \in Runs : lease[r] \in Finished => lease'[r] = lease[r]]_vars

(* A managed restart of an Agent does not interrupt work whose lease is    *)
(* still open: waitForDrain has seen none, and none is claimed since.      *)
DrainSparesLiveWork ==
  [][\A a \in Agents :
       RestartAgent(a) /\ phase[a] # "idle" => lease[job[a]] \in Finished]_vars

(* Every run that was started is recorded as ended.                        *)
EveryRunDecided == \A r \in Runs : record[r] = "running" ~> record[r] # "running"

(* An Agent that has a result to deliver gets rid of it, even when its     *)
(* lease has been closed meanwhile, and becomes free for other work.       *)
AgentFreed == \A a \in Agents : phase[a] = "delivering" ~> phase[a] = "idle"

LeasesEnd == EveryRunDecided /\ AgentFreed

-----------------------------------------------------------------------------
(* The inductive invariant of the proofs, by parts.                        *)

(* What has not been claimed has left no trace on an Agent.                *)
UnclaimedUntouched ==
  \A r \in Runs :
    lease[r] \in {"absent", "queued"} =>
      /\ executions[r] = 0 /\ outcome[r] = "none"
      /\ \A a \in Agents : job[a] # r
      /\ \A k \in {"progress", "result"} : [kind |-> k, run |-> r] \notin net

(* Where the Agent is in its step tells what has happened to its run.      *)
StepAccounted ==
  \A a \in Agents :
    /\ phase[a] \in {"leasing", "assigned"} => executions[job[a]] = 0
    /\ phase[a] \in {"leasing", "assigned", "executing"} =>
         outcome[job[a]] = "none" /\ [kind |-> "result", run |-> job[a]] \notin net
    /\ phase[a] = "delivering" => outcome[job[a]] \in Finished

(* A result on its way, and a lease that succeeded, tell the outcome.      *)
ResultsMeanOutcomes ==
  \A r \in Runs : [kind |-> "result", run |-> r] \in net => outcome[r] \in Finished

LeasesMeanOutcomes ==
  \A r \in Runs : lease[r] \in {"succeeded", "partial"} => outcome[r] = lease[r]

WaiterAccounted ==
  \A r \in Runs :
    /\ waiter[r] \in {"idle", "started"} => lease[r] = "absent"
    /\ waiter[r] = "expiring" => verdict[r] = "failed"
    /\ waiter[r] = "finishing" =>
         /\ verdict[r] \in Finished
         /\ verdict[r] \in {"succeeded", "partial"} => lease[r] = verdict[r]
         /\ restarts = 0 /\ faults = 0 => lease[r] \in Finished

DrainAccounted ==
  \A a \in Agents :
    /\ manager[a] # "idle" => a \in draining
    /\ manager[a] = "drained" => ActiveWork(a) = {}

IInv ==
  /\ TypeOK /\ AtMostOnce /\ SuccessIsReal /\ RunEndsWithLease
  /\ UnclaimedUntouched /\ StepAccounted /\ ResultsMeanOutcomes
  /\ LeasesMeanOutcomes /\ WaiterAccounted /\ DrainAccounted

=============================================================================
