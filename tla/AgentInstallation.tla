-------------------------- MODULE AgentInstallation --------------------------
(***************************************************************************)
(* Deployment, upgrade, probe and removal of one managed Agent, and the    *)
(* installation of its Restic, over SSH.  One operation works on an Agent  *)
(* at a time; its remote commands fail or are cut off, its waits time out  *)
(* or are cancelled, and the service may stop at any step.                 *)
(*                                                                         *)
(* A remote command is a script.  Cutting it off closes its session, which *)
(* does not end the script: it goes on, step by step, beside whatever the  *)
(* service runs next.  Only a script that copies a file ends with it, for  *)
(* the file comes over the session.                                        *)
(*                                                                         *)
(* An upgrade replaces the program of the Agent, an installation its       *)
(* Restic, by the same protocol: the constant Tool says which is followed. *)
(* Deployment and removal are followed for the Agent only; a Restic is     *)
(* installed on an Agent that is managed already.  The commands are those  *)
(* of a Linux host without an Agent of the old name.                       *)
(***************************************************************************)
EXTENDS Naturals, FiniteSets

CONSTANTS
  Tool,        \* "agent" or "restic"
  Versions,    \* versions of the tool
  Broken,      \* those that do not work on this host
  MaxOps,      \* bound: operations
  MaxTroubles  \* bound: failures, cuts, crashes and revocations

None == "none"
Down == "down"

VARIABLES
  active, previous, staged,  \* the files of the tool on the host: version or None
  running,     \* version that the service of the Agent has loaded, or Down
  credentials, \* the host has a certificate that is accepted
  agent,       \* of agents: [status, managed, version, draining]
  fresh,       \* a heartbeat was recorded after the wait for it began
  busy,        \* the Agent runs an assignment
  op,          \* operation: [kind, at, target, found, cut, ok]
  scripts,     \* scripts that run on the host: [op, do, at]
  proven,      \* versions that have reported themselves
  ops, troubles

files == <<active, previous, staged>>
host  == <<files, running, credentials>>
vars  == <<host, agent, fresh, busy, op, scripts, proven, ops, troubles>>

NoOp == [kind |-> None, at |-> "idle", target |-> None, found |-> {}, cut |-> FALSE, ok |-> FALSE]
Row(status, managed, version, draining) ==
  [status |-> status, managed |-> managed, version |-> version, draining |-> draining]

(* An Agent that is not deployed yet, or one that was; and a deployed      *)
(* Agent with or without Restic.                                           *)
Init ==
  /\ previous = None /\ staged = None
  /\ active \in (Versions \ Broken) \cup {None}
  /\ IF Tool = "agent" /\ active = None
     THEN running = Down /\ agent = Row("absent", FALSE, None, FALSE)
     ELSE running = active /\ agent = Row("active", TRUE, active, FALSE)
  /\ credentials = (running # Down)
  /\ fresh = FALSE /\ busy = FALSE /\ op = NoOp /\ scripts = {}
  /\ proven = {active} \ {None} /\ ops = 0 /\ troubles = 0

Trouble == troubles < MaxTroubles /\ troubles' = troubles + 1
Calm    == UNCHANGED troubles
On(kind, at) == op.kind = kind /\ op.at = at
Go(at)  == op' = [op EXCEPT !.at = at]
Step(kind, at, next) == On(kind, at) /\ Go(next)

(* cut: scripts that nobody waits for run beside the operation.            *)
Begin(kind, target) ==
  /\ op = NoOp /\ ops < MaxOps /\ ops' = ops + 1 /\ scripts' = scripts
  /\ op' = [kind |-> kind, at |-> "begin", target |-> target,
            found |-> {active} \cup ({previous} \ {None}), cut |-> scripts # {}, ok |-> FALSE]

-----------------------------------------------------------------------------
(* The Agent.                                                              *)

(* Without its own program the Agent is silent; without Restic it reports  *)
(* that it has none.                                                       *)
Alive == /\ running # Down
         /\ Tool = "agent" => running \notin Broken \cup {None}
Reported == IF running \in Broken THEN None ELSE running

Heartbeat ==
  /\ Alive /\ credentials /\ agent.status = "active"
  /\ agent' = [agent EXCEPT !.version = Reported]
  /\ fresh' = TRUE
  /\ proven' = proven \cup {Reported}
  /\ UNCHANGED <<host, busy, op, scripts, ops, troubles>>

(* The Agent enrols with the token of the deployment (AgentIdentity).      *)
Enroll ==
  /\ Alive /\ ~credentials /\ agent.status # "active"
  /\ On("deploy", "await")
  /\ agent' = Row("active", FALSE, None, FALSE)
  /\ credentials' = TRUE
  /\ UNCHANGED <<files, running, fresh, busy, op, scripts, proven, ops, troubles>>

Claim ==
  /\ Alive /\ credentials /\ agent.status = "active" /\ ~agent.draining /\ ~busy
  /\ busy' = TRUE
  /\ UNCHANGED <<host, agent, fresh, op, scripts, proven, ops, troubles>>

Complete ==
  /\ busy /\ busy' = FALSE
  /\ UNCHANGED <<host, agent, fresh, op, scripts, proven, ops, troubles>>

RevokeAgent ==
  /\ agent.status = "active" /\ Trouble
  /\ agent' = [agent EXCEPT !.status = "revoked"]
  /\ credentials' = FALSE
  /\ UNCHANGED <<files, running, fresh, busy, op, scripts, proven, ops>>

-----------------------------------------------------------------------------
(* The commands of the service, and the scripts that run them.             *)

Commands == {"activate", "rollback", "finish", "clean", "restart",
             "prepare", "start", "cleanup", "stop", "remove"}

Script(do) == [op |-> ops, do |-> do, at |-> "begin"]

(* A command is given once by an operation, which then waits for it.       *)
Awaited(s) == s.op = ops /\ s.do = op.at

AfterDone ==
  [activate |-> "await", rollback |-> "end", finish |-> "end", clean |-> "end",
   restart |-> "end", prepare |-> "start", start |-> "await", cleanup |-> "idle",
   stop |-> "remove", remove |-> "complete"]

(* Cancelled, a finished upgrade is rolled back; failed otherwise, it is   *)
(* left.                                                                   *)
AfterFailed(do) ==
  IF do = "finish" THEN {"rollback", "end"}
  ELSE {[activate |-> "rollback", rollback |-> "end", clean |-> "end", restart |-> "end",
         prepare |-> "cleanup", start |-> "cleanup", cleanup |-> "idle",
         stop |-> "end", remove |-> "end"][do]}

GoOn(at, ok, cut) ==
  op' = IF at = "idle" THEN NoOp ELSE [op EXCEPT !.at = at, !.ok = ok, !.cut = @ \/ cut]

Succeeded == GoOn(AfterDone[op.at], op.at \in {"finish", "rollback"}, FALSE)

(* lost: a Restic that is rolled back now has nothing to return to.        *)
Failed(lost) ==
  \E at \in AfterFailed(op.at) :
    GoOn(at, FALSE, Tool = "restic" /\ at = "rollback" /\ lost)

(* There may be no session: the script does not begin.                     *)
Send ==
  /\ op.at \in Commands /\ ~\E s \in scripts : Awaited(s)
  /\ \/ Calm /\ scripts' = scripts \cup {Script(op.at)} /\ op' = op
     \/ Trouble /\ scripts' = scripts /\ Failed(op.at = "activate")
  /\ fresh' = (fresh /\ op.at \notin {"activate", "start"})
  /\ UNCHANGED <<host, agent, busy, proven, ops>>

(* A timeout, a cancellation or a lost connection while the script runs.   *)
GiveUp ==
  /\ \E s \in scripts : Awaited(s)
  /\ Trouble /\ \E at \in AfterFailed(op.at) : GoOn(at, FALSE, TRUE)
  /\ UNCHANGED <<host, agent, fresh, busy, scripts, proven, ops>>

Ends(s, outcome) ==
  scripts' = scripts \ {s} /\ IF Awaited(s) THEN outcome ELSE op' = op

(* The answer may be lost.                                                 *)
Done(s) ==
  \/ Calm /\ Ends(s, Succeeded)
  \/ Trouble /\ Awaited(s) /\ Ends(s, Failed(s.do = "finish"))
Fails(s)  == Calm /\ Ends(s, Failed(FALSE))
Breaks(s) == Trouble /\ Ends(s, Failed(FALSE))

Reaches(s, do, at) == s.do = do /\ s.at = at
Proceeds(s, at) ==
  Calm /\ op' = op /\ scripts' = (scripts \ {s}) \cup {[s EXCEPT !.at = at]}

(* Without its own program the service of the Agent does not start.        *)
CanStart == Tool = "restic" \/ active # None
DoesNotStart(s) == running' = Down /\ (Breaks(s) \/ (~CanStart /\ Fails(s)))

Around == <<credentials, agent, fresh, busy, proven, ops>>

(* Activation: the program is parked, the staged one put in its place and  *)
(* the service restarted; if that fails, an upgrade of the Agent undoes    *)
(* itself.                                                                 *)
BeginActivation(s) ==
  /\ Reaches(s, "activate", "begin")
  /\ \/ staged # None /\ CanStart /\ previous' = None /\ Proceeds(s, "park")
     \/ ~(staged # None /\ CanStart) /\ previous' = previous /\ Fails(s)
  /\ UNCHANGED <<active, staged, running, Around>>

ParkActive(s) ==
  /\ Reaches(s, "activate", "park")
  /\ \/ active # None /\ previous' = active /\ active' = None /\ Proceeds(s, "put")
     \/ /\ active = None /\ UNCHANGED <<active, previous>>
        /\ IF Tool = "restic" THEN Proceeds(s, "put") ELSE Fails(s)
  /\ UNCHANGED <<staged, running, Around>>

PutStaged(s) ==
  /\ Reaches(s, "activate", "put")
  /\ \/ staged # None /\ active' = staged /\ staged' = None /\ Proceeds(s, "restart")
     \/ staged = None /\ UNCHANGED <<active, staged>> /\ Fails(s)
  /\ UNCHANGED <<previous, running, Around>>

RestartActivated(s) ==
  /\ Reaches(s, "activate", "restart")
  /\ \/ CanStart /\ running' = active /\ Done(s)
     \/ /\ running' = Down
        /\ IF Tool = "agent"
           THEN /\ op' = op /\ scripts' = (scripts \ {s}) \cup {[s EXCEPT !.at = "aside"]}
                /\ \/ ~CanStart /\ Calm
                   \/ Trouble
           ELSE Breaks(s)
  /\ UNCHANGED <<files, Around>>

SetAside(s) ==
  /\ Reaches(s, "activate", "aside")
  /\ \/ active # None /\ active' = None /\ Proceeds(s, "back")
     \/ active = None /\ active' = active /\ Fails(s)
  /\ UNCHANGED <<previous, staged, running, Around>>

PutBack(s) ==
  /\ Reaches(s, "activate", "back")
  /\ \/ previous # None /\ active' = previous /\ previous' = None /\ Proceeds(s, "again")
     \/ previous = None /\ UNCHANGED <<active, previous>> /\ Fails(s)
  /\ UNCHANGED <<staged, running, Around>>

RestartFormer(s) ==
  /\ Reaches(s, "activate", "again")
  /\ \/ CanStart /\ running' = active /\ Fails(s)
     \/ DoesNotStart(s)
  /\ UNCHANGED <<files, Around>>

(* Rollback: the service is stopped, the program set aside and the         *)
(* previous one put back.  That of an Agent takes a host without a         *)
(* previous program for one with an Agent of the old name, and cannot      *)
(* start that; a Restic without a previous one goes.                       *)
BeginRollback(s) ==
  /\ Reaches(s, "rollback", "begin")
  /\ \/ /\ Tool = "restic" \/ previous # None
        /\ running' = Down /\ Proceeds(s, "aside")
     \/ /\ Tool = "agent" /\ previous = None
        /\ running' = running /\ Fails(s)
  /\ UNCHANGED <<files, Around>>

SetFailedAside(s) ==
  /\ Reaches(s, "rollback", "aside")
  /\ \/ /\ Tool = "restic" \/ previous # None
        /\ active' = None /\ Proceeds(s, "back")
     \/ /\ Tool = "agent" /\ previous = None
        /\ active' = active /\ Proceeds(s, "again")
  /\ UNCHANGED <<previous, staged, running, Around>>

Returns_Kept == UNCHANGED <<active, previous>>   \* mutant: the previous file is left

Returns == active' = previous /\ previous' = None

PutPreviousBack(s) ==
  /\ Reaches(s, "rollback", "back")
  /\ \/ previous # None /\ Returns /\ Proceeds(s, "again")
     \/ /\ previous = None /\ UNCHANGED <<active, previous>>
        /\ IF Tool = "restic" THEN Proceeds(s, "again") ELSE Fails(s)
  /\ UNCHANGED <<staged, running, Around>>

StartPrevious(s) ==
  /\ Reaches(s, "rollback", "again")
  /\ \/ running # Down /\ running' = running /\ Done(s)
     \/ running = Down /\ CanStart /\ running' = active /\ Done(s)
     \/ running = Down /\ DoesNotStart(s)
  /\ UNCHANGED <<files, Around>>

(* The other scripts, of one step each.  FinalizeUpgrade, which cleans up, *)
(* too, removes what an older upgrade left.  Restarting is that of a probe *)
(* and the start of a deployed Agent.                                      *)
RemoveFiles(s) ==
  /\ s.do \in {"finish", "clean"}
  /\ \/ Done(s) /\ staged' = None
        /\ previous' = IF s.do = "finish" \/ Tool = "agent" THEN None ELSE previous
     \/ Breaks(s) /\ UNCHANGED <<previous, staged>>
  /\ UNCHANGED <<active, running, Around>>

RestartAgent(s) ==
  /\ s.do \in {"restart", "start"}
  /\ \/ CanStart /\ running' = active /\ Done(s)
     \/ DoesNotStart(s)
  /\ UNCHANGED <<files, Around>>

(* PrepareReenrollment removes the old credentials; Cleanup and Remove     *)
(* leave what an upgrade has put beside the program.                       *)
StopOrRemove(s) ==
  /\ s.do \in {"prepare", "cleanup", "stop", "remove"}
  /\ \/ /\ Done(s)
        /\ active' = IF s.do \in {"cleanup", "remove"} THEN None ELSE active
        /\ credentials' = (credentials /\ s.do = "stop")
        /\ running' = IF s.do \in {"cleanup", "stop"} THEN Down ELSE running
        /\ busy' = (busy /\ s.do \notin {"cleanup", "stop"})
     \/ Breaks(s) /\ UNCHANGED <<active, credentials, running, busy>>
  /\ UNCHANGED <<previous, staged, agent, fresh, proven, ops>>

ScriptStep ==
  \E s \in scripts :
    \/ BeginActivation(s) \/ ParkActive(s) \/ PutStaged(s) \/ RestartActivated(s)
    \/ SetAside(s) \/ PutBack(s) \/ RestartFormer(s)
    \/ BeginRollback(s) \/ SetFailedAside(s) \/ PutPreviousBack(s) \/ StartPrevious(s)
    \/ RemoveFiles(s) \/ RestartAgent(s) \/ StopOrRemove(s)

-----------------------------------------------------------------------------
(* Upgrade of the Agent, installation of its Restic, probes.               *)

Managed == agent.status = "active" /\ agent.managed

StartUpgrade ==
  \E v \in Versions :
    /\ Managed /\ agent.version # v
    /\ Begin("upgrade", v)
    /\ UNCHANGED <<host, agent, fresh, busy, proven, troubles>>

StartProbe ==
  /\ Managed /\ Begin("probe", None)
  /\ UNCHANGED <<host, agent, fresh, busy, proven, troubles>>

Draining == {"upgrade", "probe", "uninstall"}

(* Uninstalling an Agent that is revoked does not wait for it.             *)
BeginAgentDrain ==
  /\ op.kind \in Draining /\ op.at = "begin"
  /\ \/ /\ agent.status = "active"
        /\ agent' = [agent EXCEPT !.draining = TRUE] /\ Go("drain")
     \/ /\ agent.status # "active" /\ UNCHANGED agent
        /\ Go(IF op.kind = "uninstall" THEN "stop" ELSE "end")
  /\ UNCHANGED <<host, fresh, busy, scripts, proven, ops, troubles>>

(* A timeout or a cancellation ends a wait at any time.                    *)
WaitForDrain ==
  /\ op.kind \in Draining /\ op.at = "drain"
  /\ \/ ~busy /\ Go([upgrade |-> "stage", probe |-> "restart", uninstall |-> "stop"][op.kind])
     \/ busy /\ Go("end")
  /\ UNCHANGED <<host, agent, fresh, busy, scripts, proven, ops, troubles>>

(* The artifact beside the service may be of another version; only the     *)
(* Agent's is asked for it.                                                *)
Stage ==
  /\ On("upgrade", "stage")
  /\ \E v \in Versions :
       /\ Tool = "restic" => v = op.target
       /\ \/ Calm /\ staged' = v /\ Go(IF v = op.target THEN "activate" ELSE "clean")
          \/ Trouble /\ staged' \in {staged, v} /\ Go("clean")
  /\ UNCHANGED <<active, previous, running, credentials, agent, fresh, busy, scripts, proven, ops>>

Verified == fresh /\ agent.status = "active" /\ agent.version = op.target

WaitForVersionHeartbeat ==
  /\ On("upgrade", "await")
  /\ Go(IF Verified THEN "finish" ELSE "rollback")
  /\ UNCHANGED <<host, agent, fresh, busy, scripts, proven, ops, troubles>>

EndAgentDrain ==
  /\ op.kind \in Draining /\ op.at = "end" /\ op' = NoOp
  /\ agent' = [agent EXCEPT !.draining = FALSE]
  /\ UNCHANGED <<host, fresh, busy, scripts, proven, ops, troubles>>

-----------------------------------------------------------------------------
(* Deployment.                                                             *)

StartDeploy ==
  \E v \in Versions :
    /\ Tool = "agent" /\ agent.status # "active"
    /\ Begin("deploy", v)
    /\ UNCHANGED <<host, agent, fresh, busy, proven, troubles>>

(* The program is written in place.                                        *)
Upload ==
  /\ On("deploy", "begin")
  /\ \/ Calm /\ active' = op.target /\ Go("prepare")
     \/ Trouble /\ active' \in {active, op.target} /\ Go("cleanup")
  /\ UNCHANGED <<previous, staged, running, credentials, agent, fresh, busy, scripts, proven,
                 ops>>

(* BindManagedAgentRemoteHost needs an Agent that is not revoked.          *)
BindManagedAgent ==
  /\ On("deploy", "await")
  /\ \/ /\ fresh /\ agent.status = "active"
        /\ agent' = [agent EXCEPT !.managed = TRUE]
        /\ Go("finalize")
     \/ agent' = agent /\ Go("cleanup")
  /\ UNCHANGED <<host, fresh, busy, scripts, proven, ops, troubles>>

FinishDeploy ==
  /\ On("deploy", "finalize")
  /\ \/ Calm /\ op' = NoOp
     \/ Trouble /\ Go("cleanup")
  /\ UNCHANGED <<host, agent, fresh, busy, scripts, proven, ops>>

-----------------------------------------------------------------------------
(* Removal.                                                                *)

StartUninstall ==
  /\ Tool = "agent" /\ agent.managed
  /\ Begin("uninstall", None)
  /\ UNCHANGED <<host, agent, fresh, busy, proven, troubles>>

CompleteAgentUninstall ==
  /\ Step("uninstall", "complete", "end")
  /\ agent' = [agent EXCEPT !.status = "revoked"]
  /\ UNCHANGED <<host, fresh, busy, scripts, proven, ops, troubles>>

(* The service stops anywhere, and ends what it was draining when it       *)
(* starts (RecoverInterruptedAgentDrains).                                 *)
Crash ==
  /\ op # NoOp /\ Trouble /\ op' = NoOp
  /\ agent' = [agent EXCEPT !.draining = FALSE]
  /\ UNCHANGED <<host, fresh, busy, scripts, proven, ops>>

-----------------------------------------------------------------------------
Next ==
  \/ Heartbeat \/ Enroll \/ Claim \/ Complete \/ RevokeAgent
  \/ StartUpgrade \/ StartProbe \/ BeginAgentDrain \/ WaitForDrain
  \/ Stage \/ Send \/ GiveUp \/ ScriptStep \/ WaitForVersionHeartbeat \/ EndAgentDrain
  \/ StartDeploy \/ Upload \/ BindManagedAgent \/ FinishDeploy
  \/ StartUninstall \/ CompleteAgentUninstall
  \/ Crash

Spec == Init /\ [][Next]_vars

-----------------------------------------------------------------------------
TypeOK ==
  /\ {active, previous, staged} \subseteq Versions \cup {None}
  /\ running \in Versions \cup {None, Down}
  /\ agent \in [status : {"absent", "active", "revoked"}, managed : BOOLEAN,
              version : Versions \cup {None}, draining : BOOLEAN]

(* service.go (agentdeploy):205, "can roll back atomically": an upgrade    *)
(* that comes to its end leaves a version that has reported itself, or one *)
(* that was there when it began, and the Agent runs it; whatever failed,   *)
(* was lost or was cancelled between two commands, and whatever an earlier *)
(* upgrade has left.  Nothing is claimed where a script goes on that the   *)
(* service has given up on (transport.go:500), nor where a Restic is       *)
(* rolled back whose activation did not begin, or whose finish was lost.   *)
Restores ==
  op.kind = "upgrade" /\ op'.at = "end" /\ op'.ok /\ ~op'.cut
  => active' \in op'.found \cup proven' /\ running' = active'

UpgradeRestores == [][Restores]_vars
=============================================================================
