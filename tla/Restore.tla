------------------------------- MODULE Restore -------------------------------
(***************************************************************************)
(* Interactive restores: the preflight that makes a confirmation, the      *)
(* administrator's authorisation, the operation that consumes it, and the  *)
(* restore itself: of a directory on this machine or by an Agent, of a     *)
(* dump to a file, or of a dump into a database.                           *)
(*                                                                         *)
(* Every restore aims at one target (a path, or a database): two restores  *)
(* and other users of the machine meet there.  Restores of paths hold the  *)
(* lock of their repository, those into databases hold none.  Any command  *)
(* may fail; a failure also stands for the cancellation of the operation.  *)
(*                                                                         *)
(* Others work at the target at any moment, between two statements of a    *)
(* restore too.  Two of its pairs are not atomic: CREATE and the mark, and *)
(* the query that guards the removal and DROP.                             *)
(***************************************************************************)
EXTENDS Naturals

CONSTANTS
  Confirmations,
  Requests,        \* restores that are asked for
  Snapshots,
  RepositoryOf,    \* the repository of each snapshot
  MaxOthers        \* bound on steps of other users, for TLC

VARIABLES
  kind,          \* what is restored
  limit,         \* download limit of the repository's resource policy
  confirmation,  \* rows of restore_confirmations
  request,       \* what each request asks for
  phase,         \* where each request is
  staging,       \* staging directory or file of each request
  entry,         \* row of agent_restore_requests of each request
  agent,         \* what the Agent is doing
  target,        \* the path or the database
  overtaken,     \* requests that found a database just made by another
  others         \* steps of other users, whether they removed the target, and
                 \* whether they made it within a pair of a restore's statements

vars == <<kind, limit, confirmation, request, phase, staging, entry, agent, target,
          overtaken, others>>

Nothing == "none"
Other   == "other"
Partial == "partial"

Missing    == [made |-> Nothing, holds |-> {}, marks |-> {}]
Exists     == target.made # Nothing
EmptyThere == Exists /\ target.holds = {} /\ target.marks = {}

Kinds  == {"directory", "agent", "file", "database"}
Limits == {0, 1}

Ended  == {"succeeded", "failed", "stopped"}
Locked == {"restoring", "fetched", "publishing", "published", "waiting"}

Init ==
  /\ kind \in Kinds
  /\ limit = 0
  /\ confirmation = [c \in Confirmations |->
                       [state |-> Nothing, snapshot |-> Nothing, limit |-> 0, late |-> FALSE]]
  /\ request = [r \in Requests |-> [confirmation |-> Nothing, snapshot |-> Nothing, limit |-> 0]]
  /\ phase = [r \in Requests |-> "new"]
  /\ staging = [r \in Requests |-> Nothing]
  /\ entry = [r \in Requests |-> Nothing]
  /\ agent = [for |-> Nothing, at |-> Nothing]
  /\ target \in {Missing, [Missing EXCEPT !.made = Other]}
  /\ overtaken = {}
  /\ others = [steps |-> 0, removed |-> FALSE, exposed |-> FALSE]

-----------------------------------------------------------------------------
(* Confirmations.                                                          *)

Confirm(c, state) == confirmation' = [confirmation EXCEPT ![c].state = state]

Restorable == ~Exists \/ (kind = "database" /\ EmptyThere)

(* The policy that is read, what the snapshot and the target are found to  *)
(* be, and the row: a change between them is as one after the row.         *)
Preflight(c, s) ==
  /\ confirmation[c].state = Nothing
  /\ Restorable
  /\ confirmation' = [confirmation EXCEPT
       ![c] = [state |-> "made", snapshot |-> s, limit |-> limit, late |-> FALSE]]
  /\ UNCHANGED <<kind, limit, request, phase, staging, entry, agent, target, overtaken, others>>

Authorize(c) ==
  /\ confirmation[c].state = "made" /\ ~confirmation[c].late
  /\ Confirm(c, "authorized")
  /\ UNCHANGED <<kind, limit, request, phase, staging, entry, agent, target, overtaken, others>>

(* Five minutes pass.                                                      *)
Lapse(c) ==
  /\ confirmation[c].state \in {"made", "authorized"} /\ ~confirmation[c].late
  /\ confirmation' = [confirmation EXCEPT ![c].late = TRUE]
  /\ UNCHANGED <<kind, limit, request, phase, staging, entry, agent, target, overtaken, others>>

SetLimit ==
  /\ limit = 0
  /\ limit' = 1
  /\ UNCHANGED <<kind, confirmation, request, phase, staging, entry, agent, target, overtaken,
                 others>>

-----------------------------------------------------------------------------
(* The request, and the operation it starts.                               *)

Move(r, p) == phase' = [phase EXCEPT ![r] = p]

(* Mutant: the statement that consumes has no condition.                   *)
Matches_Used(c, s) ==
  LET row == confirmation[c]
  IN row.state \in {"authorized", "consumed"} /\ ~row.late /\ row.snapshot = s /\ row.limit = limit

Matches(c, s) ==
  LET row == confirmation[c]
  IN row.state = "authorized" /\ ~row.late /\ row.snapshot = s /\ row.limit = limit

(* The policy is read, one transaction consumes the confirmation, and the  *)
(* operation is started or refused.  A request that does not match its     *)
(* confirmation changes nothing.                                           *)
Consume(r, c, s) ==
  /\ phase[r] = "new"
  /\ Matches(c, s)
  /\ Confirm(c, "consumed")
  /\ request' = [request EXCEPT ![r] = [confirmation |-> c, snapshot |-> s, limit |-> limit]]
  /\ \E p \in {"begun", "failed"} : Move(r, p)
  /\ UNCHANGED <<kind, limit, staging, entry, agent, target, overtaken, others>>

(* The service stops: its operations end where they are.                   *)
Stop ==
  /\ \E r \in Requests : phase[r] \notin Ended \cup {"new"}
  /\ phase' = [r \in Requests |-> IF phase[r] \in Ended \cup {"new"} THEN phase[r] ELSE "stopped"]
  /\ UNCHANGED <<kind, limit, confirmation, request, staging, entry, agent, target, overtaken,
                 others>>

Same == UNCHANGED <<kind, limit, confirmation, request, overtaken, others>>

-----------------------------------------------------------------------------
(* A directory or a dump file on this machine.                             *)

Repository(r) == RepositoryOf[request[r].snapshot]

LockFree(r) == \A q \in Requests \ {r} : phase[q] \in Locked => Repository(q) # Repository(r)

Stage(r, at) ==
  /\ Move(r, at)
  /\ staging' = [staging EXCEPT ![r] = Partial]

Prepare(r) ==
  /\ phase[r] = "begun" /\ kind \in {"directory", "file"}
  /\ LockFree(r)
  /\ \/ ~Exists /\ Stage(r, "restoring")
     \/ Move(r, "failed") /\ UNCHANGED staging
  /\ UNCHANGED <<entry, agent, target>> /\ Same

(* Restic fills the staging; that of a directory stays after a failure.    *)
Abandoned(r) == [staging EXCEPT ![r] = IF kind = "file" THEN Nothing ELSE @]

Fetch(r) ==
  /\ phase[r] = "restoring"
  /\ \/ /\ Move(r, "fetched")
        /\ staging' = [staging EXCEPT ![r] = request[r].snapshot]
     \/ Move(r, "failed") /\ staging' = Abandoned(r)
  /\ UNCHANGED <<entry, agent, target>> /\ Same

Look(r) ==
  /\ phase[r] = "fetched" /\ kind = "directory"
  /\ Move(r, IF Exists THEN "failed" ELSE "publishing")
  /\ UNCHANGED <<staging, entry, agent, target>> /\ Same

Published(r) ==
  /\ ~Exists
  /\ target' = [made |-> r, holds |-> {staging[r]}, marks |-> {}]

Rename(r) ==
  /\ phase[r] = "publishing"
  /\ \/ /\ Published(r)
        /\ Move(r, "succeeded")
        /\ staging' = [staging EXCEPT ![r] = Nothing]
     \/ /\ Move(r, "failed")
        /\ UNCHANGED <<target, staging>>
  /\ UNCHANGED <<entry, agent>> /\ Same

(* A hard link never replaces a file.                                      *)
Link(r) ==
  /\ phase[r] = "fetched" /\ kind = "file"
  /\ \/ Published(r) /\ Move(r, "published") /\ UNCHANGED staging
     \/ Move(r, "failed") /\ staging' = Abandoned(r) /\ UNCHANGED target
  /\ UNCHANGED <<entry, agent>> /\ Same

RemoveStaging(r) ==
  /\ phase[r] = "published"
  /\ \/ Move(r, "succeeded") /\ staging' = [staging EXCEPT ![r] = Nothing]
     \/ Move(r, "failed") /\ UNCHANGED staging
  /\ UNCHANGED <<entry, agent, target>> /\ Same

-----------------------------------------------------------------------------
(* A directory on an Agent's machine.                                      *)

Enter(r, state) == entry' = [entry EXCEPT ![r] = state]

CreateRequest(r) ==
  /\ phase[r] = "begun" /\ kind = "agent"
  /\ LockFree(r)
  /\ \/ Enter(r, "queued") /\ Move(r, "waiting")
     \/ Move(r, "failed") /\ UNCHANGED entry
  /\ UNCHANGED <<staging, agent, target>> /\ Same

(* The answer to the claim may be lost, or name no usable definition.      *)
Claim(r) ==
  /\ agent.for = Nothing /\ entry[r] = "queued"
  /\ \/ Enter(r, "running") /\ agent' = [for |-> r, at |-> "claimed"]
     \/ Enter(r, "running") /\ UNCHANGED agent
     \/ Enter(r, "failed") /\ UNCHANGED agent
  /\ UNCHANGED <<phase, staging, target>> /\ Same

AgentMove(at) == agent' = [agent EXCEPT !.at = at]

AgentStage(r) ==
  /\ agent = [for |-> r, at |-> "claimed"]
  /\ \/ ~Exists /\ AgentMove("restoring") /\ staging' = [staging EXCEPT ![r] = Partial]
     \/ AgentMove("failing") /\ UNCHANGED staging
  /\ UNCHANGED <<phase, entry, target>> /\ Same

AgentFetch(r) ==
  /\ agent = [for |-> r, at |-> "restoring"]
  /\ \/ AgentMove("fetched") /\ staging' = [staging EXCEPT ![r] = request[r].snapshot]
     \/ AgentMove("failing") /\ UNCHANGED staging
  /\ UNCHANGED <<phase, entry, target>> /\ Same

AgentRename(r) ==
  /\ agent = [for |-> r, at |-> "fetched"]
  /\ \/ Published(r) /\ AgentMove("succeeding") /\ staging' = [staging EXCEPT ![r] = Nothing]
     \/ AgentMove("failing") /\ UNCHANGED <<target, staging>>
  /\ UNCHANGED <<phase, entry>> /\ Same

(* The result is sent until it is accepted or refused.                     *)
Complete(r) ==
  /\ agent.for = r /\ agent.at \in {"succeeding", "failing"}
  /\ IF entry[r] = "running"
     THEN Enter(r, IF agent.at = "succeeding" THEN "succeeded" ELSE "failed")
     ELSE UNCHANGED entry
  /\ agent' = [for |-> Nothing, at |-> Nothing]
  /\ UNCHANGED <<phase, staging, target>> /\ Same

AgentStops ==
  /\ agent.for # Nothing
  /\ agent' = [for |-> Nothing, at |-> Nothing]
  /\ UNCHANGED <<phase, staging, entry, target>> /\ Same

Poll(r) ==
  /\ phase[r] = "waiting" /\ entry[r] \in {"succeeded", "failed"}
  /\ Move(r, entry[r])
  /\ UNCHANGED <<staging, entry, agent, target>> /\ Same

(* A cancelled operation fails the row, whatever the Agent is doing.       *)
Expire(r) ==
  /\ phase[r] = "waiting" /\ entry[r] \in {"queued", "running"}
  /\ Enter(r, "failed") /\ Move(r, "failed")
  /\ UNCHANGED <<staging, agent, target>> /\ Same

-----------------------------------------------------------------------------
(* A database.                                                             *)

Untouched == UNCHANGED <<kind, limit, confirmation, request, staging, entry, agent, others>>

Find(r) ==
  /\ phase[r] = "begun" /\ kind = "database"
  /\ \E p \in {IF Exists THEN "present" ELSE "absent", "failed"} : Move(r, p)
  /\ UNCHANGED <<target, overtaken>> /\ Untouched

Inspect(r) ==
  /\ phase[r] = "present"
  /\ \/ /\ EmptyThere
        /\ Move(r, "importing")
        /\ overtaken' = IF \E q \in Requests \ {r} : phase[q] = "created"
                        THEN overtaken \cup {r} ELSE overtaken
     \/ Move(r, "failed") /\ UNCHANGED overtaken
  /\ UNCHANGED target /\ Untouched

Create(r) ==
  /\ phase[r] = "absent"
  /\ \/ ~Exists /\ target' = [Missing EXCEPT !.made = r] /\ Move(r, "created")
     \/ Move(r, "failed") /\ UNCHANGED target
  /\ UNCHANGED overtaken /\ Untouched

MarkCreated(r) ==
  /\ phase[r] = "created"
  /\ \/ /\ Exists
        /\ target' = [target EXCEPT !.marks = @ \cup {r}]
        /\ Move(r, "filling")
     \/ Move(r, "failed") /\ UNCHANGED target
  /\ UNCHANGED overtaken /\ Untouched

(* "filling" is the import into a database this request has created.       *)
Import(r) ==
  /\ phase[r] \in {"importing", "filling"}
  /\ \/ /\ Exists
        /\ target' = [target EXCEPT !.holds = @ \cup {request[r].snapshot}]
        /\ Move(r, IF phase[r] = "filling" THEN "unmarking" ELSE "succeeded")
     \/ /\ Move(r, IF phase[r] = "filling" THEN "guarding" ELSE "failed")
        /\ \/ UNCHANGED target
           \/ Exists /\ target' = [target EXCEPT !.holds = @ \cup {Partial}]
  /\ UNCHANGED overtaken /\ Untouched

(* Mutant: a database this request has created is not told from another.   *)
CleanupCheck_Unmarked(r) ==
  Exists /\ \A q \in Requests \ {r} : phase[q] \notin {"importing", "filling"}

(* The guard: the mark is there and nobody else is connected.              *)
CleanupCheck(r) ==
  /\ r \in target.marks
  /\ \A q \in Requests \ {r} : phase[q] \notin {"importing", "filling"}

Guard(r) ==
  /\ phase[r] = "guarding"
  /\ \/ CleanupCheck(r) /\ Move(r, "dropping")
     \/ Move(r, "failed")
  /\ UNCHANGED <<target, overtaken>> /\ Untouched

DropCreated(r) ==
  /\ phase[r] = "dropping"
  /\ target' \in {target, Missing}
  /\ Move(r, "failed")
  /\ UNCHANGED overtaken /\ Untouched

UnmarkCreated(r) ==
  /\ phase[r] = "unmarking"
  /\ \/ /\ r \in target.marks
        /\ target' = [target EXCEPT !.marks = @ \ {r}]
        /\ Move(r, "succeeded")
     \/ Move(r, "failed") /\ UNCHANGED target
  /\ UNCHANGED overtaken /\ Untouched

-----------------------------------------------------------------------------
(* Other users of the machine or of the database server.                   *)

(* A restore has made the database and not marked it, or has seen its mark *)
(* and not removed it.                                                     *)
Between == \E r \in Requests : phase[r] \in {"created", "dropping"}

OthersMake ==
  /\ ~Exists
  /\ target' = [made |-> Other, holds |-> {Other}, marks |-> {}]
  /\ others' = [others EXCEPT !.steps = @ + 1, !.exposed = Between]

OthersFill ==
  /\ Exists
  /\ target' = [target EXCEPT !.holds = @ \cup {Other}]
  /\ others' = [others EXCEPT !.steps = @ + 1]

OthersRemove ==
  /\ Exists
  /\ target' = Missing
  /\ others' = [steps |-> others.steps + 1, removed |-> TRUE, exposed |-> FALSE]

Others ==
  /\ others.steps < MaxOthers
  /\ OthersMake \/ OthersFill \/ OthersRemove
  /\ UNCHANGED <<kind, limit, confirmation, request, phase, staging, entry, agent, overtaken>>

Next ==
  \/ \E c \in Confirmations : (\E s \in Snapshots : Preflight(c, s)) \/ Authorize(c) \/ Lapse(c)
  \/ \E r \in Requests :
       \/ \E c \in Confirmations, s \in Snapshots : Consume(r, c, s)
       \/ Prepare(r) \/ Fetch(r) \/ Look(r) \/ Rename(r) \/ Link(r) \/ RemoveStaging(r)
       \/ CreateRequest(r) \/ Claim(r) \/ AgentStage(r) \/ AgentFetch(r) \/ AgentRename(r)
       \/ Complete(r) \/ Poll(r) \/ Expire(r)
       \/ Find(r) \/ Inspect(r) \/ Create(r) \/ MarkCreated(r) \/ Import(r) \/ Guard(r)
       \/ DropCreated(r) \/ UnmarkCreated(r)
  \/ SetLimit \/ Stop \/ AgentStops \/ Others

Spec == Init /\ [][Next]_vars

-----------------------------------------------------------------------------
(* No restore works from a confirmation another has used, nor differs from *)
(* what was confirmed.                                                     *)
Confirmed ==
  \A r \in Requests : phase[r] # "new" =>
    LET c == confirmation[request[r].confirmation]
    IN /\ c.state = "consumed"
       /\ c.snapshot = request[r].snapshot /\ c.limit = request[r].limit
       /\ \A q \in Requests \ {r} :
            phase[q] # "new" =>
              request[q].confirmation # request[r].confirmation

(* What a successful restore has put at the target is there until others   *)
(* remove it, and a path holds nothing else of the program's.              *)
Delivered ==
  \A r \in Requests : phase[r] = "succeeded" /\ ~others.removed /\ r \notin overtaken =>
    /\ request[r].snapshot \in target.holds
    /\ kind # "database" => target.made = r /\ Partial \notin target.holds

(* httpapi/server.go restoreDirectory, agentrestore/service.go restore,    *)
(* restore/service.go Restore: a restore that reports success was confirmed *)
(* once, restored exactly what was confirmed, and its result is kept by    *)
(* every other restore, whatever the two do at the same time.              *)
RestoresWhatWasConfirmed == Confirmed /\ Delivered

(* repository/service.go restoreDirectoryUnlocked, RestoreDumpFile;        *)
(* restore/service.go:177-188 failedRestore: what others have made is not  *)
(* replaced or removed, not even when a database was removed and made      *)
(* again by others under a restore that then fails and cleans up; except   *)
(* where they made it between two statements of a restore that belong      *)
(* together, which neither the mark nor the guard can tell.                *)
Spares ==
  others' = others /\ target.made = Other /\ ~others.exposed =>
    target'.made = Other /\ target.holds \subseteq target'.holds

SparesOthers == [][Spares]_vars
=============================================================================
