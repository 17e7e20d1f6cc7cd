--------------------------- MODULE ResourceReferences ---------------------------
(***************************************************************************)
(* The configuration of the service: remote hosts, Agents, repositories,   *)
(* database connections and tasks, the rows that refer to each other by id *)
(* without foreign keys, and the secrets they refer to.                    *)
(*                                                                         *)
(* A handler that changes a resource with a secret is a call of three      *)
(* steps: it reads, checks its input and stores the secret; one            *)
(* transaction checks the references again and writes the row; the secrets *)
(* that this leaves over are deleted.  Calls overlap, a transaction or a   *)
(* deletion may fail, and the process may stop between two steps.          *)
(*                                                                         *)
(* A place is a filesystem or a server: that of the control service, an    *)
(* Agent's, a remote host, or S3.  It stands for the kind, the local       *)
(* target and the host of a repository, and for the execution target of a  *)
(* task.  Plans, policies and work of a task are the subject of TaskWork,  *)
(* certificates that of AgentIdentity.                                     *)
(***************************************************************************)
EXTENDS Naturals, FiniteSets

CONSTANTS
  Hosts, Agents, Repos, Conns, Tasks,   \* ids of the rows
  Secrets,         \* ids of secrets
  RepositoryForms, \* [engine, place] of the repositories that are asked for
  TaskForms,       \* [kind, place, repo, host, conn] of the tasks asked for
  MaxCalls,        \* bound: calls in progress
  MaxTroubles      \* bound: failures and restarts

None    == "none"
Control == "control"
S3      == "s3"

(* Repository.Validate and Task.Validate.                                  *)
ValidRepository(form) ==
  \/ form.place \in Agents
  \/ form.place \in Hosts
  \/ form.place \in {Control, S3} /\ form.engine = "restic"

ValidTask(form) ==
  /\ form.place \in Agents \cup {Control}
  /\ form.kind = "database" <=> form.conn # None
  /\ form.kind # "rsync" => form.repo # None /\ form.host = None
  /\ form.repo # None => form.host = None
  /\ form.kind = "rsync" /\ form.repo = None /\ form.host = None =>
       form.place \in Agents

IdsAssumption ==
  /\ {None, Control, S3} \cap (Hosts \cup Agents \cup Repos \cup Conns \cup Secrets) = {}
  /\ Hosts \cap Agents = {}
  /\ RepositoryForms \subseteq [engine : {"restic", "rsync"},
                                place : Hosts \cup Agents \cup {Control, S3}]
  /\ TaskForms \subseteq [kind : {"directory", "database", "rsync"},
                          place : Agents \cup {Control}, repo : Repos \cup {None},
                          host : Hosts \cup {None}, conn : Conns \cup {None}]
  /\ \A form \in RepositoryForms : ValidRepository(form)
  /\ \A form \in TaskForms : ValidTask(form)

VARIABLES
  hosts,    \* row of each host that exists: its key, a secret
  agents,   \* row of each Agent: [revoked, host]
  repos,    \* row of each repository: [engine, place, ready, password, backend]
  conns,    \* row of each connection: [purpose, secret]
  tasks,    \* row of each task: a form, enabled, and whether a good run is recorded
  vault,    \* secrets that are stored
  used,     \* ids that were given out; they are random, and never given out again
  calls,    \* calls in progress: [do, id, row] or [do |-> "Discard", id, row]
  troubles  \* failures and restarts so far

rows == <<hosts, agents, repos, conns, tasks>>
vars == <<hosts, agents, repos, conns, tasks, vault, used, calls, troubles>>

Empty == [id \in {} |-> None]

Init ==
  /\ hosts = Empty /\ agents = Empty /\ repos = Empty /\ conns = Empty /\ tasks = Empty
  /\ vault = {} /\ used = {} /\ calls = {} /\ troubles = 0

-----------------------------------------------------------------------------
(* Rows, calls and secrets.                                                *)

Set(table, id, row) ==
  [i \in DOMAIN table \cup {id} |-> IF i = id THEN row ELSE table[i]]
Without(table, id) == [i \in DOMAIN table \ {id} |-> table[i]]

Fault   == troubles < MaxTroubles /\ troubles' = troubles + 1
NoFault == troubles' = troubles
FailsUnless(able) == (~able /\ NoFault) \/ Fault

Call(do, id, row) == [do |-> do, id |-> id, row |-> row]
Discards(secrets) == {Call("Discard", s, None) : s \in secrets \ {None}}

(* A call begins, and ends by deleting what it leaves over.                *)
Begin(do, id, row) ==
  /\ Cardinality(calls) < MaxCalls
  /\ calls' = calls \cup {Call(do, id, row)}
End(call, secrets) == calls' = (calls \ {call}) \cup Discards(secrets)

(* confirmResourceDelete: the secrets of the row go after the row.         *)
EndAtOnce(secrets) == calls' = calls \cup Discards(secrets)

Unused(id) == id \notin used /\ used' = used \cup {id}

HeldBy(call) ==
  CASE call.do \in {"CreateHost", "UpdateHost"} -> {call.row}
    [] call.do = "CreateRepository" -> {call.row.password, call.row.backend}
    [] call.do = "UpdateRepository" -> {call.row.backend}
    [] call.do \in {"CreateConnection", "UpdateConnection"} -> {call.row.secret}
    [] call.do = "Discard" -> {call.id}
    [] OTHER -> {}

(* secretReferenced, for the rows of this module.                          *)
Referenced(s) ==
  \/ \E h \in DOMAIN hosts : hosts[h] = s
  \/ \E r \in DOMAIN repos : s \in {repos[r].password, repos[r].backend}
  \/ \E c \in DOMAIN conns : conns[c].secret = s

(* An id for a new secret: one that nothing has or refers to.              *)
Fresh(s) ==
  s \in Secrets \ vault /\ ~Referenced(s) /\ \A call \in calls : s \notin HeldBy(call)

Put(secrets) ==
  /\ \A s \in secrets : Fresh(s)
  /\ vault' = vault \cup secrets

(* Manager.Delete; its error is dropped.                                   *)
Discard ==
  \E call \in calls :
    /\ call.do = "Discard" /\ End(call, {})
    /\ \/ NoFault /\ vault' = IF Referenced(call.id) THEN vault ELSE vault \ {call.id}
       \/ Fault /\ vault' = vault
    /\ UNCHANGED <<rows, used>>

-----------------------------------------------------------------------------
(* Remote hosts.                                                           *)

NewHost ==
  \E h \in Hosts, s \in Secrets :
    /\ Unused(h) /\ Put({s}) /\ Begin("CreateHost", h, s) /\ NoFault
    /\ UNCHANGED rows

CreateHost ==
  \E call \in calls :
    /\ call.do = "CreateHost"
    /\ LET able == call.row \in vault IN
       \/ able /\ NoFault /\ hosts' = Set(hosts, call.id, call.row) /\ End(call, {})
       \/ FailsUnless(able) /\ hosts' = hosts /\ End(call, {call.row})
    /\ UNCHANGED <<agents, repos, conns, tasks, vault, used>>

(* With a new key, or with the one the row has.                            *)
EditHost ==
  \E h \in used \cap Hosts :
    /\ \/ \E s \in Secrets : Put({s}) /\ Begin("UpdateHost", h, s)
       \/ UNCHANGED vault /\ Begin("UpdateHost", h, None)
    /\ NoFault /\ UNCHANGED <<rows, used>>

UpdateHost ==
  \E call \in calls :
    /\ call.do = "UpdateHost"
    /\ LET h    == call.id
           key  == IF call.row = None THEN hosts[h] ELSE call.row
           able == h \in DOMAIN hosts /\ key \in vault
       IN \/ /\ able /\ NoFault /\ hosts' = Set(hosts, h, key)
             /\ End(call, IF call.row = None THEN {} ELSE {hosts[h]})
          \/ FailsUnless(able) /\ hosts' = hosts /\ End(call, {call.row})
    /\ UNCHANGED <<agents, repos, conns, tasks, vault, used>>

HostIsFree(h) ==
  /\ \A r \in DOMAIN repos : repos[r].place # h
  /\ \A t \in DOMAIN tasks : tasks[t].host # h

(* DeleteResourceVersioned: no dependency; an Agent loses its association. *)
DeleteHost ==
  \E h \in DOMAIN hosts :
    /\ HostIsFree(h) /\ NoFault
    /\ hosts' = Without(hosts, h)
    /\ agents' = [g \in DOMAIN agents |->
                    IF agents[g].host = h THEN [agents[g] EXCEPT !.host = None]
                    ELSE agents[g]]
    /\ EndAtOnce({hosts[h]})
    /\ UNCHANGED <<repos, conns, tasks, vault, used>>

-----------------------------------------------------------------------------
(* Agents.                                                                 *)

EnrollAgent ==
  \E g \in Agents :
    /\ g \in DOMAIN agents => agents[g].revoked
    /\ agents' = Set(agents, g, [revoked |-> FALSE, host |-> None]) /\ NoFault
    /\ UNCHANGED <<hosts, repos, conns, tasks, vault, used, calls>>

(* A host has one Agent: the association of another is taken away.         *)
BindAgent ==
  \E g \in DOMAIN agents, h \in DOMAIN hosts :
    /\ ~agents[g].revoked /\ NoFault
    /\ agents' = [a \in DOMAIN agents |->
                    IF a = g THEN [agents[a] EXCEPT !.host = h]
                    ELSE IF agents[a].host = h THEN [agents[a] EXCEPT !.host = None]
                    ELSE agents[a]]
    /\ UNCHANGED <<hosts, repos, conns, tasks, vault, used, calls>>

RevokeAgent ==
  \E g \in DOMAIN agents :
    /\ agents' = [agents EXCEPT ![g].revoked = TRUE] /\ NoFault
    /\ UNCHANGED <<hosts, repos, conns, tasks, vault, used, calls>>

AgentIsFree(g) ==
  /\ \A t \in DOMAIN tasks : tasks[t].place # g
  /\ \A r \in DOMAIN repos : repos[r].place # g

DeleteAgent ==
  \E g \in DOMAIN agents :
    /\ agents[g].revoked /\ AgentIsFree(g) /\ NoFault
    /\ agents' = Without(agents, g)
    /\ UNCHANGED <<hosts, repos, conns, tasks, vault, used, calls>>

-----------------------------------------------------------------------------
(* Repositories.                                                           *)

PlaceExists(place) ==
  place \in DOMAIN hosts \cup DOMAIN agents \cup {Control, S3}

SecretsExist(row) == {row.password, row.backend} \subseteq vault \cup {None}

(* Restic needs a password, S3 its credentials too; rsync is ready at once. *)
NewRepository ==
  \E r \in Repos, form \in RepositoryForms, p, b \in Secrets :
    LET restic   == form.engine = "restic"
        password == IF restic THEN p ELSE None
        backend  == IF form.place = S3 THEN b ELSE None
    IN
    /\ p # b /\ Unused(r) /\ Put({password, backend} \ {None}) /\ NoFault
    /\ Begin("CreateRepository", r,
             [engine |-> form.engine, place |-> form.place, ready |-> ~restic,
              password |-> password, backend |-> backend])
    /\ UNCHANGED rows

CreateRepository ==
  \E call \in calls :
    /\ call.do = "CreateRepository"
    /\ LET able == PlaceExists(call.row.place) /\ SecretsExist(call.row) IN
       \/ able /\ NoFault /\ repos' = Set(repos, call.id, call.row) /\ End(call, {})
       \/ /\ FailsUnless(able) /\ repos' = repos
          /\ End(call, {call.row.password, call.row.backend})
    /\ UNCHANGED <<hosts, agents, conns, tasks, vault, used>>

(* Initialize and MarkRepositoryReady.                                     *)
RepositoryReady ==
  \E r \in DOMAIN repos :
    /\ ~repos[r].ready /\ NoFault
    /\ repos' = [repos EXCEPT ![r].ready = TRUE]
    /\ UNCHANGED <<hosts, agents, conns, tasks, vault, used, calls>>

(* What is written is decided here, from the row as it is read: its        *)
(* status, unless the location is changed (a changed engine counts as a    *)
(* change of location here), and its credentials, unless new ones are put. *)
EditRepository ==
  \E r \in DOMAIN repos, form \in RepositoryForms, b \in Secrets \cup {None} :
    LET row  == repos[r]
        same == form.engine = row.engine /\ form.place = row.place
    IN
    /\ form.place # S3 => b = None
    /\ form.place = S3 /\ row.place # S3 => b # None
    /\ Put({b} \ {None}) /\ NoFault
    /\ Begin("UpdateRepository", r,
             [engine |-> form.engine, place |-> form.place,
              ready |-> form.engine = "rsync" \/ (same /\ row.ready), put |-> b,
              backend |-> IF form.place = S3 /\ b = None THEN row.backend ELSE b])
    /\ UNCHANGED <<rows, used>>

LocationIsFixed_Never(r) == FALSE   \* mutant: the tasks of the repository are not counted

LocationIsFixed(r) == \E t \in DOMAIN tasks : tasks[t].repo = r

(* UpdateRepository: a location tasks refer to is not changed.  Whatever   *)
(* credentials the row has by now go when others are written; the password *)
(* stays.                                                                  *)
UpdateRepository ==
  \E call \in calls :
    /\ call.do = "UpdateRepository"
    /\ LET r    == call.id
           old  == repos[r]
           new  == [engine |-> call.row.engine, place |-> call.row.place,
                    ready |-> call.row.ready, password |-> old.password,
                    backend |-> call.row.backend]
           able == /\ r \in DOMAIN repos
                   /\ new.place = old.place \/ ~LocationIsFixed(r)
                   /\ PlaceExists(new.place) /\ SecretsExist(new)
       IN \/ /\ able /\ NoFault /\ repos' = Set(repos, r, new)
             /\ End(call, {old.backend} \ {new.backend})
          \/ FailsUnless(able) /\ repos' = repos /\ End(call, {call.row.put})
    /\ UNCHANGED <<hosts, agents, conns, tasks, vault, used>>

DeleteRepository ==
  \E r \in DOMAIN repos :
    /\ ~LocationIsFixed(r) /\ NoFault
    /\ repos' = Without(repos, r)
    /\ EndAtOnce({repos[r].password, repos[r].backend})
    /\ UNCHANGED <<hosts, agents, conns, tasks, vault, used>>

-----------------------------------------------------------------------------
(* Database connections, the temporary ones for one restore excepted.      *)

NewConnection ==
  \E c \in Conns, purpose \in {"backup", "restore"}, s \in Secrets :
    /\ Unused(c) /\ Put({s}) /\ NoFault
    /\ Begin("CreateConnection", c, [purpose |-> purpose, secret |-> s])
    /\ UNCHANGED rows

CreateConnection ==
  \E call \in calls :
    /\ call.do = "CreateConnection"
    /\ LET able == call.row.secret \in vault IN
       \/ able /\ NoFault /\ conns' = Set(conns, call.id, call.row) /\ End(call, {})
       \/ FailsUnless(able) /\ conns' = conns /\ End(call, {call.row.secret})
    /\ UNCHANGED <<hosts, agents, repos, tasks, vault, used>>

(* The purpose changes only with a new password.                           *)
EditConnection ==
  \E c \in DOMAIN conns, purpose \in {"backup", "restore"}, s \in Secrets \cup {None} :
    /\ purpose # conns[c].purpose => s # None
    /\ Put({s} \ {None}) /\ NoFault
    /\ Begin("UpdateConnection", c, [purpose |-> purpose, secret |-> s])
    /\ UNCHANGED <<rows, used>>

ConnectionIsFree(c) == \A t \in DOMAIN tasks : tasks[t].conn # c

UpdateConnection ==
  \E call \in calls :
    /\ call.do = "UpdateConnection"
    /\ LET c    == call.id
           old  == conns[c]
           new  == [call.row EXCEPT !.secret = IF @ = None THEN old.secret ELSE @]
           able == /\ c \in DOMAIN conns
                   /\ new.purpose = old.purpose \/ ConnectionIsFree(c)
                   /\ new.secret \in vault
       IN \/ /\ able /\ NoFault /\ conns' = Set(conns, c, new)
             /\ End(call, {old.secret} \ {new.secret})
          \/ FailsUnless(able) /\ conns' = conns /\ End(call, {call.row.secret})
    /\ UNCHANGED <<hosts, agents, repos, tasks, vault, used>>

DeleteConnection ==
  \E c \in DOMAIN conns :
    /\ ConnectionIsFree(c) /\ NoFault
    /\ conns' = Without(conns, c) /\ EndAtOnce({conns[c].secret})
    /\ UNCHANGED <<hosts, agents, repos, tasks, vault, used>>

-----------------------------------------------------------------------------
(* Tasks.                                                                  *)

(* validateTaskActivation, as far as it reads these rows.                  *)
MayBeEnabled(form) ==
  IF form.place \in Agents
  THEN /\ form.kind # "database"
       /\ form.kind = "directory" =>
            form.repo \in DOMAIN repos /\ repos[form.repo].place \in Hosts
       /\ form.place \in DOMAIN agents /\ ~agents[form.place].revoked
  ELSE CASE form.kind = "rsync" ->
              LET host == IF form.repo = None THEN form.host
                          ELSE IF form.repo \in DOMAIN repos /\ repos[form.repo].engine = "rsync"
                          THEN repos[form.repo].place ELSE None
              IN host \in DOMAIN hosts
         [] form.kind = "database" ->
              form.conn \in DOMAIN conns /\ conns[form.conn].purpose = "backup"
         [] OTHER -> TRUE

OwnsPath_Anywhere(form) == form.repo \in DOMAIN repos  \* mutant: the place is not compared

(* validateTaskRepositoryTarget: a local path means what it means where    *)
(* the task runs.                                                          *)
OwnsPath(form) ==
  /\ form.repo \in DOMAIN repos
  /\ repos[form.repo].place \in Agents \cup {Control} => repos[form.repo].place = form.place

(* The checks CreateTask and UpdateTask share, and the unique index.       *)
ReferencesExist(t, form) ==
  /\ form.place \in Agents => form.place \in DOMAIN agents
  /\ form.repo # None =>
       /\ OwnsPath(form)
       /\ repos[form.repo].ready
       /\ form.kind = "rsync" => repos[form.repo].engine = "rsync"
       /\ \A u \in DOMAIN tasks \ {t} : tasks[u].repo # form.repo
  /\ form.kind = "database" =>
       form.conn \in DOMAIN conns /\ conns[form.conn].purpose = "backup"
  /\ form.host # None => form.host \in DOMAIN hosts

Row(form, enabled, ran) ==
  [kind |-> form.kind, place |-> form.place, repo |-> form.repo, host |-> form.host,
   conn |-> form.conn, enabled |-> enabled, ran |-> ran]
Form(row) ==
  [kind |-> row.kind, place |-> row.place, repo |-> row.repo, host |-> row.host,
   conn |-> row.conn]

(* The handlers of the task forms: what is checked here may have changed   *)
(* when the transaction comes.                                             *)
NewTask ==
  \E t \in Tasks, form \in TaskForms, enabled \in BOOLEAN :
    /\ enabled => form.kind = "database" /\ MayBeEnabled(form)
    /\ Unused(t) /\ Begin("CreateTask", t, Row(form, enabled, FALSE)) /\ NoFault
    /\ UNCHANGED <<rows, vault>>

EditTask ==
  \E t \in DOMAIN tasks, form \in TaskForms, enabled \in BOOLEAN :
    /\ enabled => MayBeEnabled(form)
    /\ Begin("UpdateTask", t, Row(form, enabled, FALSE)) /\ NoFault
    /\ UNCHANGED <<rows, vault, used>>

CreateTask ==
  \E call \in calls :
    /\ call.do = "CreateTask" /\ End(call, {})
    /\ LET able == ReferencesExist(call.id, Form(call.row)) IN
       \/ able /\ NoFault /\ tasks' = Set(tasks, call.id, call.row)
       \/ FailsUnless(able) /\ tasks' = tasks
    /\ UNCHANGED <<hosts, agents, repos, conns, vault, used>>

(* After a good run what the task backs up, and where to, stays.           *)
UpdateTask ==
  \E call \in calls :
    /\ call.do = "UpdateTask" /\ End(call, {})
    /\ LET t    == call.id
           form == Form(call.row)
           able == /\ t \in DOMAIN tasks /\ ReferencesExist(t, form)
                   /\ tasks[t].ran => form = Form(tasks[t])
       IN \/ able /\ NoFault /\ tasks' = Set(tasks, t, Row(form, call.row.enabled, tasks[t].ran))
          \/ FailsUnless(able) /\ tasks' = tasks
    /\ UNCHANGED <<hosts, agents, repos, conns, vault, used>>

DeleteTask ==
  \E t \in DOMAIN tasks :
    /\ ~tasks[t].enabled /\ NoFault
    /\ tasks' = Without(tasks, t)
    /\ UNCHANGED <<hosts, agents, repos, conns, vault, used, calls>>

(* A run ends well; the lifecycle deletes the rows of old runs.            *)
RunSucceeds ==
  \E t \in DOMAIN tasks :
    /\ ~tasks[t].ran /\ NoFault
    /\ tasks' = [tasks EXCEPT ![t].ran = TRUE]
    /\ UNCHANGED <<hosts, agents, repos, conns, vault, used, calls>>

RunsExpire ==
  \E t \in DOMAIN tasks :
    /\ tasks[t].ran /\ NoFault
    /\ tasks' = [tasks EXCEPT ![t].ran = FALSE]
    /\ UNCHANGED <<hosts, agents, repos, conns, vault, used, calls>>

(* The process stops: what the calls had still to do is lost.              *)
Restart ==
  /\ Fault /\ calls' = {}
  /\ UNCHANGED <<rows, vault, used>>

-----------------------------------------------------------------------------

HostStep == NewHost \/ CreateHost \/ EditHost \/ UpdateHost \/ DeleteHost
AgentStep == EnrollAgent \/ BindAgent \/ RevokeAgent \/ DeleteAgent
RepositoryStep == NewRepository \/ CreateRepository \/ RepositoryReady
                  \/ EditRepository \/ UpdateRepository \/ DeleteRepository
ConnectionStep == NewConnection \/ CreateConnection \/ EditConnection
                  \/ UpdateConnection \/ DeleteConnection
TaskStep == NewTask \/ CreateTask \/ EditTask \/ UpdateTask \/ DeleteTask
            \/ RunSucceeds \/ RunsExpire

Next == HostStep \/ AgentStep \/ RepositoryStep \/ ConnectionStep \/ TaskStep
        \/ Discard \/ Restart

Spec == Init /\ [][Next]_vars

-----------------------------------------------------------------------------
TypeOK ==
  /\ DOMAIN hosts \subseteq Hosts /\ DOMAIN agents \subseteq Agents
  /\ DOMAIN repos \subseteq Repos /\ DOMAIN conns \subseteq Conns
  /\ DOMAIN tasks \subseteq Tasks
  /\ \A t \in DOMAIN tasks : Form(tasks[t]) \in TaskForms
  /\ vault \subseteq Secrets

(* CHANGELOG.md:32, logical_references.go:18: whatever is deleted, moved   *)
(* or created at the same time, no row of a task, repository, Agent or     *)
(* host refers to a row or a secret that does not exist.                   *)
NoDanglingReferences ==
  /\ \A h \in DOMAIN hosts : hosts[h] \in vault
  /\ \A g \in DOMAIN agents : agents[g].host \in DOMAIN hosts \cup {None}
  /\ \A r \in DOMAIN repos : PlaceExists(repos[r].place) /\ SecretsExist(repos[r])
  /\ \A c \in DOMAIN conns : conns[c].secret \in vault
  /\ \A t \in DOMAIN tasks :
       /\ tasks[t].place \in DOMAIN agents \cup {Control}
       /\ tasks[t].repo \in DOMAIN repos \cup {None}
       /\ tasks[t].host \in DOMAIN hosts \cup {None}
       /\ tasks[t].conn # None =>
            tasks[t].conn \in DOMAIN conns /\ conns[tasks[t].conn].purpose = "backup"

(* model.go:237: a task never gets to write to the path of a local         *)
(* repository on another machine than the one the path is of.              *)
PathsKeepTheirOwner ==
  \A t \in DOMAIN tasks : tasks[t].repo \in DOMAIN repos =>
    LET place == repos[tasks[t].repo].place
    IN place \in Agents \cup {Control} => place = tasks[t].place

ReferencesHold == NoDanglingReferences /\ PathsKeepTheirOwner

(* crud.go:322: while a good run of a task is on record, neither an edit   *)
(* of the task nor one of its repository changes where its backups are.    *)
BackupsStayPut ==
  [][\A t \in DOMAIN tasks \cap DOMAIN tasks' :
       tasks[t].ran /\ tasks'[t].ran =>
         /\ Form(tasks'[t]) = Form(tasks[t])
         /\ tasks[t].repo \in DOMAIN repos =>
              /\ tasks[t].repo \in DOMAIN repos'
              /\ repos'[tasks[t].repo].place = repos[tasks[t].repo].place]_vars
=============================================================================
