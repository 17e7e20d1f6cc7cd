--------------------------- MODULE DatabaseUpgrade ---------------------------
(***************************************************************************)
(* store.Open: every start brings the database of any earlier release to   *)
(* the tables of this one, one statement or transaction after another,     *)
(* each of which may fail or be the last before the process stops.  There  *)
(* is no version number: a step looks at the columns it finds and at the   *)
(* rows that still have the old form, so it must do nothing to a database  *)
(* it has upgraded before, which the service has changed since.            *)
(*                                                                         *)
(* One repository, its task, a plan, Agents and hosts stand for all.  One  *)
(* process opens the database at a time.                                   *)
(***************************************************************************)
EXTENDS Naturals, Sequences, FiniteSets

CONSTANTS
  Agents, Hosts,
  MaxDeployments   \* bound on deployments, for TLC

VARIABLES
  at,        \* "closed", the step of migrate that is next, or "open"
  columns,   \* groups of columns that earlier releases may not have had
  tables,    \* tables that have the form of this release
  linked,    \* a table has foreign keys
  moved,     \* metadata: the retention of tasks has been moved
  rows,      \* what the tables hold
  intended,  \* history: what they should hold
  cut        \* history: the process stopped between AddManaged and InferManaged

vars == <<at, columns, tables, linked, moved, rows, intended, cut>>

None    == "none"     \* a column that is not there, or NULL
Columns == {"anchor", "records", "backend", "owner", "scope", "managed", "host", "agents"}
Tables  == {"occurrences", "repositories", "tasks"}

Started == 1          \* the time of a start
Edited  == 2          \* what an administrator writes
Else(value, default) == IF value = None THEN default ELSE value

-----------------------------------------------------------------------------
(* The rows of earlier releases, and what they mean.                       *)

Unassigned == [a \in Agents |-> FALSE]
Unbound    == [a \in Agents |-> None]

(* A task in a database without Agents; a plan whose anchor is 0 has none. *)
Plain ==
  [engine |-> "restic", kind |-> "sftp", owner |-> None, place |-> "here",
   wish |-> 0, retention |-> 0, anchor |-> 0, status |-> "success", monitored |-> FALSE,
   verifies |-> FALSE, hosts |-> {}, deployments |-> << >>,
   managed |-> Unassigned, host |-> Unbound, certified |-> {}]

Engine(r) == Else(r.engine, "restic")

Kind(r) ==
  LET kind == Else(r.kind, "sftp")
  IN IF Engine(r) = "rsync" /\ kind = "sftp" THEN "ssh" ELSE kind

Owner(r) ==
  IF Kind(r) # "local" THEN None
  ELSE IF Else(r.place, "here") = "agent" THEN "agent" ELSE Else(r.owner, "here")

Deployed(r) == {r.deployments[i][1] : i \in DOMAIN r.deployments}

Last(r, a) == CHOOSE i \in DOMAIN r.deployments :
  /\ r.deployments[i][1] = a
  /\ \A j \in DOMAIN r.deployments : r.deployments[j][1] = a => j <= i

(* An Agent without a host may get that of its last deployment.            *)
Claims(r, a) ==
  IF r.managed[a] /\ r.host[a] = None /\ a \in Deployed(r)
    THEN {r.deployments[Last(r, a)][2]} \cap r.hosts
    ELSE {}

FreeHosts(r) == r.hosts \ {r.host[a] : a \in Agents}

Meaning(r, managedKnown, retentionMoved) ==
  LET assigned ==
        [r EXCEPT !.managed = IF managedKnown THEN @ ELSE [a \in Agents |-> a \in Deployed(r)],
                  !.host = [a \in Agents |-> IF @[a] \in r.hosts THEN @[a] ELSE None]]
      First(a, h) == \A b \in Agents \ {a} :
        h \in Claims(assigned, b) => Last(r, b) < Last(r, a)
  IN [assigned EXCEPT
        !.engine = Engine(r), !.kind = Kind(r), !.owner = Owner(r), !.place = Else(@, "here"),
        !.wish = IF Engine(r) = "restic" THEN 0 ELSE @,
        !.retention = IF Engine(r) = "restic" /\ ~retentionMoved THEN r.wish ELSE @,
        !.status = "success", !.monitored = TRUE, !.verifies = FALSE, !.certified = Agents,
        !.host = [a \in Agents |->
          IF \E h \in Claims(assigned, a) \cap FreeHosts(assigned) : First(a, h)
            THEN CHOOSE h \in Claims(assigned, a) : TRUE
            ELSE @[a]]]

-----------------------------------------------------------------------------
(* Databases of earlier releases, the empty one of a first start included. *)

OldRepository(t) == IF "repositories" \in t THEN {} ELSE {None}
OldTask(t)       == IF "tasks" \in t THEN {} ELSE {None}

OldConfiguration ==
  \E t \in SUBSET Tables, c \in SUBSET (Columns \ {"managed", "host", "agents"}), m \in BOOLEAN :
    /\ "repositories" \notin t => c \cap {"backend", "owner"} = {}
    /\ "owner" \in c => "backend" \in c
    /\ "tasks" \notin t => "scope" \notin c /\ ~m
    /\ tables = t /\ columns = c \cup {"managed", "host", "agents"} /\ moved = m
    /\ \E e \in {"restic", "rsync"} \cup OldRepository(t),
          k \in {"sftp", "ssh", "local"} \cup OldRepository(t),
          p \in {"here", "agent"} \cup OldTask(t), w \in 0..1, v \in {0, Edited},
          d \in {0, 1}, s \in {"succeeded", "success"} :
         /\ k = "ssh" => e = "rsync"
         /\ m => w = 0
         /\ d = 0 <=> "anchor" \notin c
         /\ \E o \in IF k # "local" \/ "owner" \notin c THEN {None}
                     ELSE IF p = "agent" THEN {"agent"} ELSE {"here"} :
              rows = [Plain EXCEPT !.engine = e, !.kind = k, !.owner = o, !.place = p,
                        !.wish = w, !.retention = v, !.anchor = d, !.status = s,
                        !.certified = Agents]

OldAgents ==
  /\ tables = Tables /\ moved = TRUE
  /\ \E c \in SUBSET {"managed", "host", "agents"},
        s \in UNION {[1..n -> Agents \X Hosts] : n \in 0..MaxDeployments},
        m \in [Agents -> BOOLEAN], b \in [Agents -> Hosts \cup {None}], hs \in SUBSET Hosts :
       /\ columns = c \cup (Columns \ {"managed", "host", "agents"})
       /\ "managed" \notin c => m = Unassigned
       /\ "host" \notin c => b = Unbound
       /\ \A x, y \in Agents : x # y /\ b[x] # None => b[x] # b[y]
       /\ rows = [Plain EXCEPT !.anchor = Edited, !.retention = Edited, !.hosts = hs,
                    !.deployments = s, !.managed = m, !.host = b,
                    !.certified = IF "agents" \in c THEN Agents ELSE {}]

Init ==
  /\ at = "closed" /\ linked = TRUE /\ cut = FALSE
  /\ OldConfiguration \/ OldAgents
  /\ intended = Meaning(rows, "managed" \in columns, moved)

-----------------------------------------------------------------------------
(* The steps of migrate.                                                   *)

Step(from, to) == at = from /\ at' = to
Shape == UNCHANGED <<columns, tables, linked, moved, intended, cut>>

Add(c) == columns' = columns \cup {c} /\ UNCHANGED <<tables, linked, moved, rows, intended, cut>>

(* CREATE TABLE IF NOT EXISTS: a table that is there keeps its form.       *)
Begin       == Step("closed", "anchor") /\ UNCHANGED rows /\ Shape
AddAnchor   == Step("anchor", "set anchor") /\ Add("anchor")
AddRecords  == Step("records", "statuses") /\ Add("records")
AddBackend  == Step("backend", "monitor") /\ Add("backend")
AddOwner    == Step("owner", "set owner") /\ Add("owner")
AddScope    == Step("scope", "managed") /\ Add("scope")
AddHost     == Step("host", "clear host") /\ Add("host")
AddMetadata == Step("agents", "certificates") /\ Add("agents")

(* A plan without an anchor gets the time of this start.                   *)
SetAnchor ==
  /\ Step("set anchor", "occurrences")
  /\ LET Set(r) == [r EXCEPT !.anchor = IF @ = 0 THEN Started ELSE @]
     IN rows' = Set(rows) /\ intended' = Set(intended)
  /\ UNCHANGED <<columns, tables, linked, moved, cut>>

(* A table of an old form is copied, without the columns that came later,  *)
(* and replaced in one transaction.                                        *)
Rebuild(table, lost) ==
  /\ tables' = tables \cup {table}
  /\ columns' = IF table \in tables THEN columns ELSE columns \ lost
  /\ UNCHANGED <<linked, moved, intended, cut>>

RebuildOccurrences ==
  Step("occurrences", "records") /\ Rebuild("occurrences", {}) /\ UNCHANGED rows

RunStatuses ==
  /\ Step("statuses", "repositories") /\ rows' = [rows EXCEPT !.status = "success"]
  /\ Shape

RepositoryKinds ==
  /\ Step("repositories", "ssh") /\ Rebuild("repositories", {"backend", "owner"})
  /\ rows' = IF "repositories" \in tables THEN rows
             ELSE [rows EXCEPT !.engine = Else(@, "restic"), !.kind = Else(@, "sftp"),
                               !.owner = None]

RsyncToSSH ==
  /\ Step("ssh", "backend")
  /\ rows' = IF rows.engine = "rsync" /\ rows.kind = "sftp"
             THEN [rows EXCEPT !.kind = "ssh"] ELSE rows
  /\ Shape

(* Every capacity policy is set to the fixed one, at every start.          *)
RepositoryCapacity ==
  Step("monitor", "tasks") /\ rows' = [rows EXCEPT !.monitored = TRUE] /\ Shape

TaskExecutions ==
  /\ Step("tasks", "owner") /\ Rebuild("tasks", {"scope"})
  /\ rows' = IF "tasks" \in tables THEN rows ELSE [rows EXCEPT !.place = Else(@, "here")]

LocalTargets ==
  /\ Step("set owner", "retention")
  /\ rows' = IF rows.kind # "local" THEN rows
             ELSE [rows EXCEPT !.owner = IF rows.place = "agent" THEN "agent" ELSE Else(@, "here")]
  /\ Shape

RetentionAuthority ==
  /\ Step("retention", "verification")
  /\ IF moved \/ rows.engine # "restic"
     THEN UNCHANGED rows
     ELSE rows' = [rows EXCEPT !.retention = rows.wish, !.wish = 0]
  /\ moved' = TRUE
  /\ UNCHANGED <<columns, tables, linked, intended, cut>>

VerificationRetired ==
  Step("verification", "scope") /\ rows' = [rows EXCEPT !.verifies = FALSE] /\ Shape

(* The column tells whether the inference has been made: it is made once,  *)
(* right after the column was added.                                       *)
Infers_Always == TRUE   \* mutant: the inference is made at every start
Infers == "managed" \notin columns

AddManaged ==
  /\ at = "managed" /\ at' = IF Infers THEN "infer" ELSE "host"
  /\ Add("managed")

InferManaged ==
  /\ Step("infer", "host")
  /\ rows' = [rows EXCEPT !.managed = [a \in Agents |-> @[a] \/ a \in Deployed(rows)]]
  /\ Shape

ClearMissingHosts ==
  /\ Step("clear host", "bind")
  /\ rows' = [rows EXCEPT !.host = [a \in Agents |-> IF @[a] \in rows.hosts THEN @[a] ELSE None]]
  /\ Shape

Candidates == {a \in Agents : Claims(rows, a) \cap FreeHosts(rows) # {}}

(* The latest deployment first; every binding is a statement.              *)
BindDeployed ==
  /\ at = "bind" /\ Shape
  /\ IF Candidates = {}
     THEN at' = "agents" /\ UNCHANGED rows
     ELSE /\ at' = at
          /\ \E a \in Candidates :
               /\ \A b \in Candidates : Last(rows, b) <= Last(rows, a)
               /\ \E h \in Claims(rows, a) : rows' = [rows EXCEPT !.host[a] = h]

BackfillCertificates ==
  Step("certificates", "links") /\ rows' = [rows EXCEPT !.certified = Agents] /\ Shape

LogicalReferencesOnly ==
  /\ Step("links", "open") /\ linked' = FALSE
  /\ UNCHANGED <<columns, tables, moved, rows, intended, cut>>

Migrate ==
  \/ Begin \/ AddAnchor \/ SetAnchor \/ RebuildOccurrences \/ AddRecords \/ RunStatuses
  \/ RepositoryKinds \/ RsyncToSSH \/ AddBackend \/ RepositoryCapacity \/ TaskExecutions
  \/ AddOwner \/ LocalTargets \/ RetentionAuthority \/ VerificationRetired \/ AddScope
  \/ AddManaged \/ InferManaged \/ AddHost \/ ClearMissingHosts \/ BindDeployed
  \/ AddMetadata \/ BackfillCertificates \/ LogicalReferencesOnly

-----------------------------------------------------------------------------
(* What the service writes to an open database.                            *)

Write(written, wished) ==
  /\ at = "open" /\ rows' = written /\ intended' = wished
  /\ UNCHANGED <<at, columns, tables, linked, moved, cut>>

SaveMaintenancePolicy == LET W(r) == [r EXCEPT !.retention = Edited] IN Write(W(rows), W(intended))

UpdatePlan == LET W(r) == [r EXCEPT !.anchor = Edited] IN Write(W(rows), W(intended))

SaveVerificationPolicy == LET W(r) == [r EXCEPT !.verifies = TRUE] IN Write(W(rows), W(intended))

(* Monitored as it always is, or disabled, or with limits of its own.      *)
SaveRepositoryCapacityPolicy ==
  \E fixed \in BOOLEAN :
    LET W(r) == [r EXCEPT !.monitored = fixed] IN Write(W(rows), W(intended))

(* A host has one Agent; the one it had before is left without.            *)
Bound(r, a, h) == [b \in Agents |-> IF b = a THEN h ELSE IF r.host[b] = h THEN None ELSE r.host[b]]

BindAgentRemoteHost ==
  \E a \in Agents, h \in rows.hosts :
    /\ \A b \in Agents \ {a} : rows.host[b] = h => ~rows.managed[b]
    /\ LET W(r) == [r EXCEPT !.host = Bound(r, a, h)] IN Write(W(rows), W(intended))

BindManagedAgentRemoteHost ==
  \E a \in Agents, h \in rows.hosts :
    /\ Len(rows.deployments) < MaxDeployments
    /\ LET W(r) == [r EXCEPT !.host = Bound(r, a, h), !.managed[a] = TRUE,
                             !.deployments = Append(@, <<a, h>>)]
       IN Write(W(rows), W(intended))

(* A revoked Agent is enrolled again, by hand.                             *)
EnrollAgent ==
  \E a \in Agents :
    LET W(r) == [r EXCEPT !.host[a] = None, !.managed[a] = FALSE] IN Write(W(rows), W(intended))

DeleteHost ==
  \E h \in rows.hosts :
    LET W(r) == [r EXCEPT !.hosts = @ \ {h},
                          !.host = [a \in Agents |-> IF @[a] = h THEN None ELSE @[a]]]
    IN Write(W(rows), W(intended))

(* What the next start does not keep.                                      *)
Undone(r) == [r EXCEPT !.monitored = TRUE, !.verifies = FALSE]

(* The process ends: it is stopped, or a statement has failed.             *)
Stop ==
  /\ at # "closed" /\ at' = "closed"
  /\ cut' = (cut \/ at = "infer")
  /\ intended' = Undone(intended)
  /\ UNCHANGED <<columns, tables, linked, moved, rows>>

Next ==
  \/ Migrate
  \/ SaveMaintenancePolicy \/ UpdatePlan \/ SaveVerificationPolicy
  \/ SaveRepositoryCapacityPolicy
  \/ BindAgentRemoteHost \/ BindManagedAgentRemoteHost \/ EnrollAgent \/ DeleteHost
  \/ Stop

Spec == Init /\ [][Next]_vars

-----------------------------------------------------------------------------
TypeOK ==
  /\ columns \subseteq Columns /\ tables \subseteq Tables
  /\ DOMAIN rows = DOMAIN Plain /\ DOMAIN intended = DOMAIN Plain

(* Every column is there, and no table keeps its old form.                 *)
Complete == columns = Columns /\ tables = Tables /\ ~linked /\ moved

Same == {"engine", "kind", "owner", "place", "wish", "retention", "anchor", "status",
         "monitored", "verifies", "hosts", "deployments", "certified"}

(* An Agent that has lost its host may be given that of its last           *)
(* deployment at the next start; one that has a host keeps it.             *)
HostsKept ==
  /\ \A a \in Agents : rows.host[a] # intended.host[a] =>
       /\ intended.host[a] = None
       /\ a \in Deployed(rows) /\ rows.host[a] = rows.deployments[Last(rows, a)][2]
  /\ \A a, b \in Agents : a # b /\ rows.host[a] # None => rows.host[a] # rows.host[b]

(* store.go:643 migrate, store.go:1071: an open database has the form of   *)
(* this release and says what its rows said in the old form, with every    *)
(* change made since, however often the upgrade was cut off and repeated.  *)
(* Two settings are kept until the next start only, which undoes them: a   *)
(* verification policy, and a capacity policy that was disabled or given   *)
(* limits of its own (repository_capacity.go:44).                          *)
UpgradeKeeps ==
  at = "open" =>
    /\ Complete
    /\ \A f \in Same : rows[f] = intended[f]
    /\ ~cut => rows.managed = intended.managed /\ HostsKept
=============================================================================
