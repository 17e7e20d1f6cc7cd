---------------------------- MODULE Administration ----------------------------
(***************************************************************************)
(* The administration of the service, component by component: tasks and    *)
(* what hangs on them, the rows that refer to each other, the identity and *)
(* the installation of Agents, and the endpoint they call.  The components *)
(* are modelled to share no state; where two have variables of one name,   *)
(* either one is renamed here, or a behaviour is of one of the two.        *)
(***************************************************************************)
EXTENDS TaskWork

CONSTANTS
  Hosts, Agents, Repos, Conns, TaskIds, Secrets,
  RepositoryForms, TaskForms, MaxTroubles,         \* ResourceReferences
  Machines, Serials, Tokens,                       \* AgentIdentity
  Versions, Broken, MaxOps,                        \* AgentInstallation
  Ports, MaxSettings,                              \* AgentEndpoint
  MaxFailures                                      \* AgentInstallation, AgentEndpoint

VARIABLES
  hosts, agents, repos, conns, taskRows, vault, troubles,           \* ResourceReferences
  identity, certs, age, tokens, given, disk, requests, overtaken,   \* AgentIdentity
  tool, active, previous, staged, running, credentials, agent, fresh, busy, op, scripts,
  proven, ops, failures,                                            \* AgentInstallation
  stored, settings, instance, listeners, lastError, configuring     \* AgentEndpoint

(* Rows that refer to each other, and the secrets they refer to.           *)
References == INSTANCE ResourceReferences WITH Tasks <- TaskIds, tasks <- taskRows

(* Machines that want to be one Agent.                                     *)
Identity == INSTANCE AgentIdentity WITH agent <- identity, used <- given

(* Operations on one host, for the Agent itself or for its Restic: a       *)
(* behaviour is of one tool.                                               *)
Agent == INSTANCE AgentInstallation WITH
  Tool <- "agent", MaxTroubles <- MaxFailures, troubles <- failures

Restic == INSTANCE AgentInstallation WITH
  Tool <- "restic", MaxTroubles <- MaxFailures, troubles <- failures

Endpoint == INSTANCE AgentEndpoint WITH
  MaxCalls <- MaxSettings, MaxTroubles <- MaxFailures, call <- configuring, calls <- ops,
  troubles <- failures

ASSUME ReferencesAssumption == References!IdsAssumption
ASSUME EndpointAssumption   == Endpoint!PortsAssumption

referenceVars == <<hosts, agents, repos, conns, taskRows, vault, troubles>>
identityVars  == <<identity, certs, age, tokens, given, disk, requests, overtaken>>
hostVars      == <<active, previous, staged, running, credentials, agent, fresh, busy, op,
                   scripts, proven>>
toolVars      == <<tool, hostVars, ops, failures>>
endpointVars  == <<stored, settings, instance, listeners, lastError, configuring>>
callVars      == <<used, calls>>

ToolInit ==
  /\ tool \in {"agent", "restic"}
  /\ IF tool = "agent" THEN Agent!Init ELSE Restic!Init

ToolNext ==
  /\ tool' = tool
  /\ \/ tool = "agent"  /\ Agent!Next
     \/ tool = "restic" /\ Restic!Next

ToolSpec == ToolInit /\ [][ToolNext]_toolVars

(* Nobody has a version of the name of none.                               *)
ASSUME VersionsAssumption == Agent!None \notin Versions

-----------------------------------------------------------------------------
(* What the components promise; see there.                                 *)

ReferencesHold   == References!ReferencesHold
BackupsStayPut   == References!BackupsStayPut
AccessHolds      == Identity!AccessHolds
EndpointAsStored == Endpoint!EndpointAsStored

(* AgentInstallation!Restores, of the tool that is followed.               *)
UpgradeRestores ==
  [][(tool = "agent" => Agent!Restores) /\ (tool = "restic" => Restic!Restores)]_toolVars
=============================================================================
