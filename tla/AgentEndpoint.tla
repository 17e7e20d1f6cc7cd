---------------------------- MODULE AgentEndpoint ----------------------------
(***************************************************************************)
(* The HTTPS endpoint for Agents, which is configured while the service    *)
(* runs: the stored settings, the settings in memory and the listener.     *)
(* Configure stops the old listener, starts the new one and stores the     *)
(* settings, in this order, and goes back if a step fails.                 *)
(***************************************************************************)
EXTENDS Naturals, FiniteSets

CONSTANTS
  Ports,       \* ports, and with them the settings that enable the endpoint
  MaxCalls,    \* bound: calls of Configure
  MaxTroubles  \* bound: failures, crashes and listeners that stop

None == "none"
Off  == "off"    \* the endpoint is disabled

Settings == Ports \cup {Off}

PortsAssumption == {None, Off} \cap Ports = {}

VARIABLES
  stored,      \* settings in the store, or None
  settings,    \* Manager.settings; None while the process is down
  instance,    \* port of Manager.instance, or None
  listeners,   \* ports that the process listens on
  lastError,   \* a message is shown
  call,        \* Configure: [at, requested, old]
  calls, troubles

vars == <<stored, settings, instance, listeners, lastError, call, calls, troubles>>

NoCall == [at |-> "idle", requested |-> None, old |-> None]

Init ==
  /\ stored = None /\ settings = None /\ instance = None
  /\ listeners = {} /\ lastError = FALSE
  /\ call = NoCall /\ calls = 0 /\ troubles = 0

Trouble == troubles < MaxTroubles /\ troubles' = troubles + 1
Calm    == UNCHANGED troubles
Go(at)  == call' = [call EXCEPT !.at = at]

Unavailable(s, message) ==
  /\ settings' = s /\ instance' = None /\ lastError' = message
  /\ UNCHANGED listeners

(* build and install.                                                      *)
Listen(port) ==
  /\ port \notin listeners
  /\ listeners' = listeners \cup {port}
  /\ settings' = port /\ instance' = port /\ lastError' = FALSE

(* Start of the process, with the settings of the command line at first.   *)
Start ==
  /\ settings = None
  /\ \E fallback \in Settings :
       LET s == IF stored = None THEN fallback ELSE stored IN
       \/ s = Off /\ Unavailable(s, FALSE) /\ Calm
       \/ s \in Ports /\ Listen(s) /\ Calm
       \/ s \in Ports /\ Unavailable(s, TRUE) /\ Trouble
  /\ UNCHANGED <<stored, call, calls>>

Configure ==
  \E requested \in Settings :
    /\ settings # None /\ call = NoCall
    /\ calls < MaxCalls /\ calls' = calls + 1
    /\ IF settings = requested /\ (requested # Off <=> instance # None)
       THEN /\ call' = [at |-> "store", requested |-> requested, old |-> settings]
            /\ UNCHANGED <<settings, instance, lastError>>
       ELSE /\ call' = [at |-> "stop", requested |-> requested, old |-> settings]
            /\ settings' = requested /\ instance' = None /\ lastError' = FALSE
    /\ UNCHANGED <<stored, listeners, troubles>>

(* Shutdown closes the listener first; a request that does not end in time *)
(* is cut off, and the old settings come back.                             *)
StopOld ==
  /\ call.at = "stop" /\ listeners' = {}
  /\ \/ Calm /\ Go("build")
     \/ Trouble /\ Go("rollback")
  /\ UNCHANGED <<stored, settings, instance, lastError, calls>>

Build ==
  /\ call.at = "build"
  /\ \/ call.requested = Off /\ Unavailable(Off, FALSE) /\ Calm /\ Go("store")
     \/ call.requested # Off /\ Listen(call.requested) /\ Calm /\ Go("store")
     \/ /\ call.requested # Off /\ Trouble /\ Go("rollback")
        /\ UNCHANGED <<settings, instance, listeners, lastError>>
  /\ UNCHANGED <<stored, calls>>

SaveAgentServiceSettings ==
  /\ call.at = "store"
  /\ \/ /\ Calm /\ stored' = call.requested /\ call' = NoCall
        /\ UNCHANGED <<settings, instance>>
     \/ /\ Trouble /\ stored' = stored
        /\ IF call.old = call.requested
           THEN call' = NoCall /\ UNCHANGED <<settings, instance>>
           ELSE Go("undo") /\ settings' = call.old /\ instance' = None
  /\ UNCHANGED <<listeners, lastError, calls>>

Undone_Left == UNCHANGED listeners  \* mutant: the new listener is not stopped
Undone == listeners' = {}

StopNew ==
  /\ call.at = "undo" /\ Undone
  /\ Go("rollback")
  /\ UNCHANGED <<stored, settings, instance, lastError, calls, troubles>>

Rollback ==
  /\ call.at = "rollback" /\ call' = NoCall
  /\ \/ call.old = Off /\ Unavailable(Off, FALSE) /\ Calm
     \/ call.old # Off /\ Listen(call.old) /\ Calm
     \/ call.old # Off /\ Unavailable(call.old, TRUE) /\ Trouble
  /\ UNCHANGED <<stored, calls>>

(* A listener stops by itself.                                             *)
ServeFails ==
  \E port \in listeners :
    /\ Trouble /\ listeners' = listeners \ {port}
    /\ IF instance = port
       THEN instance' = None /\ lastError' = TRUE
       ELSE UNCHANGED <<instance, lastError>>
    /\ UNCHANGED <<stored, settings, call, calls>>

(* Close, or a crash.                                                      *)
Stop ==
  /\ settings # None /\ (call = NoCall \/ troubles < MaxTroubles)
  /\ settings' = None /\ instance' = None /\ listeners' = {} /\ lastError' = FALSE
  /\ call' = NoCall
  /\ troubles' = IF call = NoCall THEN troubles ELSE troubles + 1
  /\ UNCHANGED <<stored, calls>>

Next ==
  \/ Start \/ Configure \/ StopOld \/ Build \/ SaveAgentServiceSettings
  \/ StopNew \/ Rollback \/ ServeFails \/ Stop

Spec == Init /\ [][Next]_vars

-----------------------------------------------------------------------------
TypeOK ==
  /\ stored \in Settings \cup {None} /\ settings \in Settings \cup {None}
  /\ instance \in Ports \cup {None} /\ listeners \subseteq Ports

(* manager.go:174-228: whenever no call is in progress, the endpoint does  *)
(* what the stored settings say, or shows that it could not; a failed      *)
(* change leaves neither other settings nor a second listener behind.      *)
EndpointAsStored ==
  settings # None /\ call = NoCall =>
    /\ stored \in {settings, None}
    /\ listeners = IF instance = None THEN {} ELSE {instance}
    /\ instance \in {settings, None}
    /\ settings # Off /\ instance = None => lastError
=============================================================================
