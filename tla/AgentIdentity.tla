---------------------------- MODULE AgentIdentity ----------------------------
(***************************************************************************)
(* How a machine becomes an Agent and stays one: enrolment with a token,   *)
(* heartbeats, renewal of the client certificate, revocation and deletion. *)
(* One Agent id is followed, and the machines that want to be that Agent.  *)
(*                                                                         *)
(* A request of a machine is authenticated in one transaction and carried  *)
(* out in another; its answer may be lost.  A machine sends one request at *)
(* a time, and the handler of a request that the machine gave up ends with *)
(* the connection.                                                         *)
(***************************************************************************)
EXTENDS Naturals, FiniteSets

CONSTANTS
  Machines,  \* machines that are set up with the id of the Agent
  Serials,   \* certificates
  Tokens     \* enrolment tokens

None == "none"

VARIABLES
  agent,        \* of agents: [status, serial], status "absent", "active" or "revoked"
  certs,      \* agent_certificates: serial -> [status, holder]
  age,        \* of each certificate: "fresh", "due" or "expired"
  tokens,     \* agent_enrollment_tokens that can be used
  used,       \* serials and tokens that were given out
  disk,       \* the certificate stored on each machine, or None
  requests,   \* the request of each machine: [do, at, serial, token]
  overtaken   \* machines whose renewal was authenticated before a revocation

vars == <<agent, certs, age, tokens, used, disk, requests, overtaken>>

Request(do, at, serial, token) ==
  [do |-> do, at |-> at, serial |-> serial, token |-> token]
NoRequest == Request(None, None, None, None)

Init ==
  /\ agent = [status |-> "absent", serial |-> None]
  /\ certs = [s \in {} |-> None]
  /\ age = [s \in Serials |-> "fresh"]
  /\ tokens = {} /\ used = {}
  /\ disk = [m \in Machines |-> None]
  /\ requests = [m \in Machines |-> NoRequest]
  /\ overtaken = {}

Send(m, request) ==
  /\ requests[m] = NoRequest
  /\ requests' = [requests EXCEPT ![m] = request]
At(m, do, at) == requests[m].do = do /\ requests[m].at = at
Move(m, at)   == requests' = [requests EXCEPT ![m].at = at]
Answer(m, serial) ==
  requests' = [requests EXCEPT ![m].at = "answered", ![m].serial = serial]
Drop(m)       == requests' = [requests EXCEPT ![m] = NoRequest]

Live(s) == s \in DOMAIN certs /\ certs[s].status \in {"active", "pending"}

(* AgentCertificateUsable.                                                 *)
Usable(s) ==
  /\ agent.status = "active"
  /\ Live(s) /\ age[s] # "expired"

Retire(cond(_)) ==
  [s \in DOMAIN certs |-> IF Live(s) /\ cond(s) THEN [certs[s] EXCEPT !.status = "retired"]
                          ELSE certs[s]]
Issue(table, s, status, m) ==
  [c \in DOMAIN table \cup {s} |->
     IF c = s THEN [status |-> status, holder |-> m] ELSE table[c]]

-----------------------------------------------------------------------------
(* Enrolment.                                                              *)

CreateEnrollmentToken ==
  \E t \in Tokens \ used :
    /\ used' = used \cup {t}
    /\ tokens' = tokens \cup {t}
    /\ UNCHANGED <<agent, certs, age, disk, requests, overtaken>>

TokenExpires ==
  \E t \in tokens :
    /\ tokens' = tokens \ {t}
    /\ UNCHANGED <<agent, certs, age, used, disk, requests, overtaken>>

(* An Agent without a stored certificate enrols when it starts, with the   *)
(* token it was given.                                                     *)
StartEnroll ==
  \E m \in Machines, t \in Tokens \cap used :
    /\ disk[m] = None
    /\ Send(m, Request("enroll", "consume", None, t))
    /\ UNCHANGED <<agent, certs, age, tokens, used, disk, overtaken>>

ConsumeAgentEnrollmentToken ==
  \E m \in Machines :
    /\ At(m, "enroll", "consume")
    /\ tokens' = tokens \ {requests[m].token}
    /\ IF requests[m].token \in tokens THEN Move(m, "save") ELSE Drop(m)
    /\ UNCHANGED <<agent, certs, age, used, disk, overtaken>>

Retired == Retire(LAMBDA s : TRUE)

(* Only a new, a revoked or an uninstalled Agent can be enrolled.          *)
EnrollAgent ==
  \E m \in Machines, s \in Serials \ used :
    /\ At(m, "enroll", "save")
    /\ \/ /\ agent.status = "active"
          /\ Drop(m)
          /\ UNCHANGED <<agent, certs, used>>
       \/ /\ agent.status # "active"
          /\ used' = used \cup {s}
          /\ agent' = [status |-> "active", serial |-> s]
          /\ certs' = Issue(Retired, s, "active", m)
          /\ Answer(m, s)
    /\ UNCHANGED <<age, tokens, disk, overtaken>>

-----------------------------------------------------------------------------
(* Heartbeat and renewal.                                                  *)

(* Nothing can be sent with a certificate that has expired.                *)
StartHeartbeat ==
  \E m \in Machines :
    /\ disk[m] # None /\ age[disk[m]] # "expired"
    /\ Send(m, Request("heartbeat", "authorize", disk[m], None))
    /\ UNCHANGED <<agent, certs, age, tokens, used, disk, overtaken>>

(* maintainCertificate: within a month of the expiry.                      *)
StartRenewal ==
  \E m \in Machines :
    /\ disk[m] # None /\ age[disk[m]] = "due"
    /\ Send(m, Request("renew", "authorize", disk[m], None))
    /\ UNCHANGED <<agent, certs, age, tokens, used, disk, overtaken>>

Authorize ==
  \E m \in Machines, do \in {"heartbeat", "renew"} :
    /\ At(m, do, "authorize")
    /\ IF Usable(requests[m].serial) THEN Move(m, "save") ELSE Drop(m)
    /\ UNCHANGED <<agent, certs, age, tokens, used, disk, overtaken>>

(* The first heartbeat with a renewed certificate activates it.            *)
Activated(serial) ==
  IF certs[serial].status # "pending" \/ agent.serial = serial THEN certs
  ELSE [s \in DOMAIN certs |->
          IF s = serial THEN [certs[s] EXCEPT !.status = "active"]
          ELSE IF certs[s].status = "active" THEN [certs[s] EXCEPT !.status = "retired"]
          ELSE certs[s]]

RecordAgentHeartbeat ==
  \E m \in Machines :
    /\ At(m, "heartbeat", "save") /\ Drop(m)
    /\ IF Usable(requests[m].serial)
       THEN /\ certs' = Activated(requests[m].serial)
            /\ agent' = [agent EXCEPT !.serial = requests[m].serial]
       ELSE UNCHANGED <<agent, certs>>
    /\ UNCHANGED <<age, tokens, used, disk, overtaken>>

Replaced_All == Retire(LAMBDA s : TRUE)  \* mutant: the active certificate goes too
Replaced == Retire(LAMBDA s : certs[s].status = "pending")

(* Whoever has authenticated gets a certificate, if the Agent is not       *)
(* revoked now.                                                            *)
SavePendingAgentCertificate ==
  \E m \in Machines, s \in Serials \ used :
    /\ At(m, "renew", "save")
    /\ \/ /\ agent.status # "active"
          /\ Drop(m)
          /\ UNCHANGED <<certs, used>>
       \/ /\ agent.status = "active"
          /\ used' = used \cup {s}
          /\ certs' = Issue(Replaced, s, "pending", m)
          /\ Answer(m, s)
    /\ UNCHANGED <<agent, age, tokens, disk, overtaken>>

(* The credentials are written, or replaced by renaming a file.            *)
StoreCertificate ==
  \E m \in Machines, do \in {"enroll", "renew"} :
    /\ At(m, do, "answered")
    /\ disk' = [disk EXCEPT ![m] = requests[m].serial]
    /\ Drop(m)
    /\ UNCHANGED <<agent, certs, age, tokens, used, overtaken>>

(* A timeout, a lost connection, or the end of the Agent or the service.   *)
GiveUp ==
  \E m \in Machines :
    /\ requests[m] # NoRequest /\ Drop(m)
    /\ UNCHANGED <<agent, certs, age, tokens, used, disk, overtaken>>

-----------------------------------------------------------------------------
(* The administrator and the clock.                                        *)

(* Also the end of CompleteAgentUninstall.                                 *)
RevokeAgent ==
  /\ agent.status = "active"
  /\ agent' = [agent EXCEPT !.status = "revoked"]
  /\ overtaken' = overtaken \cup {m \in Machines : At(m, "renew", "save")}
  /\ UNCHANGED <<certs, age, tokens, used, disk, requests>>

DeleteAgent ==
  /\ agent.status = "revoked"
  /\ agent' = [status |-> "absent", serial |-> None] /\ certs' = [s \in {} |-> None]
  /\ UNCHANGED <<age, tokens, used, disk, requests, overtaken>>

(* A machine is cleared, to be set up again.                               *)
ClearMachine ==
  \E m \in Machines :
    /\ disk[m] # None /\ requests[m] = NoRequest
    /\ disk' = [disk EXCEPT ![m] = None]
    /\ UNCHANGED <<agent, certs, age, tokens, used, requests, overtaken>>

(* Eleven months later.  A renewed certificate is assumed to be in use     *)
(* before it is due itself: see the README for what happens if not.        *)
CertificateIsDue ==
  \E s \in DOMAIN certs :
    /\ age[s] = "fresh" /\ certs[s].status # "pending"
    /\ age' = [age EXCEPT ![s] = "due"]
    /\ UNCHANGED <<agent, certs, tokens, used, disk, requests, overtaken>>

CertificateExpires ==
  \E s \in DOMAIN certs :
    /\ age[s] = "due"
    /\ age' = [age EXCEPT ![s] = "expired"]
    /\ UNCHANGED <<agent, certs, tokens, used, disk, requests, overtaken>>

Next ==
  \/ CreateEnrollmentToken \/ TokenExpires
  \/ StartEnroll \/ ConsumeAgentEnrollmentToken \/ EnrollAgent
  \/ StartHeartbeat \/ StartRenewal \/ Authorize \/ RecordAgentHeartbeat
  \/ SavePendingAgentCertificate \/ StoreCertificate \/ GiveUp
  \/ RevokeAgent \/ DeleteAgent \/ ClearMachine
  \/ CertificateIsDue \/ CertificateExpires

Spec == Init /\ [][Next]_vars

-----------------------------------------------------------------------------
Statuses == {"active", "pending", "retired"}

TypeOK ==
  /\ agent \in [status : {"absent", "active", "revoked"}, serial : Serials \cup {None}]
  /\ DOMAIN certs \subseteq Serials
  /\ \A s \in DOMAIN certs : certs[s] \in [status : Statuses, holder : Machines]
  /\ tokens \subseteq Tokens /\ disk \in [Machines -> Serials \cup {None}]

(* store/agents.go:368: the certificates that open the service belong to   *)
(* one machine, the one that enrolled last, whatever requests,             *)
(* revocations, deletions and new enrolments overlap.  (A renewal that a   *)
(* revocation and a new enrolment overtake is excepted: it is answered.)   *)
OneMachine ==
  /\ \A s1, s2 \in DOMAIN certs :
       Usable(s1) /\ Usable(s2) =>
         \/ certs[s1].holder = certs[s2].holder
         \/ {certs[s1].holder, certs[s2].holder} \cap overtaken # {}
  /\ agent.status # "absent" => certs[agent.serial].status = "active"

(* runtime.go:333, service.go:190: whatever answers to renewals are lost,  *)
(* the certificate that an Agent has stored opens the service until it     *)
(* expires, unless the Agent is revoked or the id was enrolled again.      *)
RenewalKeepsAccess ==
  \A m \in Machines :
    /\ disk[m] # None /\ age[disk[m]] # "expired"
    /\ agent.status = "active" /\ certs[agent.serial].holder = m
    /\ overtaken = {}
    => Usable(disk[m])

AccessHolds == OneMachine /\ RenewalKeepsAccess
=============================================================================
