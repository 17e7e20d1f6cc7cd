------------------------- MODULE ControlPlaneExport -------------------------
(***************************************************************************)
(* controlplane.Service.Export: one transaction takes a snapshot of every  *)
(* row, then the secrets the rows name are read one by one, while the      *)
(* administrator goes on changing the configuration.  SealBundle refuses   *)
(* what could not be imported.                                             *)
(*                                                                         *)
(* A resource stands for every resource of its sort.  A secret is never    *)
(* rewritten, so its id stands for its value.  The encryption of a bundle  *)
(* and the order its parts are written in are left out.                    *)
(***************************************************************************)
EXTENDS Naturals, FiniteSets

CONSTANTS
  MaxSecrets,   \* bound on secrets made, for TLC
  MaxBundles    \* bound on exports that succeed, for TLC

VARIABLES
  config, secret,  \* the rows, and the secret of each that has one
  vault, issued,   \* the secrets of the vault, and the last id given out
  export,          \* the export under way: its snapshot and what it has read
  bundles          \* the bundles sealed, each with the moment of its snapshot

vars == <<config, secret, vault, issued, export, bundles>>

-----------------------------------------------------------------------------
Resources == {"host", "repository", "task", "agent"}
Secretful == {"host", "repository"}

Needs == [r \in Resources |->
  CASE r = "host" -> {} [] r = "repository" -> {"host"}
    [] r = "task" -> {"repository"} [] r = "agent" -> {"host"}]

Closed(R) == \A r \in R : Needs[r] \subseteq R

Moment == [rows |-> config, secret |-> secret]

NoExport == [on |-> FALSE, rows |-> {}, secret |-> [r \in Secretful |-> 0],
             read |-> {}, moment |-> [rows |-> {}, secret |-> [r \in Secretful |-> 0]]]

Init ==
  /\ config = {} /\ secret = [r \in Secretful |-> 0] /\ vault = {} /\ issued = 0
  /\ export = NoExport /\ bundles = {}

-----------------------------------------------------------------------------
(* A resource is created, or its secret is replaced: the new secret is put *)
(* before the row refers to it, the old one is deleted afterwards.         *)
Write(r) ==
  /\ Needs[r] \subseteq config /\ config' = config \cup {r}
  /\ \/ /\ r \in Secretful /\ issued < MaxSecrets
        /\ issued' = issued + 1 /\ vault' = vault \cup {issued'}
        /\ secret' = [secret EXCEPT ![r] = issued']
     \/ /\ r \notin Secretful /\ r \notin config
        /\ UNCHANGED <<secret, vault, issued>>
  /\ UNCHANGED <<export, bundles>>

Remove(r) ==
  /\ r \in config /\ Closed(config \ {r}) /\ config' = config \ {r}
  /\ secret' = [q \in Secretful |-> IF q = r THEN 0 ELSE secret[q]]
  /\ UNCHANGED <<vault, issued, export, bundles>>

Forget(s) ==
  /\ s \in vault /\ \A r \in Secretful : secret[r] # s
  /\ vault' = vault \ {s}
  /\ UNCHANGED <<config, secret, issued, export, bundles>>

-----------------------------------------------------------------------------
(* Store.ControlPlaneSnapshot reads every table in one transaction.        *)
Snapshot ==
  /\ ~export.on /\ Cardinality(bundles) < MaxBundles
  /\ export' = [on |-> TRUE, rows |-> config, secret |-> secret, read |-> {},
                moment |-> Moment]
  /\ UNCHANGED <<config, secret, vault, issued, bundles>>

(* A secret that is gone fails the export.                                 *)
Named_Now(r) == secret[r]   \* mutant: the row is read again
Named(r) == export.secret[r]

ReadSecret(r) ==
  /\ export.on /\ r \in export.rows \ export.read
  /\ export' = IF Named(r) \in vault
                 THEN [export EXCEPT !.read = @ \cup {r}, !.secret[r] = Named(r)]
                 ELSE NoExport
  /\ UNCHANGED <<config, secret, vault, issued, bundles>>

(* validateRecoveryData: no reference leaves the manifest and every secret *)
(* the manifest expects has been read.                                     *)
Valid(x) == Closed(x.rows) /\ x.rows \cap Secretful \subseteq x.read

Seal ==
  /\ export.on /\ export.rows \cap Secretful \subseteq export.read
  /\ bundles' = IF Valid(export)
        THEN bundles \cup {[rows |-> export.rows, secret |-> export.secret, moment |-> export.moment]}
        ELSE bundles
  /\ export' = NoExport
  /\ UNCHANGED <<config, secret, vault, issued>>

-----------------------------------------------------------------------------
Next ==
  \/ \E r \in Resources : Write(r) \/ Remove(r)
  \/ \E s \in 1..MaxSecrets : Forget(s)
  \/ Snapshot \/ Seal
  \/ \E r \in Secretful : ReadSecret(r)

Spec == Init /\ [][Next]_vars

-----------------------------------------------------------------------------
(* A bundle is one moment of the service: its rows and its secrets were    *)
(* the configuration together, and nothing in it refers to what is not in  *)
(* it, whatever was written, rotated or deleted while the secrets were     *)
(* read.                                                                   *)
BundleIsOneMoment ==
  \A b \in bundles :
    /\ [rows |-> b.rows, secret |-> b.secret] = b.moment
    /\ Closed(b.rows) /\ \A r \in b.rows \cap Secretful : b.secret[r] # 0
=============================================================================
