------------------------- MODULE ControlPlaneImport -------------------------
(***************************************************************************)
(* controlplane.Service.PreflightImport and Import.  An import puts the    *)
(* secrets of a bundle into the vault one by one, makes the files of the   *)
(* Agent CA, and then inserts every row in one transaction, which consumes *)
(* the preview; when a step fails it undoes what it has put and made.      *)
(* Meanwhile resources are made by hand, the Agent service is started, and *)
(* the service stops and starts.                                           *)
(*                                                                         *)
(* A bundle is one that an export has sealed: a set of resources that      *)
(* nothing refers out of, and the CA when there is an Agent.  A resource   *)
(* stands for every resource of its sort.                                  *)
(***************************************************************************)
EXTENDS Naturals, FiniteSets, Sequences

CONSTANTS
  MaxImports    \* bound on imports started, for TLC

VARIABLES
  bundles,    \* two bundles: one has every resource
  preview,    \* controlplane_import_previews, by bundle
  rows,       \* the import that made each row, 0 for none
  stored,     \* secrets of imports in the vault, <<import, resource>>
  key, cert,  \* who wrote ca.key and ca.crt
  agents,     \* where the start of the Agent service is
  import,     \* the import under way
  imports,    \* the bundle of each import started
  left        \* secrets that a stop or a failed deletion has left behind

vars == <<bundles, preview, rows, stored, key, cert, agents, import, imports, left>>

-----------------------------------------------------------------------------
Resources == {"host", "repository", "agent"}
Secretful == {"host", "repository"}

Needs == [r \in Resources |->
  CASE r = "host" -> {} [] r \in {"repository", "agent"} -> {"host"}]

Closed(R) == \A r \in R : Needs[r] \subseteq R

NoOne  == "none"
Bundle == "bundle"
Own    == "own"
Broken == "broken"

Idle   == [at |-> "none", n |-> 0, confirmed |-> 0, mine |-> {}]
OwnRow == MaxImports + 1
By(n)  == {r \in Resources : rows[r] = n}

Init ==
  /\ bundles \in [1..2 -> {[rows |-> R, ca |-> "agent" \in R] :
                            R \in {S \in SUBSET Resources : Closed(S)}}]
  /\ bundles[1].rows = Resources
  /\ preview = [b \in 1..2 |-> "none"]
  /\ rows = [r \in Resources |-> 0]
  /\ stored = {} /\ key = NoOne /\ cert = NoOne /\ agents = "stopped"
  /\ import = Idle /\ imports = << >> /\ left = {}

Begun == Len(imports)

-----------------------------------------------------------------------------
(* importConflicts: nothing of the bundle may exist at the target, and no  *)
(* file of a CA when the bundle brings one.                                *)

NoFiles     == key = NoOne /\ cert = NoOne
Fits(R)     == \A r \in R : rows[r] = 0
NoConflict(b) == Fits(bundles[b].rows) /\ (bundles[b].ca => NoFiles)

PreflightImport(b) ==
  /\ preview[b] # "fresh" /\ NoConflict(b)
  /\ preview' = [preview EXCEPT ![b] = "fresh"]
  /\ UNCHANGED <<bundles, rows, stored, key, cert, agents, import, imports, left>>

Expire(b) ==
  /\ preview[b] = "fresh" /\ preview' = [preview EXCEPT ![b] = "none"]
  /\ UNCHANGED <<bundles, rows, stored, key, cert, agents, import, imports, left>>

-----------------------------------------------------------------------------
(* Service.Import of bundle b with the preview of bundle c.  The operation *)
(* manager runs one import at a time.                                      *)

This == bundles[imports[import.n]]
Step(at) == import' = [import EXCEPT !.at = at]

BeginImport(b, c) ==
  /\ import = Idle /\ Begun < MaxImports /\ NoConflict(b)
  /\ imports' = Append(imports, b)
  /\ import' = [at |-> "put", n |-> Begun + 1, confirmed |-> c, mine |-> {}]
  /\ UNCHANGED <<bundles, preview, rows, stored, key, cert, agents, left>>

Put(r) ==
  /\ import.at = "put"
  /\ r \in This.rows \cap Secretful /\ <<import.n, r>> \notin import.mine
  /\ stored' = stored \cup {<<import.n, r>>}
  /\ import' = [import EXCEPT !.mine = @ \cup {<<import.n, r>>}]
  /\ UNCHANGED <<bundles, preview, rows, key, cert, agents, imports, left>>

AllPut == Cardinality(import.mine) = Cardinality(This.rows \cap Secretful)

PutFails ==
  /\ import.at = "put" /\ ~AllPut /\ Step("undo")
  /\ UNCHANGED <<bundles, preview, rows, stored, key, cert, agents, imports, left>>

SkipCA ==
  /\ import.at = "put" /\ AllPut /\ ~This.ca /\ Step("commit")
  /\ UNCHANGED <<bundles, preview, rows, stored, key, cert, agents, imports, left>>

(* InstallAgentCA looks for files again and makes each with O_EXCL; what a *)
(* failing write has begun stays as it is.                                 *)
InstallKey ==
  /\ import.at = "put" /\ AllPut /\ This.ca
  /\ \/ NoFiles /\ key' = Bundle /\ Step("cert")
     \/ ~NoFiles /\ key' = key /\ Step("undo")
     \/ NoFiles /\ key' \in {NoOne, Broken} /\ Step("undo")
  /\ UNCHANGED <<bundles, preview, rows, stored, cert, agents, imports, left>>

InstallCert ==
  /\ import.at = "cert"
  /\ \/ cert = NoOne /\ cert' = Bundle /\ key' = key /\ Step("commit")
     \/ cert # NoOne /\ cert' = cert /\ key' = NoOne /\ Step("undo")
     \/ cert = NoOne /\ cert' \in {NoOne, Broken} /\ key' = NoOne /\ Step("undo")
  /\ UNCHANGED <<bundles, preview, rows, stored, agents, imports, left>>

(* The transaction of Store.ImportControlPlane.                            *)
Consumable_OtherBundle ==   \* mutant: the hash of the bundle is not compared
  preview[import.confirmed] = "fresh"
Consumable == preview[import.confirmed] = "fresh" /\ imports[import.n] = import.confirmed

HasSecrets == import.mine \subseteq stored
Inserted   == [r \in Resources |-> IF r \in This.rows THEN import.n ELSE rows[r]]

Commit ==
  /\ import.at = "commit" /\ Consumable /\ HasSecrets /\ Fits(This.rows)
  /\ preview' = [preview EXCEPT ![import.confirmed] = "used"]
  /\ rows' = Inserted
  /\ import' = Idle
  /\ UNCHANGED <<bundles, stored, key, cert, agents, imports, left>>

CommitFails ==
  /\ import.at = "commit" /\ Step(IF This.ca THEN "undo_ca" ELSE "undo")
  /\ UNCHANGED <<bundles, preview, rows, stored, key, cert, agents, imports, left>>

(* Each of the two removals may fail.                                      *)
UndoCA ==
  /\ import.at = "undo_ca" /\ Step("undo")
  /\ cert' \in {cert, NoOne} /\ key' \in {key, NoOne}
  /\ UNCHANGED <<bundles, preview, rows, stored, agents, imports, left>>

(* The secrets of kept could not be deleted.                               *)
Undone(kept) == stored \ (import.mine \ kept)

Undo(kept) ==
  /\ import.at = "undo" /\ kept \subseteq import.mine
  /\ stored' = Undone(kept) /\ left' = left \cup kept /\ import' = Idle
  /\ UNCHANGED <<bundles, preview, rows, key, cert, agents, imports>>

-----------------------------------------------------------------------------
(* What else happens at the target.                                        *)

(* A resource made here has the name or the place of an imported one.      *)
CreateHere(r) ==
  /\ rows[r] = 0 /\ r \in {"host", "repository"}
  /\ rows' = [rows EXCEPT ![r] = OwnRow]
  /\ UNCHANGED <<bundles, preview, stored, key, cert, agents, import, imports, left>>

(* LoadOrCreateAuthority: both files are loaded, none are made one by one, *)
(* the key with O_EXCL and the certificate over what is there.             *)
StartAgents ==
  /\ agents = "stopped"
  /\ \/ key # NoOne /\ cert # NoOne /\ Broken \notin {key, cert} /\ agents' = "running"
     \/ key = NoOne /\ cert = NoOne /\ agents' = "making"
  /\ UNCHANGED <<bundles, preview, rows, stored, key, cert, import, imports, left>>

MakeKey ==
  /\ agents = "making"
  /\ \/ key = NoOne /\ key' = Own /\ agents' = "keyed"
     \/ key # NoOne /\ key' = key /\ agents' = "stopped"
  /\ UNCHANGED <<bundles, preview, rows, stored, cert, import, imports, left>>

MakeCert ==
  /\ agents = "keyed" /\ cert' = Own /\ agents' = "running"
  /\ UNCHANGED <<bundles, preview, rows, stored, key, import, imports, left>>

(* The target stops and starts: the import is not taken up again.          *)
Crash ==
  /\ import # Idle \/ agents # "stopped"
  /\ left' = left \cup import.mine /\ import' = Idle /\ agents' = "stopped"
  /\ UNCHANGED <<bundles, preview, rows, stored, key, cert, imports>>

-----------------------------------------------------------------------------
Next ==
  \/ \E r \in Resources : CreateHere(r)
  \/ \E r \in Secretful : Put(r)
  \/ \E b \in 1..2 : PreflightImport(b) \/ Expire(b)
  \/ \E b, c \in 1..2 : BeginImport(b, c)
  \/ PutFails \/ SkipCA \/ InstallKey \/ InstallCert
  \/ Commit \/ CommitFails \/ UndoCA
  \/ \E kept \in SUBSET import.mine : Undo(kept)
  \/ StartAgents \/ MakeKey \/ MakeCert \/ Crash

Spec == Init /\ [][Next]_vars

-----------------------------------------------------------------------------
(* An import is all there or leaves nothing: the rows of an import are     *)
(* those of the bundle the administrator has previewed, with everything    *)
(* they refer to; each has its secret; between imports the vault holds no  *)
(* other secret of an import than those a stop or a failed deletion has    *)
(* left; and imported Agents find the CA that signed their certificates,   *)
(* whenever the Agent service of the target was started.                   *)
RowsAreTheBundle ==
  \A n \in DOMAIN imports : By(n) # {} =>
    /\ By(n) = bundles[imports[n]].rows /\ Closed(By(n))
    /\ preview[imports[n]] = "used"
    /\ {<<n, r>> : r \in By(n) \cap Secretful} \subseteq stored
    /\ "agent" \in By(n) => (key = Bundle /\ cert = Bundle)

NothingIsLeft ==
  import = Idle => stored \subseteq
    left \cup {<<rows[r], r>> : r \in Secretful}

ImportIsWhole == RowsAreTheBundle /\ NothingIsLeft
=============================================================================
