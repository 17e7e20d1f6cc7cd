------------------------------ MODULE MCRecovery ------------------------------
(***************************************************************************)
(* The components of Recovery on small instances, in one run: the initial  *)
(* state picks a part, and only its steps follow.                          *)
(***************************************************************************)
EXTENDS Recovery, FiniteSets, TLC

VARIABLE part    \* the part that is checked

(* Rotation after rotation, and any two actors at once, are parts of their *)
(* own: a bound keeps actors from starting, and from nothing else.         *)
AloneStarts == Cardinality(Secrets!AtWork(Secrets!Actors)') <= 1
PairsStart  == at["rotate"] = "idle" /\ at'["rotate"] # "idle" => drawn < 2

MCInit ==
  /\ part \in {"alone", "pairs", "verification", "export", "import", "vault"}
  /\ Init /\ Secrets!Init /\ Export!Init /\ Import!Init /\ Vault!Init
  /\ part # "import" => bundles[2].rows = {}

MCNext ==
  /\ part' = part
  /\ \/ /\ part = "alone" /\ Secrets!Next /\ AloneStarts
        /\ UNCHANGED <<vars, exportVars, importVars, vaultVars>>
     \/ /\ part = "pairs" /\ Secrets!Next /\ PairsStart
        /\ UNCHANGED <<vars, exportVars, importVars, vaultVars>>
     \/ /\ part = "verification" /\ Next
        /\ UNCHANGED <<secretVars, exportVars, importVars, vaultVars>>
     \/ part = "export" /\ Export!Next /\ UNCHANGED <<vars, secretVars, importVars, vaultVars>>
     \/ part = "import" /\ Import!Next /\ UNCHANGED <<vars, secretVars, exportVars, vaultVars>>
     \/ part = "vault" /\ Vault!Next /\ UNCHANGED <<vars, secretVars, exportVars, importVars>>

(* No fair action of the secrets can occur in another part.                *)
MCSpec == /\ MCInit /\ [][MCNext]_<<part, vars, secretVars, exportVars, importVars, vaultVars>>
          /\ Secrets!Fairness
=============================================================================
