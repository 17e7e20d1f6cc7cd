------------------------------ MODULE MCServices ------------------------------
(***************************************************************************)
(* The components of Services on small instances, in one run: the initial  *)
(* state picks a part, and only its steps follow.                          *)
(***************************************************************************)
EXTENDS Services, TLC

CONSTANTS o1, o2, o3, key

VARIABLE part    \* the part that is checked

(* Two calls with the same key and one without, which is not made in the   *)
(* part where the process restarts.                                        *)
MCKeyOf == (o1 :> key) @@ (o2 :> key) @@ (o3 :> NoKey)

-----------------------------------------------------------------------------
(* A part with many initial states rests in one when it is not checked.    *)
Off == "off"

InstallOff ==
  /\ program = Off /\ sum = Off /\ companions = Off /\ definition = Off /\ legacy = Off
  /\ process = Off /\ step = Off /\ good = Off /\ current = Off /\ parked = FALSE
  /\ before = Off

MigrationOff ==
  /\ unit = Off /\ was = Off /\ source = "whole" /\ written = 0 /\ staging = Off
  /\ copied = Off /\ root = Off /\ marker = Off /\ at = Off /\ stage = Off
  /\ restarted = FALSE /\ runs = 0

UpgradeOff ==
  /\ opening = Off /\ columns = {} /\ tables = {} /\ linked = FALSE /\ moved = FALSE
  /\ rows = Off /\ intended = Off /\ cut = FALSE

MCInit ==
  /\ part \in {"operations", "restarts", "update", "install", "migration", "upgrade"}
  /\ Init /\ Update!Init
  /\ IF part = "install"   THEN Install!Init   ELSE InstallOff
  /\ IF part = "migration" THEN Migration!Init ELSE MigrationOff
  /\ IF part = "upgrade"   THEN Upgrade!Init   ELSE UpgradeOff

MCNext ==
  /\ part' = part
  /\ \/ /\ Next
        /\ \/ part = "operations" /\ restarts' = restarts
           \/ part = "restarts" /\ pc'[o3] = "idle"
        /\ UNCHANGED <<updateVars, installVars, migrationVars, upgradeVars, troubles>>
     \/ /\ part = "update" /\ Update!Next
        /\ UNCHANGED <<vars, installVars, migrationVars, upgradeVars>>
     \/ /\ part = "install" /\ Install!Next
        /\ UNCHANGED <<vars, updateVars, migrationVars, upgradeVars, troubles>>
     \/ /\ part = "migration" /\ Migration!Next
        /\ UNCHANGED <<vars, updateVars, installVars, upgradeVars>>
     \/ /\ part = "upgrade" /\ Upgrade!Next
        /\ UNCHANGED <<vars, updateVars, installVars, migrationVars, troubles>>

allVars == <<part, vars, updateVars, installVars, migrationVars, upgradeVars, troubles>>

(* The manager's fair actions cannot occur in the other parts.             *)
MCSpec == MCInit /\ [][MCNext]_allVars /\ Fairness

=============================================================================
