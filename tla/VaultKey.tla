------------------------------ MODULE VaultKey ------------------------------
(***************************************************************************)
(* The key of the vault of secrets: its file (vault.KeyFile), plain or     *)
(* wrapped by a passphrase, the gate that holds it in memory, and          *)
(* VaultController, which replaces the one and shows how it is protected.  *)
(* Handlers run concurrently; only unlocking is serialised.                *)
(*                                                                         *)
(* A key is its number, and a file names its key and what wraps it.  The   *)
(* process may stop anywhere, and a loss of power takes back a creation or *)
(* a rename whose directory has not been synced.                           *)
(***************************************************************************)
EXTENDS Naturals, FiniteSets

CONSTANTS
  Handlers,
  Passphrases,
  MaxKeys,       \* bound on keys that are generated, for TLC
  MaxTroubles    \* bound on stops and on failing steps, for TLC

VARIABLES
  file,      \* vault.key: its key and what wraps it, None, or cut off at its creation
  durable,   \* contents a loss of power may leave there
  keys,      \* keys generated so far
  service,   \* "down" or "up"
  gate,      \* Manager.key, or Locked
  mode,      \* VaultController.mode
  sealed,    \* keys that seal secrets of the store
  kept,      \* keys whose file a synced directory has named
  lost,      \* keys that a loss of power has taken away
  pc, wrap,  \* where each handler is, and its protection or what it read
  limited,   \* retryAfter is still to come
  alone,     \* handlers no other has overlapped with
  expected,  \* protections the administrator may expect
  troubles

vars == <<file, durable, keys, service, gate, mode, sealed, kept, lost, pc, wrap, limited,
          alone, expected, troubles>>

disk  == <<file, durable, keys, kept, lost>>
shown == <<mode, expected>>

Plain == "plain"
Protections == Passphrases \cup {Plain}
Locked == 0
Content(k, w) == [key |-> k, wrap |-> w]
None == Content(0, "none")
Cut  == Content(0, "cut")
Whole == file.key # 0
ModeOf(w) == IF w = Plain THEN "automatic" ELSE "lock-on-restart"

Init ==
  /\ file = None /\ durable = {None} /\ keys = 0 /\ kept = {} /\ lost = {}
  /\ service = "down" /\ gate = Locked /\ mode = "automatic" /\ sealed = {}
  /\ pc = [h \in Handlers |-> "idle"] /\ wrap = [h \in Handlers |-> Plain]
  /\ limited = FALSE /\ alone = {} /\ expected = {Plain} /\ troubles = 0

Go(h, s) == pc' = [pc EXCEPT ![h] = s]

(* A handler that ends forgets what it worked on.                          *)
Leave(h) ==
  /\ Go(h, "idle") /\ wrap' = [wrap EXCEPT ![h] = Plain] /\ alone' = alone \ {h}

Trouble  == troubles < MaxTroubles /\ troubles' = troubles + 1

-----------------------------------------------------------------------------
(* The start of the service, main.go.  A file cut off is refused.          *)

MustCreate == file = None

NewKey == Content(keys + 1, Plain)

(* LoadOrCreateKey syncs the file, and nothing syncs the directory that    *)
(* names it until the first change of protection.                          *)
CreateKey ==
  /\ service = "down" /\ MustCreate /\ keys < MaxKeys
  /\ keys' = keys + 1 /\ file' = NewKey /\ durable' = {None, NewKey}
  /\ UNCHANGED <<service, gate, shown, sealed, kept, lost, pc, wrap, limited, alone, troubles>>

(* Cut off before its content, or only before its sync.                    *)
CreationStops ==
  /\ service = "down" /\ MustCreate /\ keys < MaxKeys /\ Trouble
  /\ keys' = keys + 1 /\ file' \in {Cut, NewKey} /\ durable' = {None, Cut, file'}
  /\ UNCHANGED <<service, gate, shown, sealed, kept, lost, pc, wrap, limited, alone>>

Start ==
  /\ service = "down" /\ Whole
  /\ service' = "up" /\ mode' = ModeOf(file.wrap)
  /\ gate' = IF file.wrap = Plain THEN file.key ELSE Locked
  /\ UNCHANGED <<disk, sealed, pc, wrap, limited, alone, expected, troubles>>

-----------------------------------------------------------------------------
(* Handlers.  One that begins while others work is not alone, nor are they.*)

Busy == {h \in Handlers : pc[h] # "idle"}
Join(h) == alone' = IF Busy = {} THEN {h} ELSE {}

(* LockOnRestart with a passphrase, or Automatic.                          *)
BeginChange(h, w) ==
  /\ service = "up" /\ pc[h] = "idle" /\ gate # Locked
  /\ Go(h, "writing") /\ wrap' = [wrap EXCEPT ![h] = w] /\ Join(h)
  /\ expected' = expected \cup {w}
  /\ UNCHANGED <<disk, service, gate, mode, sealed, limited, troubles>>

(* KeyFile.write: a synced temporary file takes the place of the old one.  *)
Rename(h) ==
  /\ pc[h] = "writing"
  /\ Go(h, "renamed")
  /\ file' = Content(gate, wrap[h]) /\ durable' = durable \cup {file'}
  /\ UNCHANGED <<keys, kept, lost, service, gate, shown, sealed, wrap, limited, alone, troubles>>

Synced_Never == durable  \* mutant: the directory is not synced
Synced == {file}

SyncDirectory(h) ==
  /\ pc[h] = "renamed"
  /\ Go(h, "changed") /\ durable' = Synced /\ kept' = kept \cup {file.key}
  /\ UNCHANGED <<file, keys, lost, service, gate, shown, sealed, wrap, limited, alone, troubles>>

(* The handler reports an error, after the rename too.                     *)
ChangeFails(h) ==
  /\ pc[h] \in {"writing", "renamed"} /\ Trouble
  /\ Leave(h)
  /\ UNCHANGED <<disk, service, gate, shown, sealed, limited>>

Show(h) ==
  /\ mode' = ModeOf(wrap[h])
  /\ Leave(h)

EndChange(h) ==
  /\ pc[h] = "changed" /\ Show(h)
  /\ expected' = IF h \in alone THEN {wrap[h]} ELSE expected
  /\ UNCHANGED <<disk, service, gate, sealed, limited, troubles>>

-----------------------------------------------------------------------------
(* VaultController.Unlock: one at a time, and not before retryAfter.       *)

Unlocking == \E h \in Handlers : pc[h] \in {"loaded", "opened"}

Opens(w) == file.wrap \in {Plain, w}

Load(h, w) ==
  /\ service = "up" /\ pc[h] = "idle" /\ ~Unlocking /\ ~limited /\ Opens(w)
  /\ Go(h, "loaded") /\ wrap' = [wrap EXCEPT ![h] = file.wrap] /\ Join(h)
  /\ UNCHANGED <<disk, service, gate, shown, sealed, limited, troubles>>

WrongPassphrase(w) ==
  /\ service = "up" /\ ~Unlocking /\ ~limited /\ ~Opens(w)
  /\ limited' = TRUE
  /\ UNCHANGED <<disk, service, gate, shown, sealed, pc, wrap, alone, troubles>>

RetryAfter ==
  /\ limited /\ limited' = FALSE
  /\ UNCHANGED <<disk, service, gate, shown, sealed, pc, wrap, alone, troubles>>

(* Every content of the file so far holds the same key.                    *)
OpenGate(h) ==
  /\ pc[h] = "loaded" /\ Go(h, "opened") /\ gate' = file.key
  /\ UNCHANGED <<disk, service, shown, sealed, wrap, limited, alone, troubles>>

(* The mode is what the file was when it was read.                         *)
EndUnlock(h) ==
  /\ pc[h] = "opened" /\ Show(h)
  /\ UNCHANGED <<disk, service, gate, expected, sealed, limited, troubles>>

-----------------------------------------------------------------------------
(* Manager.Put seals with the key of the gate.                             *)
Put ==
  /\ service = "up" /\ gate # Locked /\ gate \notin sealed
  /\ sealed' = sealed \cup {gate}
  /\ UNCHANGED <<disk, service, gate, shown, pc, wrap, limited, alone, troubles>>

(* The process stops: its memory goes, and its requests with it.           *)
Down ==
  /\ service' = "down" /\ gate' = Locked /\ limited' = FALSE
  /\ mode' = "automatic" /\ alone' = {}
  /\ pc' = [h \in Handlers |-> "idle"] /\ wrap' = [h \in Handlers |-> Plain]
  /\ UNCHANGED <<keys, kept, expected, sealed>>

Stop ==
  /\ service = "up" /\ Trouble
  /\ Down
  /\ UNCHANGED <<file, durable, lost>>

(* The power is lost, also while the service is down.                      *)
LosePower ==
  /\ Trouble
  /\ Down
  /\ file' \in durable /\ durable' = {file'}
  /\ lost' = IF file'.key = file.key THEN lost ELSE lost \cup {file.key}

Next ==
  \/ CreateKey \/ CreationStops \/ Start \/ RetryAfter \/ Put \/ Stop \/ LosePower
  \/ \E w \in Passphrases : WrongPassphrase(w)
  \/ \E h \in Handlers :
       \/ \E w \in Protections : BeginChange(h, w)
       \/ Rename(h) \/ SyncDirectory(h) \/ ChangeFails(h) \/ EndChange(h)
       \/ \E w \in Passphrases : Load(h, w)
       \/ OpenGate(h) \/ EndUnlock(h)

Spec == Init /\ [][Next]_vars

-----------------------------------------------------------------------------
TypeOK ==
  /\ file \in {None, Cut} \cup [key : Nat, wrap : Protections]
  /\ keys \in Nat /\ sealed \subseteq Nat /\ kept \subseteq Nat /\ lost \subseteq Nat
  /\ service \in {"down", "up"} /\ mode \in {"automatic", "lock-on-restart"}
  /\ gate \in Nat
  /\ pc \in [Handlers -> {"idle", "writing", "renamed", "changed", "loaded", "opened"}]
  /\ wrap \in [Handlers -> Protections] /\ alone \subseteq Handlers
  /\ expected \subseteq Protections

(* keyfile.go:137, controller.go:42: whatever stops, fails or overlaps, a  *)
(* key that seals secrets is the one in the file, unless a loss of power   *)
(* has taken it; and from the first synced directory on, that is from the  *)
(* first change of protection that got so far, no loss of power can.  And  *)
(* once a change that nothing overlapped with is reported as done, the     *)
(* file stays protected so and no other way is shown, also after a loss of *)
(* power, until another change begins.                                     *)
VaultHolds ==
  /\ sealed \subseteq {file.key} \cup lost
  /\ lost \cap kept = {}
  /\ gate # Locked => gate = file.key
  /\ Whole => file.wrap \in expected
  /\ service = "up" => \E w \in expected : mode = ModeOf(w)
=============================================================================
