--------------------------- MODULE RepositorySecrets ---------------------------
(***************************************************************************)
(* The password of one repository, from the protection draft that stages   *)
(* it to the rotation that replaces it: protectionsetup.Service sets a     *)
(* draft up (CreateDraft, Apply, Cancel), repository.Service initialises   *)
(* the repository, rotates its password and revokes the old one, and the   *)
(* delete handlers remove the task and the repository.                     *)
(*                                                                         *)
(* A secret is the id of a row of the vault and the password in it; a key  *)
(* of the Restic repository is named by the secret whose password opens    *)
(* it.  The draft has one item: items only share the status of the draft.  *)
(* Nothing is transactional across the vault, the store and Restic: every  *)
(* statement and every Restic operation is an action, each may fail, and   *)
(* the process may stop between any two.                                   *)
(***************************************************************************)
EXTENDS Naturals, FiniteSets

CONSTANTS      \* bounds, for TLC
  MaxSecrets,    \* secrets drawn
  MaxTroubles,   \* failing statements and operations, and restarts
  MaxActive      \* actors at work at a time

VARIABLES
  vault,      \* secrets with a row in the store
  drawn,      \* number of secrets that were ever drawn
  repo,       \* row of the repository: "none", "uninitialized" or "ready"
  password,   \* its password_secret_id
  pending,    \* secret (and key) that awaits revocation
  keys,       \* keys of the Restic repository; {}: not initialised
  draft,      \* status of the draft, "none" before, "gone" after its deletion
  item,       \* [status, secret] of the item's row
  task,       \* the item's task exists
  lock,       \* holder of the repository's lock
  at,         \* where each actor is
  hand,       \* secret each actor has in hand
  seen,       \* password each actor loaded under the lock
  copied,     \* status of the item in the copy of apply and cancel
  leftovers,  \* secrets the delete handler has still to delete
  troubles,   \* failures and restarts so far
  raced       \* history: apply, cancel and remove have overlapped

store  == <<repo, password, pending, draft, item, task>>
local  == <<at, hand, seen, copied, leftovers>>
vars   == <<vault, drawn, repo, password, pending, keys, draft, item, task, lock,
            at, hand, seen, copied, leftovers, troubles, raced>>

Nobody == "nobody"
Actors == {"create", "apply", "cancel", "rotate", "revoke", "remove"}

(* Secret ids are random; here they are numbered as they are drawn.        *)
None    == 0
Secrets == 1..MaxSecrets
Maybe   == 0..MaxSecrets

Init ==
  /\ vault = {} /\ drawn = 0 /\ keys = {}
  /\ repo = "none" /\ password = None /\ pending = None
  /\ draft = "none" /\ item = [status |-> "gone", secret |-> None]
  /\ task = FALSE
  /\ lock = Nobody
  /\ at = [a \in Actors |-> "idle"]
  /\ hand = [a \in Actors |-> None]
  /\ seen = [a \in Actors |-> None]
  /\ copied = [a \in Actors |-> "gone"]
  /\ leftovers = {}
  /\ troubles = 0 /\ raced = FALSE

-----------------------------------------------------------------------------
(* Control, faults, and the statements on secrets.                         *)

(* Nothing but the status of the draft keeps these three apart.            *)
Rivals == {"apply", "cancel", "remove"}

AtWork(group) == {a \in group : at[a] # "idle"}

(* Actor a goes on with what it has in hand, loaded and copied.            *)
Move(a, from, to, secret, loaded, status) ==
  /\ at[a] = from
  /\ from = "idle" => Cardinality(AtWork(Actors)) < MaxActive            \* bound
  /\ at' = [at EXCEPT ![a] = to]
  /\ hand' = [hand EXCEPT ![a] = secret]
  /\ seen' = [seen EXCEPT ![a] = loaded]
  /\ copied' = [copied EXCEPT ![a] = status]
  /\ raced' = (raced \/ (a \in Rivals /\ from = "idle" /\ AtWork(Rivals) # {}))
Goto(a, from, to) == Move(a, from, to, hand[a], seen[a], copied[a])
Done(a, from)     == Move(a, from, "idle", None, None, "gone")

(* The step of a fails (Fault) or its own conditions make it fail.         *)
Fault   == troubles < MaxTroubles /\ troubles' = troubles + 1
NoFault == troubles' = troubles
FailsUnless(able) == (~able /\ NoFault) \/ Fault

(* Service.locked: the operation of a starts, and ends with its last step. *)
Lock(a)   == lock = Nobody /\ lock' = a
Unlock(a) == lock = a /\ lock' = Nobody

Referenced_Never(s) == FALSE         \* mutant: DeleteSecret does not look

(* secretReferenced.                                                       *)
Referenced(s) == s \in {password, pending, item.secret}

(* Manager.Put: a new id, a new row.                                       *)
Put(a, from, to) ==
  /\ drawn < MaxSecrets
  /\ drawn' = drawn + 1
  /\ vault' = vault \cup {drawn + 1}
  /\ Move(a, from, to, drawn + 1, seen[a], copied[a])

(* DeleteSecret succeeds for a row that nothing references.                *)
Deletable(s) == s \in vault /\ ~Referenced(s)

(* Manager.Delete whose result the caller drops.                           *)
Discard(s) ==
  \/ vault' = (IF Deletable(s) THEN vault \ {s} ELSE vault) /\ NoFault
  \/ vault' = vault /\ Fault

(* UpdateProtectionDraftItem, and the status statement; rows that are gone *)
(* make both fail.                                                         *)
ItemThere == item.status # "gone"
WriteItem(status, secret) ==
  ItemThere /\ item' = [status |-> status, secret |-> secret]
DraftThere == draft \notin {"none", "gone"}

(* Service.material: the row, and its password from the vault.             *)
Material == repo # "none" /\ password \in vault

-----------------------------------------------------------------------------
(* CreateDraft: the password is staged before the draft is saved.          *)

Stage ==
  /\ draft = "none" /\ Put("create", "idle", "saving") /\ NoFault
  /\ UNCHANGED <<store, keys, lock, leftovers>>

SaveDraft ==
  /\ \/ /\ Done("create", "saving") /\ NoFault
        /\ draft' = "pending"
        /\ item' = [status |-> "pending", secret |-> hand["create"]]
     \/ Goto("create", "saving", "unstaging") /\ Fault /\ UNCHANGED <<draft, item>>
  /\ UNCHANGED <<vault, drawn, repo, password, pending, keys, task, lock, leftovers>>

Unstage ==
  /\ Done("create", "unstaging") /\ Discard(hand["create"])
  /\ UNCHANGED <<drawn, store, keys, lock, leftovers>>

-----------------------------------------------------------------------------
(* Apply, an operation with the draft's key: at most one at a time.        *)

ApplyBegin ==
  /\ draft \in {"pending", "applying", "partial", "ready"}
  /\ Goto("apply", "idle", "reading") /\ NoFault
  /\ UNCHANGED <<vault, drawn, store, keys, lock, leftovers>>

(* The draft and its item are read once; the rest works on the copy.       *)
ApplyRead ==
  /\ \/ /\ draft \in {"pending", "applying", "partial"}
        /\ Move("apply", "reading", "claiming", item.secret, None, item.status)
     \/ /\ draft \in {"gone", "cancelled", "ready"}
        /\ Done("apply", "reading")
  /\ NoFault
  /\ UNCHANGED <<vault, drawn, store, keys, lock, leftovers>>

(* The status is written whatever it has become.                           *)
ApplyClaim ==
  /\ \/ /\ DraftThere /\ NoFault /\ draft' = "applying"
        /\ Goto("apply", "claiming",
                IF copied["apply"] = "ready" THEN "planning" ELSE "inspecting")
     \/ /\ FailsUnless(DraftThere)
        /\ Done("apply", "claiming") /\ UNCHANGED draft
  /\ UNCHANGED <<vault, drawn, repo, password, pending, keys, item, task, lock, leftovers>>

ApplyInspect ==
  /\ \/ /\ NoFault
        /\ Goto("apply", "inspecting",
                CASE repo = "none" -> "creating" [] repo = "ready" -> "tasking"
                  [] OTHER -> "initializing")
     \/ Fault /\ Goto("apply", "inspecting", "failing")
  /\ UNCHANGED <<vault, drawn, store, keys, lock, leftovers>>

(* CreateRepository: a secret that is given must be in the vault.          *)
CreateRepository ==
  LET s == hand["apply"] IN
  /\ \/ /\ s \in vault \cup {None} /\ repo = "none" /\ NoFault
        /\ repo' = "uninitialized" /\ password' = s
        /\ Goto("apply", "creating", "initializing")
     \/ /\ FailsUnless(s \in vault \cup {None})
        /\ Goto("apply", "creating", "failing")
        /\ UNCHANGED <<repo, password>>
  /\ UNCHANGED <<vault, drawn, pending, keys, draft, item, task, lock, leftovers>>

(* Initialize.                                                             *)
InitializeLock ==
  /\ Goto("apply", "initializing", "loading") /\ Lock("apply") /\ NoFault
  /\ UNCHANGED <<vault, drawn, store, keys, leftovers>>

InitializeLoad ==
  /\ \/ /\ Material /\ repo = "uninitialized" /\ NoFault
        /\ Move("apply", "loading", "formatting", hand["apply"], password, "gone")
        /\ UNCHANGED lock
     \/ /\ FailsUnless(Material /\ repo = "uninitialized")
        /\ Goto("apply", "loading", "failing") /\ Unlock("apply")
  /\ UNCHANGED <<vault, drawn, store, keys, leftovers>>

(* restic init fails on a repository that exists; it may also be done when *)
(* the connection that would say so is lost.                               *)
InitializeRun ==
  /\ Unlock("apply")
  /\ \/ /\ keys = {} /\ NoFault /\ keys' = {seen["apply"]}
        /\ Goto("apply", "formatting", "recording")
     \/ /\ keys = {} /\ Fault /\ keys' \in {{}, {seen["apply"]}}
        /\ Goto("apply", "formatting", "failing")
     \/ /\ keys # {} /\ NoFault /\ UNCHANGED keys
        /\ Goto("apply", "formatting", "failing")
  /\ UNCHANGED <<vault, drawn, store, leftovers>>

(* The status is written after the lock is given back.                     *)
InitializeRecord ==
  /\ \/ /\ NoFault /\ Goto("apply", "recording", "tasking")
        /\ repo' = IF repo = "none" THEN "none" ELSE "ready"
     \/ Fault /\ Goto("apply", "recording", "failing") /\ UNCHANGED repo
  /\ UNCHANGED <<vault, drawn, password, pending, keys, draft, item, task, lock, leftovers>>

(* CreateTask and SaveMaintenancePolicy refer to the repository's row.     *)
ApplyTask ==
  /\ \/ /\ repo # "none" /\ NoFault /\ task' = TRUE
        /\ Goto("apply", "tasking", "saving")
     \/ /\ repo = "none" /\ ~task /\ NoFault /\ task' = task
        /\ Goto("apply", "tasking", "failing")
     \/ /\ Fault /\ task' \in (IF repo = "none" THEN {task} ELSE {task, TRUE})
        /\ Goto("apply", "tasking", "failing")
  /\ UNCHANGED <<vault, drawn, repo, password, pending, keys, draft, item, lock, leftovers>>

(* The item is written from the copy, its secret too; the error of writing *)
(* a failed item is dropped.                                               *)
ApplySave ==
  /\ \/ /\ NoFault /\ WriteItem("ready", hand["apply"])
        /\ Goto("apply", "saving", "planning")
     \/ /\ FailsUnless(ItemThere)
        /\ Goto("apply", "saving", "closing_partial") /\ UNCHANGED item
     \/ /\ NoFault /\ WriteItem("failed", hand["apply"])
        /\ Goto("apply", "failing", "closing_partial")
     \/ /\ FailsUnless(ItemThere)
        /\ Goto("apply", "failing", "closing_partial") /\ UNCHANGED item
  /\ UNCHANGED <<vault, drawn, repo, password, pending, keys, draft, task, lock, leftovers>>

(* upsertPlan refers to the task.                                          *)
ApplyPlan ==
  /\ \/ task /\ NoFault /\ Goto("apply", "planning", "closing_ready")
     \/ FailsUnless(task) /\ Goto("apply", "planning", "closing_partial")
  /\ UNCHANGED <<vault, drawn, store, keys, lock, leftovers>>

ApplyClose ==
  /\ \/ /\ NoFault /\ Done("apply", "closing_ready")
        /\ draft' = IF DraftThere THEN "ready" ELSE draft
     \/ /\ NoFault /\ Done("apply", "closing_partial")
        /\ draft' = IF DraftThere THEN "partial" ELSE draft
     \/ /\ Fault /\ UNCHANGED draft
        /\ \/ Done("apply", "closing_ready")
           \/ Done("apply", "closing_partial")
  /\ UNCHANGED <<vault, drawn, repo, password, pending, keys, item, task, lock, leftovers>>

-----------------------------------------------------------------------------
(* Cancel, in the handler: nothing keeps it from Apply but the status.     *)

CancelRead ==
  /\ draft \in {"pending", "partial", "cancelled"}
  /\ Move("cancel", "idle", "inspecting", item.secret, None, item.status) /\ NoFault
  /\ UNCHANGED <<vault, drawn, store, keys, lock, leftovers>>

CancelInspect ==
  /\ Goto("cancel", "inspecting", IF repo = "none" THEN "clearing" ELSE "retaining")
  /\ NoFault
  /\ UNCHANGED <<vault, drawn, store, keys, lock, leftovers>>

CancelItem ==
  /\ \/ /\ NoFault /\ WriteItem("retained", hand["cancel"])
        /\ Goto("cancel", "retaining", "closing")
     \/ /\ NoFault /\ WriteItem("cancelled", None)
        /\ Goto("cancel", "clearing",
                IF hand["cancel"] = None THEN "closing" ELSE "deleting")
     \/ /\ FailsUnless(ItemThere)
        /\ UNCHANGED item
        /\ \/ Done("cancel", "retaining")
           \/ Done("cancel", "clearing")
  /\ UNCHANGED <<vault, drawn, repo, password, pending, keys, draft, task, lock, leftovers>>

CancelDelete ==
  LET s == hand["cancel"] IN
  /\ \/ /\ Deletable(s) /\ NoFault /\ vault' = vault \ {s}
        /\ Goto("cancel", "deleting", "closing")
     \/ /\ FailsUnless(Deletable(s))
        /\ Goto("cancel", "deleting", "restoring") /\ UNCHANGED vault
  /\ UNCHANGED <<drawn, store, keys, lock, leftovers>>

(* A secret that could not be deleted goes back into the item.             *)
CancelRestore ==
  /\ Done("cancel", "restoring")
  /\ \/ NoFault /\ WriteItem(copied["cancel"], hand["cancel"])
     \/ FailsUnless(ItemThere) /\ UNCHANGED item
  /\ UNCHANGED <<vault, drawn, repo, password, pending, keys, draft, task, lock, leftovers>>

CancelClose ==
  /\ Done("cancel", "closing")
  /\ \/ NoFault /\ draft' = IF DraftThere THEN "cancelled" ELSE draft
     \/ Fault /\ UNCHANGED draft
  /\ UNCHANGED <<vault, drawn, repo, password, pending, keys, item, task, lock, leftovers>>

-----------------------------------------------------------------------------
(* RotatePassword, an operation with the repository's key, under the lock. *)

RotateBegin ==
  /\ repo # "none" /\ pending = None
  /\ drawn < MaxSecrets                   \* bound
  /\ Goto("rotate", "idle", "waiting") /\ NoFault
  /\ UNCHANGED <<vault, drawn, store, keys, lock, leftovers>>

RotateLock ==
  /\ Goto("rotate", "waiting", "loading") /\ Lock("rotate") /\ NoFault
  /\ UNCHANGED <<vault, drawn, store, keys, leftovers>>

(* The material, no pending revocation, and the key it opens.              *)
RotateLoad ==
  LET able == Material /\ pending = None /\ password \in keys IN
  /\ \/ /\ able /\ NoFault
        /\ Move("rotate", "loading", "storing", None, password, "gone")
        /\ UNCHANGED lock
     \/ /\ FailsUnless(able)
        /\ Done("rotate", "loading") /\ Unlock("rotate")
  /\ UNCHANGED <<vault, drawn, store, keys, leftovers>>

RotateStore ==
  /\ \/ Put("rotate", "storing", "adding") /\ NoFault /\ UNCHANGED lock
     \/ /\ Done("rotate", "storing") /\ Fault /\ Unlock("rotate")
        /\ UNCHANGED <<vault, drawn>>
  /\ UNCHANGED <<store, keys, leftovers>>

(* AddKey may be done although it is reported as failed; then the new      *)
(* password must list the snapshots.                                       *)
RotateAdd ==
  LET added == keys \cup {hand["rotate"]} IN
  /\ \/ NoFault /\ keys' = added /\ Goto("rotate", "adding", "verifying")
     \/ Fault /\ keys' \in {keys, added} /\ Goto("rotate", "adding", "discarding")
     \/ NoFault /\ UNCHANGED keys /\ Goto("rotate", "verifying", "committing")
     \/ Fault /\ UNCHANGED keys /\ Goto("rotate", "verifying", "discarding")
  /\ UNCHANGED <<vault, drawn, store, lock, leftovers>>

(* CommitRepositoryPasswordRotation, one transaction.                      *)
RotateCommit ==
  LET new == hand["rotate"]
      old == seen["rotate"]
      able == repo # "none" /\ password = old /\ new \in vault /\ pending = None
  IN
  /\ \/ /\ able /\ NoFault
        /\ pending' = old /\ password' = new
        /\ item' = IF item.secret = old THEN [item EXCEPT !.secret = new] ELSE item
        /\ Done("rotate", "committing") /\ Unlock("rotate")
     \/ /\ FailsUnless(able)
        /\ Goto("rotate", "committing", "discarding")
        /\ UNCHANGED <<pending, password, item, lock>>
  /\ UNCHANGED <<vault, drawn, repo, keys, draft, task, leftovers>>

(* The deferred Delete of a rotation that did not commit.                  *)
RotateDiscard ==
  /\ Done("rotate", "discarding") /\ Unlock("rotate") /\ Discard(hand["rotate"])
  /\ UNCHANGED <<drawn, store, keys, leftovers>>

-----------------------------------------------------------------------------
(* RevokeOldPassword, in the handler, under the lock.                      *)

RevokeLock ==
  /\ Goto("revoke", "idle", "loading") /\ Lock("revoke") /\ NoFault
  /\ pending # None                       \* else a call without effect
  /\ UNCHANGED <<vault, drawn, store, keys, leftovers>>

RevokeLoad ==
  LET able == pending # None /\ Material /\ password \in keys IN
  /\ \/ /\ able /\ NoFault
        /\ Move("revoke", "loading", "removing", pending, None, "gone")
        /\ UNCHANGED lock
     \/ /\ FailsUnless(able)
        /\ Done("revoke", "loading") /\ Unlock("revoke")
  /\ UNCHANGED <<vault, drawn, store, keys, leftovers>>

RevokeRemove_OnlyListed ==       \* mutant: a key that is gone is an error
  LET key == hand["revoke"] IN
  /\ \/ /\ key \in keys /\ NoFault /\ keys' = keys \ {key}
        /\ Goto("revoke", "removing", "completing") /\ UNCHANGED lock
     \/ /\ FailsUnless(key \in keys)
        /\ keys' \in {keys, keys \ {key}}
        /\ Done("revoke", "removing") /\ Unlock("revoke")
  /\ UNCHANGED <<vault, drawn, store, leftovers>>

(* The key is removed if it is still listed; RemoveKey may be done         *)
(* although it is reported as failed.                                      *)
RevokeRemove ==
  LET key == hand["revoke"] IN
  /\ \/ /\ NoFault /\ keys' = keys \ {key}
        /\ Goto("revoke", "removing", "completing") /\ UNCHANGED lock
     \/ /\ Fault /\ keys' \in {keys, keys \ {key}}
        /\ Done("revoke", "removing") /\ Unlock("revoke")
  /\ UNCHANGED <<vault, drawn, store, leftovers>>

(* CompleteRepositoryKeyRevocation: the transaction deletes the pending    *)
(* row and then the secret, and is rolled back if anything else refers to  *)
(* the secret.                                                             *)
RevokeComplete ==
  LET old == hand["revoke"]
      able == pending = old /\ old \in vault /\ old \notin {password, item.secret}
  IN
  /\ Done("revoke", "completing") /\ Unlock("revoke")
  /\ \/ able /\ NoFault /\ pending' = None /\ vault' = vault \ {old}
     \/ FailsUnless(able) /\ UNCHANGED <<pending, vault>>
  /\ UNCHANGED <<drawn, repo, password, keys, draft, item, task, leftovers>>

-----------------------------------------------------------------------------
(* Deleting the task and the repository, crashes and restarts.             *)

(* deleteTaskProtectionDrafts: the item goes, and the draft with its last. *)
DeleteTask ==
  /\ task /\ NoFault
  /\ task' = FALSE
  /\ item' = [status |-> "gone", secret |-> None]
  /\ draft' = IF ItemThere THEN "gone" ELSE draft
  /\ UNCHANGED <<vault, drawn, repo, password, pending, keys, lock, local, raced>>

(* DeleteResourceVersioned: no task refers to the repository; what it owns *)
(* goes with it.  The repository's lock is not taken.                      *)
RemoveRepository ==
  /\ repo # "none" /\ ~task /\ Goto("remove", "idle", "cleaning") /\ NoFault
  /\ repo' = "none" /\ password' = None /\ pending' = None
  /\ item' = [item EXCEPT !.secret = None]
  /\ leftovers' = {password, pending} \ {None}
  /\ UNCHANGED <<vault, drawn, keys, draft, task, lock>>

(* confirmResourceDelete: then the secrets, one by one.                    *)
RemoveSecret ==
  /\ \/ \E s \in leftovers :
          /\ Discard(s) /\ leftovers' = leftovers \ {s}
          /\ Goto("remove", "cleaning", "cleaning")
     \/ /\ leftovers = {} /\ Done("remove", "cleaning") /\ NoFault
        /\ UNCHANGED <<vault, leftovers>>
  /\ UNCHANGED <<drawn, store, keys, lock>>

(* The process stops; RecoverInterruptedProtectionDrafts at its start.     *)
Restart ==
  /\ Fault
  /\ draft' = IF draft = "applying" THEN "partial" ELSE draft
  /\ lock' = Nobody
  /\ at' = [a \in Actors |-> "idle"]
  /\ hand' = [a \in Actors |-> None] /\ seen' = [a \in Actors |-> None]
  /\ copied' = [a \in Actors |-> "gone"]
  /\ leftovers' = {}
  /\ UNCHANGED <<vault, drawn, repo, password, pending, keys, item, task, raced>>

-----------------------------------------------------------------------------

Create == Stage \/ SaveDraft \/ Unstage
Apply  == ApplyBegin \/ ApplyRead \/ ApplyClaim \/ ApplyInspect \/ CreateRepository
          \/ InitializeLock \/ InitializeLoad \/ InitializeRun \/ InitializeRecord
          \/ ApplyTask \/ ApplySave \/ ApplyPlan \/ ApplyClose
Cancel == CancelRead \/ CancelInspect \/ CancelItem \/ CancelDelete \/ CancelRestore
          \/ CancelClose
Rotate == RotateBegin \/ RotateLock \/ RotateLoad \/ RotateStore \/ RotateAdd
          \/ RotateCommit \/ RotateDiscard
Revoke == RevokeLock \/ RevokeLoad \/ RevokeRemove \/ RevokeComplete
Remove == DeleteTask \/ RemoveRepository \/ RemoveSecret

Next == Create \/ Apply \/ Cancel \/ Rotate \/ Revoke \/ Remove \/ Restart

Spec == Init /\ [][Next]_vars

Ongoing(a) ==
  /\ at[a] # "idle"
  /\ CASE a = "create" -> Create [] a = "apply" -> Apply [] a = "cancel" -> Cancel
       [] a = "rotate" -> Rotate [] a = "revoke" -> Revoke [] a = "remove" -> RemoveSecret

(* What was started goes on; the administrator repeats a revocation that   *)
(* is pending, and the lock is not withheld from it for ever.              *)
Fairness ==
  /\ \A a \in Actors : WF_vars(Ongoing(a))
  /\ SF_vars(RevokeLock)

FairSpec == Spec /\ Fairness

(* The administrator also applies a draft that is not ready again.         *)
RetrySpec ==
  FairSpec /\ SF_vars(ApplyBegin) /\ SF_vars(InitializeLock)

-----------------------------------------------------------------------------
Places == {"idle", "saving", "unstaging", "reading", "claiming", "inspecting", "creating",
           "initializing", "loading", "formatting", "recording", "tasking", "failing",
           "planning", "closing_ready", "closing_partial", "clearing", "retaining",
           "deleting", "restoring", "closing", "waiting", "storing", "adding",
           "verifying", "committing", "discarding", "removing", "completing", "cleaning"}
ItemStatus == {"pending", "failed", "ready", "retained", "cancelled", "gone"}

(* Types of the rows, and of what the actors hold.                         *)
TypeOK ==
  /\ drawn \in Maybe /\ vault \subseteq 1..drawn /\ keys \subseteq 1..drawn
  /\ repo \in {"none", "uninitialized", "ready"}
  /\ password \in Maybe /\ pending \in Maybe
  /\ draft \in {"none", "pending", "applying", "partial", "ready", "cancelled", "gone"}
  /\ item \in [status : ItemStatus, secret : Maybe]
  /\ task \in BOOLEAN
  /\ lock \in Actors \cup {Nobody}
  /\ at \in [Actors -> Places]
  /\ hand \in [Actors -> Maybe] /\ seen \in [Actors -> Maybe]
  /\ copied \in [Actors -> ItemStatus]
  /\ leftovers \subseteq Secrets
  /\ troubles \in Nat /\ raced \in BOOLEAN

(* repository/service.go:366: whatever stops or fails during an            *)
(* initialisation, a rotation, a revocation or the clean-up of a draft,    *)
(* the password a repository that is in use has in the vault opens it.     *)
PasswordOpens == repo = "ready" => password \in vault /\ password \in keys

(* execution.go:171: the old secret is kept, apart from the current one,   *)
(* until its key is gone from the repository.                              *)
OldSecretKept ==
  pending # None => pending \in vault /\ pending # password

InUse(s) ==
  \/ Referenced(s) \/ s \in leftovers
  \/ s = hand["create"] /\ at["create"] # "idle"
  \/ s = hand["cancel"] /\ at["cancel"] \in {"deleting", "restoring"}
  \/ s = hand["rotate"] /\ at["rotate"] \in {"adding", "verifying", "committing", "discarding"}

(* service.go:366, protectionsetup/service.go:124: without a failure, a    *)
(* stop, or a set-up that overlaps its own cancellation or the deletion of *)
(* its repository, no secret stays in the vault that nothing will use.     *)
NoSecretLeft ==
  troubles = 0 /\ ~raced => \A s \in vault : InUse(s)

PasswordsSurvive == PasswordOpens /\ OldSecretKept /\ NoSecretLeft

(* service.go:426: a revocation that stopped half-way is completed by its  *)
(* repetition, unless a draft was written back with the old secret.        *)
RevocationRepeats == pending # None ~> pending = None \/ pending = item.secret

(* protection_setup.go:207: a set-up that was interrupted is continued by  *)
(* a retry if its repository and its password are there, and stay.         *)
RetryContinues ==
  draft = "partial" /\ repo = "uninitialized" /\ Material
    ~> draft \notin {"partial", "applying"} \/ repo = "none"
=============================================================================
