---------------------------- MODULE RecoveryProofs ----------------------------
(***************************************************************************)
(* Proofs about what stands between a backup and its use, for any number   *)
(* of verifications, restarts, secrets, rotations, exports and imports:    *)
(* every directory of a verification has its row, the password of a        *)
(* repository survives what fails, a bundle is one moment of the service,  *)
(* and an import is all there or leaves nothing.                           *)
(***************************************************************************)
EXTENDS Recovery, Sequences, FiniteSetTheorems, TLAPS

(* Places of a verification that has its row and has not finished.         *)
Recorded == {"created", "restoring", "restored", "verified", "failed",
             "success", "failure", "leftover"}

(* Places at which the directory has nothing in it.                        *)
Empty == {"new", "begun", "created", "success", "failure", "resolving"}

Places == Resting \cup Recorded \cup Empty \cup {"cleaning"}

Rows == [status : {None, "running", "success", "failed", "cleanup_required", "interrupted"},
         cleanup : {None, "pending", "required", "removed"}, snapshot : Nat]

(* Types of the state.                                                     *)
TypeOK ==
  /\ task \in {"enabled", "disabled", "gone"}
  /\ policy \in BOOLEAN /\ dropping \in BOOLEAN /\ active \in BOOLEAN
  /\ good \in Nat /\ held \subseteq Nat /\ restarts \in Nat
  /\ pc \in [Attempts -> Places]
  /\ record \in [Attempts -> Rows]
  /\ content \in [Attempts -> {None, Partial, Whole}]

(* A row is running while its verification is at work, and a row that asks *)
(* for a cleanup is not running any more.                                  *)
RowsFit ==
  \A v \in Attempts :
    /\ pc[v] \in Recorded => record[v].status = "running"
    /\ pc[v] \in {"cleaning", "resolving"} => record[v].cleanup = "required"
    /\ pc[v] \in Empty => content[v] = None

(* Nobody works for a task that is gone, and none of its rows is left.     *)
GoneIsGone ==
  task = "gone" => ~Working /\ \A v \in Attempts : record[v] = Absent

IInv == TypeOK /\ RowsFit /\ GoneIsGone /\ LeftoversAreRecorded

USE DEF None, Partial, Whole, Resting, Recorded, Empty

-----------------------------------------------------------------------------
(* At first there is neither a row nor a directory.                        *)
LEMMA InitIInv == Init => IInv
<1> SUFFICES ASSUME Init PROVE IInv  OBVIOUS
<1> USE DEF Init
<1>1. TypeOK  BY DEF TypeOK, Places, Rows, Absent
<1>2. RowsFit  BY DEF RowsFit
<1>3. GoneIsGone  BY DEF GoneIsGone
<1>4. LeftoversAreRecorded  BY DEF LeftoversAreRecorded, Left
<1>5. QED  BY <1>1, <1>2, <1>3, <1>4 DEF IInv

(* What the administrator and the backups do leaves directories alone, and *)
(* only the deletion of the task takes rows.                               *)
LEMMA WorldStep ==
  ASSUME IInv,
         Backup \/ Forget \/ SavePolicy \/ CountCleanups \/ DropPolicy \/ Disable \/ DeleteTask
  PROVE  IInv'
<1> USE DEF IInv
<1>1. CASE Backup \/ Forget \/ SavePolicy \/ CountCleanups \/ DropPolicy \/ Disable
  <2>1. /\ UNCHANGED <<active, pc, record, content, restarts>>
        /\ task = "gone" <=> task' = "gone"
    BY <1>1 DEF Backup, Forget, SavePolicy, CountCleanups, DropPolicy, Disable
  <2>2. TypeOK'
    <3>1. good' \in Nat /\ held' \subseteq Nat
      <4>1. good \in Nat /\ held \subseteq Nat /\ good + 1 \in Nat
        BY DEF TypeOK
      <4>2. CASE Backup  BY <4>1, <4>2 DEF Backup
      <4>3. CASE Forget  BY <4>1, <4>3 DEF Forget
      <4>4. CASE SavePolicy \/ CountCleanups \/ DropPolicy \/ Disable
        BY <4>1, <4>4 DEF SavePolicy, CountCleanups, DropPolicy, Disable
      <4>5. QED  BY <1>1, <4>2, <4>3, <4>4
    <3>2. /\ task' \in {"enabled", "disabled", "gone"}
          /\ policy' \in BOOLEAN /\ dropping' \in BOOLEAN
      BY <1>1 DEF TypeOK, Backup, Forget, SavePolicy, CountCleanups, DropPolicy, Disable
    <3>3. QED  BY <2>1, <3>1, <3>2 DEF TypeOK
  <2>3. RowsFit'  BY <2>1 DEF RowsFit
  <2>4. GoneIsGone'  BY <2>1 DEF GoneIsGone, Working
  <2>5. LeftoversAreRecorded'  BY <2>1 DEF LeftoversAreRecorded, Left
  <2>6. QED  BY <2>2, <2>3, <2>4, <2>5
<1>2. CASE DeleteTask
  <2> USE <1>2 DEF DeleteTask
  <2>1. TypeOK'  BY DEF TypeOK, Rows, Absent
  <2>2. RowsFit'  BY DEF RowsFit, Working
  <2>3. GoneIsGone'  BY DEF GoneIsGone, Working
  <2>4. LeftoversAreRecorded'  BY DEF LeftoversAreRecorded
  <2>5. QED  BY <2>1, <2>2, <2>3, <2>4
<1>3. QED  BY <1>1, <1>2

(* A step of a verification is about its own row and directory.            *)
LEMMA RunStep ==
  ASSUME IInv, NEW v \in Attempts,
         \/ Begin(v) \/ GiveUp(v) \/ CreateRecord(v) \/ MakeDirectory(v)
         \/ RestoreDirectory(v) \/ HashRestoredTree(v) \/ RemoveAll(v)
  PROVE  IInv'
<1> USE DEF IInv, Move, Fill, World, Left
<1>1. task # "gone"
  BY DEF GoneIsGone, Working, Begin, GiveUp, CreateRecord, MakeDirectory, RestoreDirectory,
         HashRestoredTree, RemoveAll, TypeOK
<1>2. task' # "gone"
  BY <1>1 DEF Begin, GiveUp, CreateRecord, MakeDirectory, RestoreDirectory, HashRestoredTree,
              RemoveAll
<1>3. GoneIsGone'  BY <1>2 DEF GoneIsGone
<1>4. CASE Begin(v) \/ GiveUp(v) \/ HashRestoredTree(v)
  <2> USE <1>4 DEF Begin, GiveUp, HashRestoredTree
  <2>1. TypeOK'  BY DEF TypeOK, Places
  <2>2. RowsFit'  BY DEF RowsFit, TypeOK
  <2>3. LeftoversAreRecorded'  BY DEF LeftoversAreRecorded
  <2>4. QED  BY <1>3, <2>1, <2>2, <2>3
<1>5. CASE CreateRecord(v)
  <2> USE <1>5 DEF CreateRecord
  <2>1. TypeOK'  BY DEF TypeOK, Places, Rows
  <2>2. RowsFit'  BY DEF RowsFit, TypeOK
  <2>3. LeftoversAreRecorded'  BY <1>1 DEF LeftoversAreRecorded, TypeOK
  <2>4. QED  BY <1>3, <2>1, <2>2, <2>3
<1>6. CASE MakeDirectory(v) \/ RestoreDirectory(v) \/ RemoveAll(v)
  <2> USE <1>6 DEF MakeDirectory, RestoreDirectory, RemoveAll
  <2>1. TypeOK'  BY DEF TypeOK, Places
  <2>2. RowsFit'  BY DEF RowsFit, TypeOK
  <2>3. LeftoversAreRecorded'  BY <1>1 DEF LeftoversAreRecorded, RowsFit, TypeOK
  <2>4. QED  BY <1>3, <2>1, <2>2, <2>3
<1>7. QED  BY <1>4, <1>5, <1>6

(* A verification ends with a row that still runs, or with an empty        *)
(* directory, or asking for a cleanup.                                     *)
LEMMA FinishStep == ASSUME IInv, NEW v \in Attempts, Finish(v) PROVE IInv'
<1> USE DEF IInv, Finish, Move, World, Left
<1> DEFINE row == [record[v] EXCEPT !.status = Outcome(pc[v]).status,
                                    !.cleanup = Outcome(pc[v]).cleanup]
<1>1. /\ row \in Rows
      /\ row.cleanup = IF pc[v] = "leftover" THEN "required" ELSE "removed"
  BY DEF Outcome, Rows, TypeOK
<1>2. record' \in {record, [record EXCEPT ![v] = row]}
  BY DEF TypeOK
<1> HIDE DEF row
<1>3. task # "gone" /\ task' # "gone"
  BY DEF GoneIsGone, Working
<1>4. TypeOK'  BY ZenonT(60), <1>1, <1>2 DEF TypeOK, Places
<1>5. RowsFit'  BY <1>1, <1>2 DEF RowsFit, TypeOK
<1>6. GoneIsGone'  BY <1>3 DEF GoneIsGone
<1>7. LeftoversAreRecorded'  BY <1>1, <1>2, <1>3 DEF LeftoversAreRecorded, RowsFit, TypeOK
<1>8. QED  BY <1>4, <1>5, <1>6, <1>7

(* A cleanup takes the request away only after the directory is empty.     *)
LEMMA CleanupStep ==
  ASSUME IInv, NEW v \in Attempts, Cleanup(v) \/ RemoveLeftover(v) \/ Resolve(v)
  PROVE  IInv'
<1> USE DEF IInv, Move, Fill, World, Left
<1>1. record[v].cleanup = "required" /\ record[v].cleanup # Absent.cleanup
  BY DEF Cleanup, RemoveLeftover, Resolve, RowsFit, Absent
<1>2. task # "gone" /\ task' # "gone"
  BY <1>1 DEF GoneIsGone, Cleanup, RemoveLeftover, Resolve
<1>3. GoneIsGone'  BY <1>2 DEF GoneIsGone
<1>4. CASE Cleanup(v) \/ RemoveLeftover(v)
  <2> USE <1>4 DEF Cleanup, RemoveLeftover
  <2>1. TypeOK'  BY DEF TypeOK, Places
  <2>2. RowsFit'  BY <1>1 DEF RowsFit, TypeOK
  <2>3. LeftoversAreRecorded'  BY <1>1 DEF LeftoversAreRecorded, TypeOK
  <2>4. QED  BY <1>3, <2>1, <2>2, <2>3
<1>5. CASE Resolve(v)
  <2> USE <1>5 DEF Resolve
  <2> DEFINE row == [record[v] EXCEPT !.cleanup = "removed"]
  <2>1. row \in Rows /\ content[v] = None /\ record' \in {record, [record EXCEPT ![v] = row]}
    BY DEF Rows, TypeOK, RowsFit
  <2> HIDE DEF row
  <2>2. TypeOK'  BY <2>1 DEF TypeOK, Places
  <2>3. RowsFit'  BY <2>1 DEF RowsFit, TypeOK
  <2>4. LeftoversAreRecorded'  BY <2>1 DEF LeftoversAreRecorded, TypeOK
  <2>5. QED  BY <1>3, <2>2, <2>3, <2>4
<1>6. QED  BY <1>4, <1>5

(* A row that was running asks for a cleanup after the next start.         *)
LEMMA RestartStep == ASSUME IInv, Restart PROVE IInv'
<1> USE DEF IInv, Restart
<1>1. \A v \in Attempts :
        /\ Interrupted(record[v]) \in Rows
        /\ record[v].status = "running" => Interrupted(record[v]).cleanup = "required"
        /\ record[v].status # "running" => Interrupted(record[v]) = record[v]
  BY DEF Interrupted, Rows, TypeOK
<1>2. \A v \in Attempts :
        /\ record'[v] = Interrupted(record[v])
        /\ pc'[v] \in Resting
        /\ pc'[v] = "new" => pc[v] = "new"
  OBVIOUS
<1>3. TypeOK'
  <2>1. record' \in [Attempts -> Rows]  BY <1>1
  <2>2. pc' \in [Attempts -> Places]  BY DEF Places
  <2>3. restarts \in Nat /\ restarts' = restarts + 1
    BY DEF TypeOK
  <2>4. restarts' \in Nat  BY ONLY <2>3
  <2>5. active' = FALSE /\ dropping' = FALSE /\ UNCHANGED <<task, policy, good, held, content>>
    OBVIOUS
  <2>6. QED  BY <2>1, <2>2, <2>4, <2>5 DEF TypeOK
<1>4. RowsFit'  BY <1>2 DEF RowsFit
<1>5. GoneIsGone'
  <2>1. Absent.status # "running"  BY DEF Absent
  <2>2. QED  BY <1>1, <1>2, <2>1 DEF GoneIsGone, Working
<1>6. LeftoversAreRecorded'  BY <1>1, <1>2 DEF LeftoversAreRecorded, Left
<1>7. QED  BY <1>3, <1>4, <1>5, <1>6

(* Every step keeps the invariant.                                         *)
LEMMA NextIInv == IInv /\ [Next]_vars => IInv'
<1> SUFFICES ASSUME IInv, [Next]_vars PROVE IInv'  OBVIOUS
<1>1. CASE Next
  BY <1>1, WorldStep, RunStep, FinishStep, CleanupStep, RestartStep DEF Next
<1>2. CASE UNCHANGED vars
  <2> USE <1>2 DEF vars, IInv
  <2>1. TypeOK'  BY DEF TypeOK
  <2>2. RowsFit'  BY DEF RowsFit
  <2>3. GoneIsGone'  BY DEF GoneIsGone, Working
  <2>4. LeftoversAreRecorded'  BY DEF LeftoversAreRecorded, Left
  <2>5. QED  BY <2>1, <2>2, <2>3, <2>4
<1>3. QED  BY <1>1, <1>2

-----------------------------------------------------------------------------
(* The rows and the places of the service have the types the code gives    *)
(* them, after any number of restarts.                                     *)
THEOREM TypeCorrect == Spec => []TypeOK
<1>1. IInv => TypeOK  BY DEF IInv
<1>2. QED  BY <1>1, InitIInv, NextIInv, PTL DEF Spec

(* Restored data never lies in a directory without a row that asks for its *)
(* cleanup or that the next start makes ask for it, whatever fails in      *)
(* Run and Cleanup, and wherever the service stops.                        *)
THEOREM LeftoversHaveRows == Spec => []LeftoversAreRecorded
<1>1. IInv => LeftoversAreRecorded  BY DEF IInv
<1>2. QED  BY <1>1, InitIInv, NextIInv, PTL DEF Spec

-----------------------------------------------------------------------------
(* RepositorySecrets: who holds the lock, which ids nobody else has, and   *)
(* where, in the calm, every secret of the vault is referred to.           *)

SecretsTyped ==
  /\ drawn \in Nat /\ vault \subseteq 1..drawn /\ keys \subseteq 1..drawn
  /\ repo \in {"none", "uninitialized", "ready"}
  /\ password \in 0..drawn /\ pending \in 0..drawn
  /\ item \in [status : Secrets!ItemStatus, secret : 0..drawn]
  /\ at \in [Secrets!Actors -> Secrets!Places]
  /\ hand \in [Secrets!Actors -> 0..drawn] /\ seen \in [Secrets!Actors -> 0..drawn]
  /\ copied \in [Secrets!Actors -> Secrets!ItemStatus]
  /\ troubles \in Nat /\ raced \in BOOLEAN /\ protected \in BOOLEAN

(* Service.locked.                                                         *)
SecretsLock ==
  /\ at["apply"] \in {"loading", "formatting"} => lock = "apply"
  /\ at["rotate"] \in {"loading", "storing", "adding", "verifying", "committing", "discarding"} =>
       lock = "rotate"
  /\ at["revoke"] \in {"loading", "removing", "completing"} => lock = "revoke"

(* Before there is a draft nothing else can have begun.                    *)
DraftFirst ==
  /\ draft = "none" => /\ repo = "none" /\ item.secret = 0 /\ item.status = "gone"
                       /\ \A a \in Secrets!Actors \ {"create"} : at[a] = "idle"
  /\ at["create"] \in {"idle", "saving", "unstaging"}
  /\ at["create"] # "idle" => draft = "none"

RowFits ==
  /\ repo = "none" => password = 0 /\ pending = 0
  /\ {password, pending} \subseteq vault \cup {0}
  /\ pending # 0 => pending # password
  /\ protected => repo # "none"

(* The repository opens, or its initialisation is about to be recorded.    *)
Opened == repo = "ready" \/ (at["apply"] = "recording" /\ repo # "none")
OpenedFits ==
  /\ at["apply"] = "formatting" => seen["apply"] # 0
  /\ Opened => password \in keys
  /\ at["apply"] = "formatting" /\ repo # "none" =>
       repo = "uninitialized" /\ password = seen["apply"] /\ password \in vault
  /\ at["revoke"] \in {"removing", "completing"} /\ Opened => hand["revoke"] # password

(* The secret of a rotation is its own until it is committed.              *)
RotationFits ==
  at["rotate"] \in {"adding", "verifying", "committing"} =>
    /\ hand["rotate"] # 0
    /\ hand["rotate"] \notin {password, pending, item.secret}
    /\ \A a \in Secrets!Actors \ {"rotate"} : hand[a] # hand["rotate"]
    /\ at["rotate"] # "adding" => hand["rotate"] \in keys

(* While nothing fails and nothing races, what an item or an actor knows   *)
(* of is a secret of the repository, or there is no repository yet.        *)
Calm == troubles = 0 /\ ~raced
Known(s) == s \in vault => s \in {password, pending}
Holds(a) ==
  /\ repo = "none" => item.secret = hand[a]
  /\ repo # "none" => Known(hand[a])
Holding == {"claiming", "inspecting", "creating", "initializing", "loading", "formatting",
            "recording", "tasking", "saving", "failing"}

OneRival ==
  /\ \A a, b \in Secrets!Rivals : at[a] # "idle" /\ at[b] # "idle" => a = b
  /\ at["create"] # "unstaging"
ItemKnown == repo # "none" => Known(item.secret)
ApplyHolds == at["apply"] \in Holding => Holds("apply")
CancelHolds == at["cancel"] \in {"inspecting", "clearing", "retaining"} => Holds("cancel")
CancelPlaces ==
  /\ at["cancel"] \in {"clearing", "deleting", "restoring"} => repo = "none"
  /\ at["cancel"] = "retaining" => repo # "none"
  /\ at["cancel"] \in {"deleting", "restoring"} => item.secret = 0
  /\ at["cancel"] = "restoring" => hand["cancel"] \notin vault
LeftoversDrop == at["remove"] = "idle" => leftovers = {}
VaultUsed == \A s \in vault : Secrets!InUse(s)
CalmParts ==
  /\ OneRival /\ ItemKnown /\ ApplyHolds /\ CancelHolds /\ CancelPlaces /\ LeftoversDrop
  /\ VaultUsed
CalmFits == Calm => CalmParts

SecretsInv ==
  /\ SecretsTyped /\ SecretsLock /\ DraftFirst /\ RowFits /\ OpenedFits /\ RotationFits
  /\ CalmFits

USE DEF Secrets!Actors, Secrets!None, Secrets!Nobody, Secrets!Rivals

LEMMA StageKept == ASSUME SecretsInv, Secrets!Stage PROVE SecretsInv'
<1> USE DEF SecretsInv, SecretsTyped, Secrets!Stage, Secrets!Put, Secrets!store, Secrets!Move
<1>1. SecretsTyped'  BY DEF Secrets!Fault, Secrets!NoFault, Secrets!ItemStatus, Secrets!Places
<1>2. SecretsLock'  BY DEF SecretsLock
<1>3. DraftFirst'  BY DEF DraftFirst, RowFits
<1>4. RowFits'  BY DEF RowFits, DraftFirst, RotationFits, OpenedFits
<1>5. OpenedFits'  BY DEF OpenedFits, Opened, RowFits, SecretsLock, DraftFirst, RotationFits
<1>6. RotationFits'  BY DEF RotationFits, SecretsLock, RowFits, DraftFirst
<1>7. CalmFits'
  <2> SUFFICES ASSUME Calm' PROVE CalmParts'  BY DEF CalmFits
  <2>1. Calm /\ ~Secrets!Fault  BY DEF Calm, Secrets!Fault, Secrets!NoFault
  <2>2. CalmParts  BY <2>1 DEF CalmFits
  <2> USE DEF CalmParts, RowFits, DraftFirst, OneRival, ItemKnown, ApplyHolds, CancelHolds,
     CancelPlaces, LeftoversDrop, Known, Holds, Holding
  <2>3. OneRival'  BY <2>1, <2>2
  <2>4. ItemKnown'  BY <2>1, <2>2
  <2>5. ApplyHolds'  BY <2>1, <2>2
  <2>6. CancelHolds'  BY <2>1, <2>2
  <2>7. CancelPlaces'  BY <2>1, <2>2
  <2>8. LeftoversDrop'  BY <2>1, <2>2
  <2>9. VaultUsed'  BY <2>1, <2>2 DEF VaultUsed, Secrets!InUse, Secrets!Referenced
  <2>10. QED  BY <2>3, <2>4, <2>5, <2>6, <2>7, <2>8, <2>9
<1>8. QED  BY <1>1, <1>2, <1>3, <1>4, <1>5, <1>6, <1>7

LEMMA SaveDraftKept == ASSUME SecretsInv, Secrets!SaveDraft PROVE SecretsInv'
<1> USE DEF SecretsInv, SecretsTyped, Secrets!SaveDraft, Secrets!Done, Secrets!Goto,
   Secrets!Move
<1>1. SecretsTyped'  BY DEF Secrets!Fault, Secrets!NoFault, Secrets!ItemStatus, Secrets!Places
<1>2. SecretsLock'  BY DEF SecretsLock
<1>3. DraftFirst'  BY DEF DraftFirst, RowFits
<1>4. RowFits'  BY DEF RowFits, DraftFirst, RotationFits, OpenedFits
<1>5. OpenedFits'  BY DEF OpenedFits, Opened, RowFits, SecretsLock, DraftFirst, RotationFits
<1>6. RotationFits'  BY DEF RotationFits, SecretsLock, RowFits, DraftFirst
<1>7. CalmFits'
  <2> SUFFICES ASSUME Calm' PROVE CalmParts'  BY DEF CalmFits
  <2>1. Calm /\ ~Secrets!Fault  BY DEF Calm, Secrets!Fault, Secrets!NoFault
  <2>2. CalmParts  BY <2>1 DEF CalmFits
  <2> USE DEF CalmParts, RowFits, DraftFirst, OneRival, ItemKnown, ApplyHolds, CancelHolds,
     CancelPlaces, LeftoversDrop, Known, Holds, Holding
  <2>3. OneRival'  BY <2>1, <2>2
  <2>4. ItemKnown'  BY <2>1, <2>2
  <2>5. ApplyHolds'  BY <2>1, <2>2
  <2>6. CancelHolds'  BY <2>1, <2>2
  <2>7. CancelPlaces'  BY <2>1, <2>2
  <2>8. LeftoversDrop'  BY <2>1, <2>2
  <2>9. VaultUsed'  BY <2>1, <2>2 DEF VaultUsed, Secrets!InUse, Secrets!Referenced
  <2>10. QED  BY <2>3, <2>4, <2>5, <2>6, <2>7, <2>8, <2>9
<1>8. QED  BY <1>1, <1>2, <1>3, <1>4, <1>5, <1>6, <1>7

LEMMA UnstageKept == ASSUME SecretsInv, Secrets!Unstage PROVE SecretsInv'
<1> USE DEF SecretsInv, SecretsTyped, Secrets!Unstage, Secrets!Done, Secrets!Discard,
   Secrets!store, Secrets!Move, Secrets!Deletable, Secrets!Referenced
<1>1. SecretsTyped'
  <2>1. drawn' \in Nat /\ drawn <= drawn' /\ vault' \subseteq 1..drawn' /\ keys' \subseteq 1..drawn'
    <3>1. drawn' = drawn /\ vault' \subseteq vault  OBVIOUS
    <3>2. keys' \subseteq 1..drawn  OBVIOUS
    <3>3. QED  BY <3>1, <3>2
  <2>2. /\ repo' \in {"none", "uninitialized", "ready"}
        /\ password' \in 0..drawn' /\ pending' \in 0..drawn'
        /\ protected' \in BOOLEAN  BY <2>1
  <2>3. item' \in [status : Secrets!ItemStatus, secret : 0..drawn']
    BY <2>1 DEF Secrets!ItemStatus
  <2>4. /\ at' \in [Secrets!Actors -> Secrets!Places]
        /\ copied' \in [Secrets!Actors -> Secrets!ItemStatus]
    BY DEF Secrets!ItemStatus, Secrets!Places
  <2>5. /\ hand' \in [Secrets!Actors -> 0..drawn']
        /\ seen' \in [Secrets!Actors -> 0..drawn']
    BY <2>1
  <2>6. troubles' \in Nat /\ raced' \in BOOLEAN  BY DEF Secrets!Fault, Secrets!NoFault
  <2>7. QED  BY <2>1, <2>2, <2>3, <2>4, <2>5, <2>6
<1>2. SecretsLock'  BY DEF SecretsLock
<1>3. DraftFirst'  BY DEF DraftFirst, RowFits
<1>4. RowFits'  BY DEF RowFits, DraftFirst, RotationFits, OpenedFits
<1>5. OpenedFits'  BY DEF OpenedFits, Opened, RowFits, SecretsLock, DraftFirst, RotationFits
<1>6. RotationFits'  BY DEF RotationFits, SecretsLock, RowFits, DraftFirst
<1>7. CalmFits'
  <2> SUFFICES ASSUME Calm' PROVE CalmParts'  BY DEF CalmFits
  <2>1. Calm /\ ~Secrets!Fault  BY DEF Calm, Secrets!Fault, Secrets!NoFault
  <2>2. CalmParts  BY <2>1 DEF CalmFits
  <2> USE DEF CalmParts, RowFits, DraftFirst, OneRival, ItemKnown, ApplyHolds, CancelHolds,
     CancelPlaces, LeftoversDrop, Known, Holds, Holding
  <2>3. OneRival'  BY <2>1, <2>2
  <2>4. ItemKnown'  BY <2>1, <2>2
  <2>5. ApplyHolds'  BY <2>1, <2>2
  <2>6. CancelHolds'  BY <2>1, <2>2
  <2>7. CancelPlaces'  BY <2>1, <2>2
  <2>8. LeftoversDrop'  BY <2>1, <2>2
  <2>9. VaultUsed'  BY <2>1, <2>2 DEF VaultUsed, Secrets!InUse
  <2>10. QED  BY <2>3, <2>4, <2>5, <2>6, <2>7, <2>8, <2>9
<1>8. QED  BY <1>1, <1>2, <1>3, <1>4, <1>5, <1>6, <1>7

LEMMA ApplyBeginKept == ASSUME SecretsInv, Secrets!ApplyBegin PROVE SecretsInv'
<1> USE DEF SecretsInv, SecretsTyped, Secrets!ApplyBegin, Secrets!Goto, Secrets!store,
   Secrets!Move
<1>1. SecretsTyped'  BY DEF Secrets!Fault, Secrets!NoFault, Secrets!ItemStatus, Secrets!Places
<1>2. SecretsLock'  BY DEF SecretsLock
<1>3. DraftFirst'  BY DEF DraftFirst, RowFits
<1>4. RowFits'  BY DEF RowFits, DraftFirst, RotationFits, OpenedFits
<1>5. OpenedFits'  BY DEF OpenedFits, Opened, RowFits, SecretsLock, DraftFirst, RotationFits
<1>6. RotationFits'  BY DEF RotationFits, SecretsLock, RowFits, DraftFirst
<1>7. CalmFits'
  <2> SUFFICES ASSUME Calm' PROVE CalmParts'  BY DEF CalmFits
  <2>1. Calm /\ ~Secrets!Fault  BY DEF Calm, Secrets!Fault, Secrets!NoFault
  <2>2. CalmParts  BY <2>1 DEF CalmFits
  <2> USE DEF CalmParts, RowFits, DraftFirst, OneRival, ItemKnown, ApplyHolds, CancelHolds,
     CancelPlaces, LeftoversDrop, Known, Holds, Holding
  <2>3. OneRival'
    <3>1. Secrets!AtWork(Secrets!Rivals) = {}  BY DEF Calm
    <3>2. \A a \in Secrets!Rivals : at[a] = "idle"  BY <3>1 DEF Secrets!AtWork
    <3>3. QED  BY <2>1, <2>2, <3>2
  <2>4. ItemKnown'  BY <2>1, <2>2
  <2>5. ApplyHolds'  BY <2>1, <2>2
  <2>6. CancelHolds'  BY <2>1, <2>2
  <2>7. CancelPlaces'  BY <2>1, <2>2
  <2>8. LeftoversDrop'  BY <2>1, <2>2
  <2>9. VaultUsed'  BY <2>1, <2>2 DEF VaultUsed, Secrets!InUse, Secrets!Referenced
  <2>10. QED  BY <2>3, <2>4, <2>5, <2>6, <2>7, <2>8, <2>9
<1>8. QED  BY <1>1, <1>2, <1>3, <1>4, <1>5, <1>6, <1>7

LEMMA ApplyReadKept == ASSUME SecretsInv, Secrets!ApplyRead PROVE SecretsInv'
<1> USE DEF SecretsInv, SecretsTyped, Secrets!ApplyRead, Secrets!Move, Secrets!Done,
   Secrets!store
<1>1. SecretsTyped'  BY DEF Secrets!Fault, Secrets!NoFault, Secrets!ItemStatus, Secrets!Places
<1>2. SecretsLock'  BY DEF SecretsLock
<1>3. DraftFirst'  BY DEF DraftFirst, RowFits
<1>4. RowFits'  BY DEF RowFits, DraftFirst, RotationFits, OpenedFits
<1>5. OpenedFits'  BY DEF OpenedFits, Opened, RowFits, SecretsLock, DraftFirst, RotationFits
<1>6. RotationFits'  BY DEF RotationFits, SecretsLock, RowFits, DraftFirst
<1>7. CalmFits'
  <2> SUFFICES ASSUME Calm' PROVE CalmParts'  BY DEF CalmFits
  <2>1. Calm /\ ~Secrets!Fault  BY DEF Calm, Secrets!Fault, Secrets!NoFault
  <2>2. CalmParts  BY <2>1 DEF CalmFits
  <2> USE DEF CalmParts, RowFits, DraftFirst, OneRival, ItemKnown, ApplyHolds, CancelHolds,
     CancelPlaces, LeftoversDrop, Known, Holds, Holding
  <2>3. OneRival'  BY <2>1, <2>2
  <2>4. ItemKnown'  BY <2>1, <2>2
  <2>5. ApplyHolds'  BY <2>1, <2>2
  <2>6. CancelHolds'  BY <2>1, <2>2
  <2>7. CancelPlaces'  BY <2>1, <2>2
  <2>8. LeftoversDrop'  BY <2>1, <2>2
  <2>9. VaultUsed'  BY <2>1, <2>2 DEF VaultUsed, Secrets!InUse, Secrets!Referenced
  <2>10. QED  BY <2>3, <2>4, <2>5, <2>6, <2>7, <2>8, <2>9
<1>8. QED  BY <1>1, <1>2, <1>3, <1>4, <1>5, <1>6, <1>7

LEMMA ApplyClaimKept == ASSUME SecretsInv, Secrets!ApplyClaim PROVE SecretsInv'
<1> USE DEF SecretsInv, SecretsTyped, Secrets!ApplyClaim, Secrets!DraftThere, Secrets!Goto,
   Secrets!FailsUnless, Secrets!Done, Secrets!Move
<1>1. SecretsTyped'  BY DEF Secrets!Fault, Secrets!NoFault, Secrets!ItemStatus, Secrets!Places
<1>2. SecretsLock'  BY DEF SecretsLock
<1>3. DraftFirst'  BY DEF DraftFirst, RowFits
<1>4. RowFits'  BY DEF RowFits, DraftFirst, RotationFits, OpenedFits
<1>5. OpenedFits'  BY DEF OpenedFits, Opened, RowFits, SecretsLock, DraftFirst, RotationFits
<1>6. RotationFits'  BY DEF RotationFits, SecretsLock, RowFits, DraftFirst
<1>7. CalmFits'
  <2> SUFFICES ASSUME Calm' PROVE CalmParts'  BY DEF CalmFits
  <2>1. Calm /\ ~Secrets!Fault  BY DEF Calm, Secrets!Fault, Secrets!NoFault
  <2>2. CalmParts  BY <2>1 DEF CalmFits
  <2> USE DEF CalmParts, RowFits, DraftFirst, OneRival, ItemKnown, ApplyHolds, CancelHolds,
     CancelPlaces, LeftoversDrop, Known, Holds, Holding
  <2>3. OneRival'  BY <2>1, <2>2
  <2>4. ItemKnown'  BY <2>1, <2>2
  <2>5. ApplyHolds'  BY <2>1, <2>2
  <2>6. CancelHolds'  BY <2>1, <2>2
  <2>7. CancelPlaces'  BY <2>1, <2>2
  <2>8. LeftoversDrop'  BY <2>1, <2>2
  <2>9. VaultUsed'  BY <2>1, <2>2 DEF VaultUsed, Secrets!InUse, Secrets!Referenced
  <2>10. QED  BY <2>3, <2>4, <2>5, <2>6, <2>7, <2>8, <2>9
<1>8. QED  BY <1>1, <1>2, <1>3, <1>4, <1>5, <1>6, <1>7

LEMMA ApplyInspectKept == ASSUME SecretsInv, Secrets!ApplyInspect PROVE SecretsInv'
<1> USE DEF SecretsInv, SecretsTyped, Secrets!ApplyInspect, Secrets!Goto, Secrets!store,
   Secrets!Move
<1>1. SecretsTyped'  BY DEF Secrets!Fault, Secrets!NoFault, Secrets!ItemStatus, Secrets!Places
<1>2. SecretsLock'  BY DEF SecretsLock
<1>3. DraftFirst'  BY DEF DraftFirst, RowFits
<1>4. RowFits'  BY DEF RowFits, DraftFirst, RotationFits, OpenedFits
<1>5. OpenedFits'  BY DEF OpenedFits, Opened, RowFits, SecretsLock, DraftFirst, RotationFits
<1>6. RotationFits'  BY DEF RotationFits, SecretsLock, RowFits, DraftFirst
<1>7. CalmFits'
  <2> SUFFICES ASSUME Calm' PROVE CalmParts'  BY DEF CalmFits
  <2>1. Calm /\ ~Secrets!Fault  BY DEF Calm, Secrets!Fault, Secrets!NoFault
  <2>2. CalmParts  BY <2>1 DEF CalmFits
  <2> USE DEF CalmParts, RowFits, DraftFirst, OneRival, ItemKnown, ApplyHolds, CancelHolds,
     CancelPlaces, LeftoversDrop, Known, Holds, Holding
  <2>3. OneRival'  BY <2>1, <2>2
  <2>4. ItemKnown'  BY <2>1, <2>2
  <2>5. ApplyHolds'  BY <2>1, <2>2
  <2>6. CancelHolds'  BY <2>1, <2>2
  <2>7. CancelPlaces'  BY <2>1, <2>2
  <2>8. LeftoversDrop'  BY <2>1, <2>2
  <2>9. VaultUsed'  BY <2>1, <2>2 DEF VaultUsed, Secrets!InUse, Secrets!Referenced
  <2>10. QED  BY <2>3, <2>4, <2>5, <2>6, <2>7, <2>8, <2>9
<1>8. QED  BY <1>1, <1>2, <1>3, <1>4, <1>5, <1>6, <1>7

LEMMA CreateRepositoryKept == ASSUME SecretsInv, Secrets!CreateRepository PROVE SecretsInv'
<1> USE DEF SecretsInv, SecretsTyped, Secrets!CreateRepository, Secrets!Goto,
   Secrets!FailsUnless, Secrets!Move
<1>1. SecretsTyped'  BY DEF Secrets!Fault, Secrets!NoFault, Secrets!ItemStatus, Secrets!Places
<1>2. SecretsLock'  BY DEF SecretsLock
<1>3. DraftFirst'  BY DEF DraftFirst, RowFits
<1>4. RowFits'  BY DEF RowFits, DraftFirst, RotationFits, OpenedFits
<1>5. OpenedFits'  BY DEF OpenedFits, Opened, RowFits, SecretsLock, DraftFirst, RotationFits
<1>6. RotationFits'  BY DEF RotationFits, SecretsLock, RowFits, DraftFirst
<1>7. CalmFits'
  <2> SUFFICES ASSUME Calm' PROVE CalmParts'  BY DEF CalmFits
  <2>1. Calm /\ ~Secrets!Fault  BY DEF Calm, Secrets!Fault, Secrets!NoFault
  <2>2. CalmParts  BY <2>1 DEF CalmFits
  <2> USE DEF CalmParts, RowFits, DraftFirst, OneRival, ItemKnown, ApplyHolds, CancelHolds,
     CancelPlaces, LeftoversDrop, Known, Holds, Holding
  <2>3. OneRival'  BY <2>1, <2>2
  <2>4. ItemKnown'  BY <2>1, <2>2
  <2>5. ApplyHolds'  BY <2>1, <2>2
  <2>6. CancelHolds'  BY <2>1, <2>2
  <2>7. CancelPlaces'  BY <2>1, <2>2
  <2>8. LeftoversDrop'  BY <2>1, <2>2
  <2>9. VaultUsed'  BY <2>1, <2>2 DEF VaultUsed, Secrets!InUse, Secrets!Referenced
  <2>10. QED  BY <2>3, <2>4, <2>5, <2>6, <2>7, <2>8, <2>9
<1>8. QED  BY <1>1, <1>2, <1>3, <1>4, <1>5, <1>6, <1>7

LEMMA InitializeLockKept == ASSUME SecretsInv, Secrets!InitializeLock PROVE SecretsInv'
<1> USE DEF SecretsInv, SecretsTyped, Secrets!InitializeLock, Secrets!Goto, Secrets!Lock,
   Secrets!store, Secrets!Move
<1>1. SecretsTyped'  BY DEF Secrets!Fault, Secrets!NoFault, Secrets!ItemStatus, Secrets!Places
<1>2. SecretsLock'  BY DEF SecretsLock
<1>3. DraftFirst'  BY DEF DraftFirst, RowFits
<1>4. RowFits'  BY DEF RowFits, DraftFirst, RotationFits, OpenedFits
<1>5. OpenedFits'  BY DEF OpenedFits, Opened, RowFits, SecretsLock, DraftFirst, RotationFits
<1>6. RotationFits'  BY DEF RotationFits, SecretsLock, RowFits, DraftFirst
<1>7. CalmFits'
  <2> SUFFICES ASSUME Calm' PROVE CalmParts'  BY DEF CalmFits
  <2>1. Calm /\ ~Secrets!Fault  BY DEF Calm, Secrets!Fault, Secrets!NoFault
  <2>2. CalmParts  BY <2>1 DEF CalmFits
  <2> USE DEF CalmParts, RowFits, DraftFirst, OneRival, ItemKnown, ApplyHolds, CancelHolds,
     CancelPlaces, LeftoversDrop, Known, Holds, Holding
  <2>3. OneRival'  BY <2>1, <2>2
  <2>4. ItemKnown'  BY <2>1, <2>2
  <2>5. ApplyHolds'  BY <2>1, <2>2
  <2>6. CancelHolds'  BY <2>1, <2>2
  <2>7. CancelPlaces'  BY <2>1, <2>2
  <2>8. LeftoversDrop'  BY <2>1, <2>2
  <2>9. VaultUsed'  BY <2>1, <2>2 DEF VaultUsed, Secrets!InUse, Secrets!Referenced
  <2>10. QED  BY <2>3, <2>4, <2>5, <2>6, <2>7, <2>8, <2>9
<1>8. QED  BY <1>1, <1>2, <1>3, <1>4, <1>5, <1>6, <1>7

LEMMA InitializeLoadKept == ASSUME SecretsInv, Secrets!InitializeLoad PROVE SecretsInv'
<1> USE DEF SecretsInv, SecretsTyped, Secrets!InitializeLoad, Secrets!Material, Secrets!Move,
   Secrets!FailsUnless, Secrets!Goto, Secrets!Unlock, Secrets!store
<1>1. SecretsTyped'  BY DEF Secrets!Fault, Secrets!NoFault, Secrets!ItemStatus, Secrets!Places
<1>2. SecretsLock'  BY DEF SecretsLock
<1>3. DraftFirst'  BY DEF DraftFirst, RowFits
<1>4. RowFits'  BY DEF RowFits, DraftFirst, RotationFits, OpenedFits
<1>5. OpenedFits'  BY DEF OpenedFits, Opened, RowFits, SecretsLock, DraftFirst, RotationFits
<1>6. RotationFits'  BY DEF RotationFits, SecretsLock, RowFits, DraftFirst
<1>7. CalmFits'
  <2> SUFFICES ASSUME Calm' PROVE CalmParts'  BY DEF CalmFits
  <2>1. Calm /\ ~Secrets!Fault  BY DEF Calm, Secrets!Fault, Secrets!NoFault
  <2>2. CalmParts  BY <2>1 DEF CalmFits
  <2> USE DEF CalmParts, RowFits, DraftFirst, OneRival, ItemKnown, ApplyHolds, CancelHolds,
     CancelPlaces, LeftoversDrop, Known, Holds, Holding
  <2>3. OneRival'  BY <2>1, <2>2
  <2>4. ItemKnown'  BY <2>1, <2>2
  <2>5. ApplyHolds'  BY <2>1, <2>2
  <2>6. CancelHolds'  BY <2>1, <2>2
  <2>7. CancelPlaces'  BY <2>1, <2>2
  <2>8. LeftoversDrop'  BY <2>1, <2>2
  <2>9. VaultUsed'  BY <2>1, <2>2 DEF VaultUsed, Secrets!InUse, Secrets!Referenced
  <2>10. QED  BY <2>3, <2>4, <2>5, <2>6, <2>7, <2>8, <2>9
<1>8. QED  BY <1>1, <1>2, <1>3, <1>4, <1>5, <1>6, <1>7

LEMMA InitializeRunKept == ASSUME SecretsInv, Secrets!InitializeRun PROVE SecretsInv'
<1> USE DEF SecretsInv, SecretsTyped, Secrets!InitializeRun, Secrets!Unlock, Secrets!Goto,
   Secrets!store, Secrets!Move
<1>1. SecretsTyped'
  <2>1. drawn' \in Nat /\ drawn <= drawn' /\ vault' \subseteq 1..drawn' /\ keys' \subseteq 1..drawn'
    <3>1. drawn' = drawn /\ vault' \subseteq vault  OBVIOUS
    <3>2. keys' \subseteq 1..drawn
      <4>1. at["apply"] = "formatting" /\ keys' \in {keys, {}, {seen["apply"]}}  OBVIOUS
      <4>2. seen["apply"] \in 1..drawn  BY <4>1 DEF OpenedFits
      <4>3. QED  BY <4>1, <4>2
    <3>3. QED  BY <3>1, <3>2
  <2>2. /\ repo' \in {"none", "uninitialized", "ready"}
        /\ password' \in 0..drawn' /\ pending' \in 0..drawn'
        /\ protected' \in BOOLEAN  BY <2>1
  <2>3. item' \in [status : Secrets!ItemStatus, secret : 0..drawn']
    BY <2>1 DEF Secrets!ItemStatus
  <2>4. /\ at' \in [Secrets!Actors -> Secrets!Places]
        /\ copied' \in [Secrets!Actors -> Secrets!ItemStatus]
    BY DEF Secrets!ItemStatus, Secrets!Places
  <2>5. /\ hand' \in [Secrets!Actors -> 0..drawn']
        /\ seen' \in [Secrets!Actors -> 0..drawn']
    BY <2>1
  <2>6. troubles' \in Nat /\ raced' \in BOOLEAN  BY DEF Secrets!Fault, Secrets!NoFault
  <2>7. QED  BY <2>1, <2>2, <2>3, <2>4, <2>5, <2>6
<1>2. SecretsLock'  BY DEF SecretsLock
<1>3. DraftFirst'  BY DEF DraftFirst, RowFits
<1>4. RowFits'  BY DEF RowFits, DraftFirst, RotationFits, OpenedFits
<1>5. OpenedFits'  BY DEF OpenedFits, Opened, RowFits, SecretsLock, DraftFirst, RotationFits
<1>6. RotationFits'  BY DEF RotationFits, SecretsLock, RowFits, DraftFirst
<1>7. CalmFits'
  <2> SUFFICES ASSUME Calm' PROVE CalmParts'  BY DEF CalmFits
  <2>1. Calm /\ ~Secrets!Fault  BY DEF Calm, Secrets!Fault, Secrets!NoFault
  <2>2. CalmParts  BY <2>1 DEF CalmFits
  <2> USE DEF CalmParts, RowFits, DraftFirst, OneRival, ItemKnown, ApplyHolds, CancelHolds,
     CancelPlaces, LeftoversDrop, Known, Holds, Holding
  <2>3. OneRival'  BY <2>1, <2>2
  <2>4. ItemKnown'  BY <2>1, <2>2
  <2>5. ApplyHolds'  BY <2>1, <2>2
  <2>6. CancelHolds'  BY <2>1, <2>2
  <2>7. CancelPlaces'  BY <2>1, <2>2
  <2>8. LeftoversDrop'  BY <2>1, <2>2
  <2>9. VaultUsed'  BY <2>1, <2>2 DEF VaultUsed, Secrets!InUse, Secrets!Referenced
  <2>10. QED  BY <2>3, <2>4, <2>5, <2>6, <2>7, <2>8, <2>9
<1>8. QED  BY <1>1, <1>2, <1>3, <1>4, <1>5, <1>6, <1>7

LEMMA InitializeRecordKept == ASSUME SecretsInv, Secrets!InitializeRecord PROVE SecretsInv'
<1> USE DEF SecretsInv, SecretsTyped, Secrets!InitializeRecord, Secrets!Goto, Secrets!Move
<1>1. SecretsTyped'  BY DEF Secrets!Fault, Secrets!NoFault, Secrets!ItemStatus, Secrets!Places
<1>2. SecretsLock'  BY DEF SecretsLock
<1>3. DraftFirst'  BY DEF DraftFirst, RowFits
<1>4. RowFits'  BY DEF RowFits, DraftFirst, RotationFits, OpenedFits
<1>5. OpenedFits'  BY DEF OpenedFits, Opened, RowFits, SecretsLock, DraftFirst, RotationFits
<1>6. RotationFits'  BY DEF RotationFits, SecretsLock, RowFits, DraftFirst
<1>7. CalmFits'
  <2> SUFFICES ASSUME Calm' PROVE CalmParts'  BY DEF CalmFits
  <2>1. Calm /\ ~Secrets!Fault  BY DEF Calm, Secrets!Fault, Secrets!NoFault
  <2>2. CalmParts  BY <2>1 DEF CalmFits
  <2> USE DEF CalmParts, RowFits, DraftFirst, OneRival, ItemKnown, ApplyHolds, CancelHolds,
     CancelPlaces, LeftoversDrop, Known, Holds, Holding
  <2>3. OneRival'  BY <2>1, <2>2
  <2>4. ItemKnown'  BY <2>1, <2>2
  <2>5. ApplyHolds'  BY <2>1, <2>2
  <2>6. CancelHolds'  BY <2>1, <2>2
  <2>7. CancelPlaces'  BY <2>1, <2>2
  <2>8. LeftoversDrop'  BY <2>1, <2>2
  <2>9. VaultUsed'  BY <2>1, <2>2 DEF VaultUsed, Secrets!InUse, Secrets!Referenced
  <2>10. QED  BY <2>3, <2>4, <2>5, <2>6, <2>7, <2>8, <2>9
<1>8. QED  BY <1>1, <1>2, <1>3, <1>4, <1>5, <1>6, <1>7

LEMMA ApplyTaskKept == ASSUME SecretsInv, Secrets!ApplyTask PROVE SecretsInv'
<1> USE DEF SecretsInv, SecretsTyped, Secrets!Goto, Secrets!Move
<1>1. PICK to \in {"saving", "failing"} : Secrets!Goto("apply", "tasking", to)
  BY DEF Secrets!ApplyTask
<1>2. protected' \in BOOLEAN /\ (protected' => repo # "none")
  BY DEF Secrets!ApplyTask, RowFits
<1>3. Secrets!Fault \/ Secrets!NoFault  BY DEF Secrets!ApplyTask
<1>4. UNCHANGED <<vault, drawn, repo, password, pending, keys, draft, item, lock, leftovers>>
  BY DEF Secrets!ApplyTask
<1>5. SecretsTyped'
  <2>1. drawn' \in Nat /\ drawn <= drawn' /\ vault' \subseteq 1..drawn' /\ keys' \subseteq 1..drawn'
    BY <1>1, <1>2, <1>3, <1>4
  <2>2. /\ repo' \in {"none", "uninitialized", "ready"}
        /\ password' \in 0..drawn' /\ pending' \in 0..drawn'
        /\ protected' \in BOOLEAN  BY <1>1, <1>2, <1>3, <1>4, <2>1
  <2>3. item' \in [status : Secrets!ItemStatus, secret : 0..drawn']
    BY <1>1, <1>2, <1>3, <1>4, <2>1 DEF Secrets!ItemStatus
  <2>4. /\ at' \in [Secrets!Actors -> Secrets!Places]
        /\ copied' \in [Secrets!Actors -> Secrets!ItemStatus]
    BY <1>1, <1>2, <1>3, <1>4 DEF Secrets!ItemStatus, Secrets!Places
  <2>5. /\ hand' \in [Secrets!Actors -> 0..drawn']
        /\ seen' \in [Secrets!Actors -> 0..drawn']
    BY <1>1, <1>2, <1>3, <1>4, <2>1
  <2>6. troubles' \in Nat /\ raced' \in BOOLEAN
    BY <1>1, <1>2, <1>3, <1>4 DEF Secrets!Fault, Secrets!NoFault
  <2>7. QED  BY <2>1, <2>2, <2>3, <2>4, <2>5, <2>6
<1>6. SecretsLock'  BY <1>1, <1>2, <1>3, <1>4 DEF SecretsLock
<1>7. DraftFirst'  BY <1>1, <1>2, <1>3, <1>4 DEF DraftFirst, RowFits
<1>8. RowFits'  BY <1>1, <1>2, <1>3, <1>4 DEF RowFits, DraftFirst, RotationFits, OpenedFits
<1>9. OpenedFits'
  BY <1>1, <1>2, <1>3, <1>4 DEF OpenedFits, Opened, RowFits, SecretsLock, DraftFirst,
     RotationFits
<1>10. RotationFits'
  BY <1>1, <1>2, <1>3, <1>4 DEF RotationFits, SecretsLock, RowFits, DraftFirst
<1>11. CalmFits'
  <2> SUFFICES ASSUME Calm' PROVE CalmParts'  BY <1>1, <1>2, <1>3, <1>4 DEF CalmFits
  <2>1. Calm /\ ~Secrets!Fault
    BY <1>1, <1>2, <1>3, <1>4 DEF Calm, Secrets!Fault, Secrets!NoFault
  <2>2. CalmParts  BY <1>1, <1>2, <1>3, <1>4, <2>1 DEF CalmFits
  <2> USE DEF CalmParts, RowFits, DraftFirst, OneRival, ItemKnown, ApplyHolds, CancelHolds,
     CancelPlaces, LeftoversDrop, Known, Holds, Holding
  <2>3. OneRival'  BY <1>1, <1>2, <1>3, <1>4, <2>1, <2>2
  <2>4. ItemKnown'  BY <1>1, <1>2, <1>3, <1>4, <2>1, <2>2
  <2>5. ApplyHolds'  BY <1>1, <1>2, <1>3, <1>4, <2>1, <2>2
  <2>6. CancelHolds'  BY <1>1, <1>2, <1>3, <1>4, <2>1, <2>2
  <2>7. CancelPlaces'  BY <1>1, <1>2, <1>3, <1>4, <2>1, <2>2
  <2>8. LeftoversDrop'  BY <1>1, <1>2, <1>3, <1>4, <2>1, <2>2
  <2>9. VaultUsed'
    BY <1>1, <1>2, <1>3, <1>4, <2>1, <2>2 DEF VaultUsed, Secrets!InUse,
       Secrets!Referenced
  <2>10. QED  BY <2>3, <2>4, <2>5, <2>6, <2>7, <2>8, <2>9
<1>12. QED  BY <1>5, <1>6, <1>7, <1>8, <1>9, <1>10, <1>11

LEMMA ApplySaveKept == ASSUME SecretsInv, Secrets!ApplySave PROVE SecretsInv'
<1> USE DEF SecretsInv, SecretsTyped, Secrets!ApplySave, Secrets!WriteItem, Secrets!Goto,
   Secrets!FailsUnless, Secrets!ItemThere, Secrets!Move
<1>1. SecretsTyped'  BY DEF Secrets!Fault, Secrets!NoFault, Secrets!ItemStatus, Secrets!Places
<1>2. SecretsLock'  BY DEF SecretsLock
<1>3. DraftFirst'  BY DEF DraftFirst, RowFits
<1>4. RowFits'  BY DEF RowFits, DraftFirst, RotationFits, OpenedFits
<1>5. OpenedFits'  BY DEF OpenedFits, Opened, RowFits, SecretsLock, DraftFirst, RotationFits
<1>6. RotationFits'  BY DEF RotationFits, SecretsLock, RowFits, DraftFirst
<1>7. CalmFits'
  <2> SUFFICES ASSUME Calm' PROVE CalmParts'  BY DEF CalmFits
  <2>1. Calm /\ ~Secrets!Fault  BY DEF Calm, Secrets!Fault, Secrets!NoFault
  <2>2. CalmParts  BY <2>1 DEF CalmFits
  <2> USE DEF CalmParts, RowFits, DraftFirst, OneRival, ItemKnown, ApplyHolds, CancelHolds,
     CancelPlaces, LeftoversDrop, Known, Holds, Holding
  <2>3. OneRival'  BY <2>1, <2>2
  <2>4. ItemKnown'  BY <2>1, <2>2
  <2>5. ApplyHolds'  BY <2>1, <2>2
  <2>6. CancelHolds'  BY <2>1, <2>2
  <2>7. CancelPlaces'  BY <2>1, <2>2
  <2>8. LeftoversDrop'  BY <2>1, <2>2
  <2>9. VaultUsed'  BY <2>1, <2>2 DEF VaultUsed, Secrets!InUse, Secrets!Referenced
  <2>10. QED  BY <2>3, <2>4, <2>5, <2>6, <2>7, <2>8, <2>9
<1>8. QED  BY <1>1, <1>2, <1>3, <1>4, <1>5, <1>6, <1>7

LEMMA ApplyPlanKept == ASSUME SecretsInv, Secrets!ApplyPlan PROVE SecretsInv'
<1> USE DEF SecretsInv, SecretsTyped, Secrets!ApplyPlan, Secrets!Goto, Secrets!FailsUnless,
   Secrets!store, Secrets!Move
<1>1. SecretsTyped'  BY DEF Secrets!Fault, Secrets!NoFault, Secrets!ItemStatus, Secrets!Places
<1>2. SecretsLock'  BY DEF SecretsLock
<1>3. DraftFirst'  BY DEF DraftFirst, RowFits
<1>4. RowFits'  BY DEF RowFits, DraftFirst, RotationFits, OpenedFits
<1>5. OpenedFits'  BY DEF OpenedFits, Opened, RowFits, SecretsLock, DraftFirst, RotationFits
<1>6. RotationFits'  BY DEF RotationFits, SecretsLock, RowFits, DraftFirst
<1>7. CalmFits'
  <2> SUFFICES ASSUME Calm' PROVE CalmParts'  BY DEF CalmFits
  <2>1. Calm /\ ~Secrets!Fault  BY DEF Calm, Secrets!Fault, Secrets!NoFault
  <2>2. CalmParts  BY <2>1 DEF CalmFits
  <2> USE DEF CalmParts, RowFits, DraftFirst, OneRival, ItemKnown, ApplyHolds, CancelHolds,
     CancelPlaces, LeftoversDrop, Known, Holds, Holding
  <2>3. OneRival'  BY <2>1, <2>2
  <2>4. ItemKnown'  BY <2>1, <2>2
  <2>5. ApplyHolds'  BY <2>1, <2>2
  <2>6. CancelHolds'  BY <2>1, <2>2
  <2>7. CancelPlaces'  BY <2>1, <2>2
  <2>8. LeftoversDrop'  BY <2>1, <2>2
  <2>9. VaultUsed'  BY <2>1, <2>2 DEF VaultUsed, Secrets!InUse, Secrets!Referenced
  <2>10. QED  BY <2>3, <2>4, <2>5, <2>6, <2>7, <2>8, <2>9
<1>8. QED  BY <1>1, <1>2, <1>3, <1>4, <1>5, <1>6, <1>7

LEMMA ApplyCloseKept == ASSUME SecretsInv, Secrets!ApplyClose PROVE SecretsInv'
<1> USE DEF SecretsInv, SecretsTyped, Secrets!ApplyClose, Secrets!Done, Secrets!DraftThere,
   Secrets!Move
<1>1. SecretsTyped'  BY DEF Secrets!Fault, Secrets!NoFault, Secrets!ItemStatus, Secrets!Places
<1>2. SecretsLock'  BY DEF SecretsLock
<1>3. DraftFirst'  BY DEF DraftFirst, RowFits
<1>4. RowFits'  BY DEF RowFits, DraftFirst, RotationFits, OpenedFits
<1>5. OpenedFits'  BY DEF OpenedFits, Opened, RowFits, SecretsLock, DraftFirst, RotationFits
<1>6. RotationFits'  BY DEF RotationFits, SecretsLock, RowFits, DraftFirst
<1>7. CalmFits'
  <2> SUFFICES ASSUME Calm' PROVE CalmParts'  BY DEF CalmFits
  <2>1. Calm /\ ~Secrets!Fault  BY DEF Calm, Secrets!Fault, Secrets!NoFault
  <2>2. CalmParts  BY <2>1 DEF CalmFits
  <2> USE DEF CalmParts, RowFits, DraftFirst, OneRival, ItemKnown, ApplyHolds, CancelHolds,
     CancelPlaces, LeftoversDrop, Known, Holds, Holding
  <2>3. OneRival'  BY <2>1, <2>2
  <2>4. ItemKnown'  BY <2>1, <2>2
  <2>5. ApplyHolds'  BY <2>1, <2>2
  <2>6. CancelHolds'  BY <2>1, <2>2
  <2>7. CancelPlaces'  BY <2>1, <2>2
  <2>8. LeftoversDrop'  BY <2>1, <2>2
  <2>9. VaultUsed'  BY <2>1, <2>2 DEF VaultUsed, Secrets!InUse, Secrets!Referenced
  <2>10. QED  BY <2>3, <2>4, <2>5, <2>6, <2>7, <2>8, <2>9
<1>8. QED  BY <1>1, <1>2, <1>3, <1>4, <1>5, <1>6, <1>7

LEMMA CancelReadKept == ASSUME SecretsInv, Secrets!CancelRead PROVE SecretsInv'
<1> USE DEF SecretsInv, SecretsTyped, Secrets!CancelRead, Secrets!Move, Secrets!store
<1>1. SecretsTyped'  BY DEF Secrets!Fault, Secrets!NoFault, Secrets!ItemStatus, Secrets!Places
<1>2. SecretsLock'  BY DEF SecretsLock
<1>3. DraftFirst'  BY DEF DraftFirst, RowFits
<1>4. RowFits'  BY DEF RowFits, DraftFirst, RotationFits, OpenedFits
<1>5. OpenedFits'  BY DEF OpenedFits, Opened, RowFits, SecretsLock, DraftFirst, RotationFits
<1>6. RotationFits'  BY DEF RotationFits, SecretsLock, RowFits, DraftFirst
<1>7. CalmFits'
  <2> SUFFICES ASSUME Calm' PROVE CalmParts'  BY DEF CalmFits
  <2>1. Calm /\ ~Secrets!Fault  BY DEF Calm, Secrets!Fault, Secrets!NoFault
  <2>2. CalmParts  BY <2>1 DEF CalmFits
  <2> USE DEF CalmParts, RowFits, DraftFirst, OneRival, ItemKnown, ApplyHolds, CancelHolds,
     CancelPlaces, LeftoversDrop, Known, Holds, Holding
  <2>3. OneRival'
    <3>1. Secrets!AtWork(Secrets!Rivals) = {}  BY DEF Calm
    <3>2. \A a \in Secrets!Rivals : at[a] = "idle"  BY <3>1 DEF Secrets!AtWork
    <3>3. QED  BY <2>1, <2>2, <3>2
  <2>4. ItemKnown'  BY <2>1, <2>2
  <2>5. ApplyHolds'  BY <2>1, <2>2
  <2>6. CancelHolds'  BY <2>1, <2>2
  <2>7. CancelPlaces'  BY <2>1, <2>2
  <2>8. LeftoversDrop'  BY <2>1, <2>2
  <2>9. VaultUsed'  BY <2>1, <2>2 DEF VaultUsed, Secrets!InUse, Secrets!Referenced
  <2>10. QED  BY <2>3, <2>4, <2>5, <2>6, <2>7, <2>8, <2>9
<1>8. QED  BY <1>1, <1>2, <1>3, <1>4, <1>5, <1>6, <1>7

LEMMA CancelInspectKept == ASSUME SecretsInv, Secrets!CancelInspect PROVE SecretsInv'
<1> USE DEF SecretsInv, SecretsTyped, Secrets!CancelInspect, Secrets!Goto, Secrets!store,
   Secrets!Move
<1>1. SecretsTyped'  BY DEF Secrets!Fault, Secrets!NoFault, Secrets!ItemStatus, Secrets!Places
<1>2. SecretsLock'  BY DEF SecretsLock
<1>3. DraftFirst'  BY DEF DraftFirst, RowFits
<1>4. RowFits'  BY DEF RowFits, DraftFirst, RotationFits, OpenedFits
<1>5. OpenedFits'  BY DEF OpenedFits, Opened, RowFits, SecretsLock, DraftFirst, RotationFits
<1>6. RotationFits'  BY DEF RotationFits, SecretsLock, RowFits, DraftFirst
<1>7. CalmFits'
  <2> SUFFICES ASSUME Calm' PROVE CalmParts'  BY DEF CalmFits
  <2>1. Calm /\ ~Secrets!Fault  BY DEF Calm, Secrets!Fault, Secrets!NoFault
  <2>2. CalmParts  BY <2>1 DEF CalmFits
  <2> USE DEF CalmParts, RowFits, DraftFirst, OneRival, ItemKnown, ApplyHolds, CancelHolds,
     CancelPlaces, LeftoversDrop, Known, Holds, Holding
  <2>3. OneRival'  BY <2>1, <2>2
  <2>4. ItemKnown'  BY <2>1, <2>2
  <2>5. ApplyHolds'  BY <2>1, <2>2
  <2>6. CancelHolds'  BY <2>1, <2>2
  <2>7. CancelPlaces'  BY <2>1, <2>2
  <2>8. LeftoversDrop'  BY <2>1, <2>2
  <2>9. VaultUsed'  BY <2>1, <2>2 DEF VaultUsed, Secrets!InUse, Secrets!Referenced
  <2>10. QED  BY <2>3, <2>4, <2>5, <2>6, <2>7, <2>8, <2>9
<1>8. QED  BY <1>1, <1>2, <1>3, <1>4, <1>5, <1>6, <1>7

LEMMA CancelItemKept == ASSUME SecretsInv, Secrets!CancelItem PROVE SecretsInv'
<1> USE DEF SecretsInv, SecretsTyped, Secrets!CancelItem, Secrets!WriteItem, Secrets!Goto,
   Secrets!FailsUnless, Secrets!ItemThere, Secrets!Done, Secrets!Move
<1>1. SecretsTyped'  BY DEF Secrets!Fault, Secrets!NoFault, Secrets!ItemStatus, Secrets!Places
<1>2. SecretsLock'  BY DEF SecretsLock
<1>3. DraftFirst'  BY DEF DraftFirst, RowFits
<1>4. RowFits'  BY DEF RowFits, DraftFirst, RotationFits, OpenedFits
<1>5. OpenedFits'  BY DEF OpenedFits, Opened, RowFits, SecretsLock, DraftFirst, RotationFits
<1>6. RotationFits'  BY DEF RotationFits, SecretsLock, RowFits, DraftFirst
<1>7. CalmFits'
  <2> SUFFICES ASSUME Calm' PROVE CalmParts'  BY DEF CalmFits
  <2>1. Calm /\ ~Secrets!Fault  BY DEF Calm, Secrets!Fault, Secrets!NoFault
  <2>2. CalmParts  BY <2>1 DEF CalmFits
  <2> USE DEF CalmParts, RowFits, DraftFirst, OneRival, ItemKnown, ApplyHolds, CancelHolds,
     CancelPlaces, LeftoversDrop, Known, Holds, Holding
  <2>3. OneRival'  BY <2>1, <2>2
  <2>4. ItemKnown'  BY <2>1, <2>2
  <2>5. ApplyHolds'  BY <2>1, <2>2
  <2>6. CancelHolds'  BY <2>1, <2>2
  <2>7. CancelPlaces'  BY <2>1, <2>2
  <2>8. LeftoversDrop'  BY <2>1, <2>2
  <2>9. VaultUsed'  BY <2>1, <2>2 DEF VaultUsed, Secrets!InUse, Secrets!Referenced
  <2>10. QED  BY <2>3, <2>4, <2>5, <2>6, <2>7, <2>8, <2>9
<1>8. QED  BY <1>1, <1>2, <1>3, <1>4, <1>5, <1>6, <1>7

LEMMA CancelDeleteKept == ASSUME SecretsInv, Secrets!CancelDelete PROVE SecretsInv'
<1> USE DEF SecretsInv, SecretsTyped, Secrets!CancelDelete, Secrets!Deletable, Secrets!Goto,
   Secrets!FailsUnless, Secrets!store, Secrets!Referenced, Secrets!Move
<1>1. SecretsTyped'
  <2>1. drawn' \in Nat /\ drawn <= drawn' /\ vault' \subseteq 1..drawn' /\ keys' \subseteq 1..drawn'
    <3>1. drawn' = drawn /\ vault' \subseteq vault  OBVIOUS
    <3>2. keys' \subseteq 1..drawn  OBVIOUS
    <3>3. QED  BY <3>1, <3>2
  <2>2. /\ repo' \in {"none", "uninitialized", "ready"}
        /\ password' \in 0..drawn' /\ pending' \in 0..drawn'
        /\ protected' \in BOOLEAN  BY <2>1
  <2>3. item' \in [status : Secrets!ItemStatus, secret : 0..drawn']
    BY <2>1 DEF Secrets!ItemStatus
  <2>4. /\ at' \in [Secrets!Actors -> Secrets!Places]
        /\ copied' \in [Secrets!Actors -> Secrets!ItemStatus]
    BY DEF Secrets!ItemStatus, Secrets!Places
  <2>5. /\ hand' \in [Secrets!Actors -> 0..drawn']
        /\ seen' \in [Secrets!Actors -> 0..drawn']
    BY <2>1
  <2>6. troubles' \in Nat /\ raced' \in BOOLEAN  BY DEF Secrets!Fault, Secrets!NoFault
  <2>7. QED  BY <2>1, <2>2, <2>3, <2>4, <2>5, <2>6
<1>2. SecretsLock'  BY DEF SecretsLock
<1>3. DraftFirst'  BY DEF DraftFirst, RowFits
<1>4. RowFits'  BY DEF RowFits, DraftFirst, RotationFits, OpenedFits
<1>5. OpenedFits'  BY DEF OpenedFits, Opened, RowFits, SecretsLock, DraftFirst, RotationFits
<1>6. RotationFits'  BY DEF RotationFits, SecretsLock, RowFits, DraftFirst
<1>7. CalmFits'
  <2> SUFFICES ASSUME Calm' PROVE CalmParts'  BY DEF CalmFits
  <2>1. Calm /\ ~Secrets!Fault  BY DEF Calm, Secrets!Fault, Secrets!NoFault
  <2>2. CalmParts  BY <2>1 DEF CalmFits
  <2> USE DEF CalmParts, RowFits, DraftFirst, OneRival, ItemKnown, ApplyHolds, CancelHolds,
     CancelPlaces, LeftoversDrop, Known, Holds, Holding
  <2>3. OneRival'  BY <2>1, <2>2
  <2>4. ItemKnown'  BY <2>1, <2>2
  <2>5. ApplyHolds'  BY <2>1, <2>2
  <2>6. CancelHolds'  BY <2>1, <2>2
  <2>7. CancelPlaces'  BY <2>1, <2>2
  <2>8. LeftoversDrop'  BY <2>1, <2>2
  <2>9. VaultUsed'
    <3> SUFFICES ASSUME NEW s \in vault' PROVE Secrets!InUse(s)'  BY DEF VaultUsed
    <3>1. CASE s \in vault
      <4>1. Secrets!InUse(s)  BY <3>1, <2>2 DEF VaultUsed
      <4>2. QED  BY <2>1, <3>1, <4>1 DEF SecretsLock, Secrets!InUse
    <3>2. CASE s \notin vault  BY <2>1, <3>2 DEF Secrets!InUse
    <3>3. QED  BY <3>1, <3>2
  <2>10. QED  BY <2>3, <2>4, <2>5, <2>6, <2>7, <2>8, <2>9
<1>8. QED  BY <1>1, <1>2, <1>3, <1>4, <1>5, <1>6, <1>7

LEMMA CancelRestoreKept == ASSUME SecretsInv, Secrets!CancelRestore PROVE SecretsInv'
<1> USE DEF SecretsInv, SecretsTyped, Secrets!CancelRestore, Secrets!Done, Secrets!WriteItem,
   Secrets!FailsUnless, Secrets!ItemThere, Secrets!Move
<1>1. SecretsTyped'  BY DEF Secrets!Fault, Secrets!NoFault, Secrets!ItemStatus, Secrets!Places
<1>2. SecretsLock'  BY DEF SecretsLock
<1>3. DraftFirst'  BY DEF DraftFirst, RowFits
<1>4. RowFits'  BY DEF RowFits, DraftFirst, RotationFits, OpenedFits
<1>5. OpenedFits'  BY DEF OpenedFits, Opened, RowFits, SecretsLock, DraftFirst, RotationFits
<1>6. RotationFits'  BY DEF RotationFits, SecretsLock, RowFits, DraftFirst
<1>7. CalmFits'
  <2> SUFFICES ASSUME Calm' PROVE CalmParts'  BY DEF CalmFits
  <2>1. Calm /\ ~Secrets!Fault  BY DEF Calm, Secrets!Fault, Secrets!NoFault
  <2>2. CalmParts  BY <2>1 DEF CalmFits
  <2> USE DEF CalmParts, RowFits, DraftFirst, OneRival, ItemKnown, ApplyHolds, CancelHolds,
     CancelPlaces, LeftoversDrop, Known, Holds, Holding
  <2>3. OneRival'  BY <2>1, <2>2
  <2>4. ItemKnown'  BY <2>1, <2>2
  <2>5. ApplyHolds'  BY <2>1, <2>2
  <2>6. CancelHolds'  BY <2>1, <2>2
  <2>7. CancelPlaces'  BY <2>1, <2>2
  <2>8. LeftoversDrop'  BY <2>1, <2>2
  <2>9. VaultUsed'  BY <2>1, <2>2 DEF VaultUsed, Secrets!InUse, Secrets!Referenced
  <2>10. QED  BY <2>3, <2>4, <2>5, <2>6, <2>7, <2>8, <2>9
<1>8. QED  BY <1>1, <1>2, <1>3, <1>4, <1>5, <1>6, <1>7

LEMMA CancelCloseKept == ASSUME SecretsInv, Secrets!CancelClose PROVE SecretsInv'
<1> USE DEF SecretsInv, SecretsTyped, Secrets!CancelClose, Secrets!Done, Secrets!DraftThere,
   Secrets!Move
<1>1. SecretsTyped'  BY DEF Secrets!Fault, Secrets!NoFault, Secrets!ItemStatus, Secrets!Places
<1>2. SecretsLock'  BY DEF SecretsLock
<1>3. DraftFirst'  BY DEF DraftFirst, RowFits
<1>4. RowFits'  BY DEF RowFits, DraftFirst, RotationFits, OpenedFits
<1>5. OpenedFits'  BY DEF OpenedFits, Opened, RowFits, SecretsLock, DraftFirst, RotationFits
<1>6. RotationFits'  BY DEF RotationFits, SecretsLock, RowFits, DraftFirst
<1>7. CalmFits'
  <2> SUFFICES ASSUME Calm' PROVE CalmParts'  BY DEF CalmFits
  <2>1. Calm /\ ~Secrets!Fault  BY DEF Calm, Secrets!Fault, Secrets!NoFault
  <2>2. CalmParts  BY <2>1 DEF CalmFits
  <2> USE DEF CalmParts, RowFits, DraftFirst, OneRival, ItemKnown, ApplyHolds, CancelHolds,
     CancelPlaces, LeftoversDrop, Known, Holds, Holding
  <2>3. OneRival'  BY <2>1, <2>2
  <2>4. ItemKnown'  BY <2>1, <2>2
  <2>5. ApplyHolds'  BY <2>1, <2>2
  <2>6. CancelHolds'  BY <2>1, <2>2
  <2>7. CancelPlaces'  BY <2>1, <2>2
  <2>8. LeftoversDrop'  BY <2>1, <2>2
  <2>9. VaultUsed'  BY <2>1, <2>2 DEF VaultUsed, Secrets!InUse, Secrets!Referenced
  <2>10. QED  BY <2>3, <2>4, <2>5, <2>6, <2>7, <2>8, <2>9
<1>8. QED  BY <1>1, <1>2, <1>3, <1>4, <1>5, <1>6, <1>7

LEMMA RotateBeginKept == ASSUME SecretsInv, Secrets!RotateBegin PROVE SecretsInv'
<1> USE DEF SecretsInv, SecretsTyped, Secrets!RotateBegin, Secrets!Goto, Secrets!store,
   Secrets!Move
<1>1. SecretsTyped'  BY DEF Secrets!Fault, Secrets!NoFault, Secrets!ItemStatus, Secrets!Places
<1>2. SecretsLock'  BY DEF SecretsLock
<1>3. DraftFirst'  BY DEF DraftFirst, RowFits
<1>4. RowFits'  BY DEF RowFits, DraftFirst, RotationFits, OpenedFits
<1>5. OpenedFits'  BY DEF OpenedFits, Opened, RowFits, SecretsLock, DraftFirst, RotationFits
<1>6. RotationFits'  BY DEF RotationFits, SecretsLock, RowFits, DraftFirst
<1>7. CalmFits'
  <2> SUFFICES ASSUME Calm' PROVE CalmParts'  BY DEF CalmFits
  <2>1. Calm /\ ~Secrets!Fault  BY DEF Calm, Secrets!Fault, Secrets!NoFault
  <2>2. CalmParts  BY <2>1 DEF CalmFits
  <2> USE DEF CalmParts, RowFits, DraftFirst, OneRival, ItemKnown, ApplyHolds, CancelHolds,
     CancelPlaces, LeftoversDrop, Known, Holds, Holding
  <2>3. OneRival'  BY <2>1, <2>2
  <2>4. ItemKnown'  BY <2>1, <2>2
  <2>5. ApplyHolds'  BY <2>1, <2>2
  <2>6. CancelHolds'  BY <2>1, <2>2
  <2>7. CancelPlaces'  BY <2>1, <2>2
  <2>8. LeftoversDrop'  BY <2>1, <2>2
  <2>9. VaultUsed'  BY <2>1, <2>2 DEF VaultUsed, Secrets!InUse, Secrets!Referenced
  <2>10. QED  BY <2>3, <2>4, <2>5, <2>6, <2>7, <2>8, <2>9
<1>8. QED  BY <1>1, <1>2, <1>3, <1>4, <1>5, <1>6, <1>7

LEMMA RotateLockKept == ASSUME SecretsInv, Secrets!RotateLock PROVE SecretsInv'
<1> USE DEF SecretsInv, SecretsTyped, Secrets!RotateLock, Secrets!Goto, Secrets!Lock,
   Secrets!store, Secrets!Move
<1>1. SecretsTyped'  BY DEF Secrets!Fault, Secrets!NoFault, Secrets!ItemStatus, Secrets!Places
<1>2. SecretsLock'  BY DEF SecretsLock
<1>3. DraftFirst'  BY DEF DraftFirst, RowFits
<1>4. RowFits'  BY DEF RowFits, DraftFirst, RotationFits, OpenedFits
<1>5. OpenedFits'  BY DEF OpenedFits, Opened, RowFits, SecretsLock, DraftFirst, RotationFits
<1>6. RotationFits'  BY DEF RotationFits, SecretsLock, RowFits, DraftFirst
<1>7. CalmFits'
  <2> SUFFICES ASSUME Calm' PROVE CalmParts'  BY DEF CalmFits
  <2>1. Calm /\ ~Secrets!Fault  BY DEF Calm, Secrets!Fault, Secrets!NoFault
  <2>2. CalmParts  BY <2>1 DEF CalmFits
  <2> USE DEF CalmParts, RowFits, DraftFirst, OneRival, ItemKnown, ApplyHolds, CancelHolds,
     CancelPlaces, LeftoversDrop, Known, Holds, Holding
  <2>3. OneRival'  BY <2>1, <2>2
  <2>4. ItemKnown'  BY <2>1, <2>2
  <2>5. ApplyHolds'  BY <2>1, <2>2
  <2>6. CancelHolds'  BY <2>1, <2>2
  <2>7. CancelPlaces'  BY <2>1, <2>2
  <2>8. LeftoversDrop'  BY <2>1, <2>2
  <2>9. VaultUsed'  BY <2>1, <2>2 DEF VaultUsed, Secrets!InUse, Secrets!Referenced
  <2>10. QED  BY <2>3, <2>4, <2>5, <2>6, <2>7, <2>8, <2>9
<1>8. QED  BY <1>1, <1>2, <1>3, <1>4, <1>5, <1>6, <1>7

LEMMA RotateLoadKept == ASSUME SecretsInv, Secrets!RotateLoad PROVE SecretsInv'
<1> USE DEF SecretsInv, SecretsTyped, Secrets!RotateLoad, Secrets!Material, Secrets!Move,
   Secrets!FailsUnless, Secrets!Done, Secrets!Unlock, Secrets!store
<1>1. SecretsTyped'  BY DEF Secrets!Fault, Secrets!NoFault, Secrets!ItemStatus, Secrets!Places
<1>2. SecretsLock'  BY DEF SecretsLock
<1>3. DraftFirst'  BY DEF DraftFirst, RowFits
<1>4. RowFits'  BY DEF RowFits, DraftFirst, RotationFits, OpenedFits
<1>5. OpenedFits'  BY DEF OpenedFits, Opened, RowFits, SecretsLock, DraftFirst, RotationFits
<1>6. RotationFits'  BY DEF RotationFits, SecretsLock, RowFits, DraftFirst
<1>7. CalmFits'
  <2> SUFFICES ASSUME Calm' PROVE CalmParts'  BY DEF CalmFits
  <2>1. Calm /\ ~Secrets!Fault  BY DEF Calm, Secrets!Fault, Secrets!NoFault
  <2>2. CalmParts  BY <2>1 DEF CalmFits
  <2> USE DEF CalmParts, RowFits, DraftFirst, OneRival, ItemKnown, ApplyHolds, CancelHolds,
     CancelPlaces, LeftoversDrop, Known, Holds, Holding
  <2>3. OneRival'  BY <2>1, <2>2
  <2>4. ItemKnown'  BY <2>1, <2>2
  <2>5. ApplyHolds'  BY <2>1, <2>2
  <2>6. CancelHolds'  BY <2>1, <2>2
  <2>7. CancelPlaces'  BY <2>1, <2>2
  <2>8. LeftoversDrop'  BY <2>1, <2>2
  <2>9. VaultUsed'  BY <2>1, <2>2 DEF VaultUsed, Secrets!InUse, Secrets!Referenced
  <2>10. QED  BY <2>3, <2>4, <2>5, <2>6, <2>7, <2>8, <2>9
<1>8. QED  BY <1>1, <1>2, <1>3, <1>4, <1>5, <1>6, <1>7

LEMMA RotateStoreKept == ASSUME SecretsInv, Secrets!RotateStore PROVE SecretsInv'
<1> USE DEF SecretsInv, SecretsTyped, Secrets!RotateStore, Secrets!Put, Secrets!Done,
   Secrets!Unlock, Secrets!store, Secrets!Move
<1>1. SecretsTyped'
  <2>1. drawn' \in Nat /\ drawn <= drawn' /\ vault' \subseteq 1..drawn' /\ keys' \subseteq 1..drawn'
    <3>1. drawn \in Nat /\ drawn' \in {drawn, drawn + 1} /\ vault' \in {vault, vault \cup {drawn + 1}} /\ keys' = keys
          /\ (drawn' = drawn => vault' = vault)  OBVIOUS
    <3>2. QED  BY ONLY <3>1, SecretsTyped
  <2>2. /\ repo' \in {"none", "uninitialized", "ready"}
        /\ password' \in 0..drawn' /\ pending' \in 0..drawn'
        /\ protected' \in BOOLEAN  BY <2>1
  <2>3. item' \in [status : Secrets!ItemStatus, secret : 0..drawn']
    BY <2>1 DEF Secrets!ItemStatus
  <2>4. /\ at' \in [Secrets!Actors -> Secrets!Places]
        /\ copied' \in [Secrets!Actors -> Secrets!ItemStatus]
    BY DEF Secrets!ItemStatus, Secrets!Places
  <2>5. /\ hand' \in [Secrets!Actors -> 0..drawn']
        /\ seen' \in [Secrets!Actors -> 0..drawn']
    BY <2>1
  <2>6. troubles' \in Nat /\ raced' \in BOOLEAN  BY DEF Secrets!Fault, Secrets!NoFault
  <2>7. QED  BY <2>1, <2>2, <2>3, <2>4, <2>5, <2>6
<1>2. SecretsLock'  BY DEF SecretsLock
<1>3. DraftFirst'  BY DEF DraftFirst, RowFits
<1>4. RowFits'  BY DEF RowFits, DraftFirst, RotationFits, OpenedFits
<1>5. OpenedFits'  BY DEF OpenedFits, Opened, RowFits, SecretsLock, DraftFirst, RotationFits
<1>6. RotationFits'  BY DEF RotationFits, SecretsLock, RowFits, DraftFirst
<1>7. CalmFits'
  <2> SUFFICES ASSUME Calm' PROVE CalmParts'  BY DEF CalmFits
  <2>1. Calm /\ ~Secrets!Fault  BY DEF Calm, Secrets!Fault, Secrets!NoFault
  <2>2. CalmParts  BY <2>1 DEF CalmFits
  <2> USE DEF CalmParts, RowFits, DraftFirst, OneRival, ItemKnown, ApplyHolds, CancelHolds,
     CancelPlaces, LeftoversDrop, Known, Holds, Holding
  <2>3. OneRival'  BY <2>1, <2>2
  <2>4. ItemKnown'  BY <2>1, <2>2
  <2>5. ApplyHolds'  BY <2>1, <2>2
  <2>6. CancelHolds'  BY <2>1, <2>2
  <2>7. CancelPlaces'  BY <2>1, <2>2
  <2>8. LeftoversDrop'  BY <2>1, <2>2
  <2>9. VaultUsed'
    <3> SUFFICES ASSUME NEW s \in vault' PROVE Secrets!InUse(s)'  BY DEF VaultUsed
    <3>1. CASE s \in vault
      <4>1. Secrets!InUse(s)  BY <3>1, <2>2 DEF VaultUsed
      <4>2. QED  BY <2>1, <3>1, <4>1 DEF SecretsLock, Secrets!InUse, Secrets!Referenced
    <3>2. CASE s \notin vault  BY <2>1, <3>2 DEF Secrets!InUse, Secrets!Referenced
    <3>3. QED  BY <3>1, <3>2
  <2>10. QED  BY <2>3, <2>4, <2>5, <2>6, <2>7, <2>8, <2>9
<1>8. QED  BY <1>1, <1>2, <1>3, <1>4, <1>5, <1>6, <1>7

LEMMA RotateAddKept == ASSUME SecretsInv, Secrets!RotateAdd PROVE SecretsInv'
<1> USE DEF SecretsInv, SecretsTyped, Secrets!RotateAdd, Secrets!Goto, Secrets!store,
   Secrets!Move
<1>1. SecretsTyped'
  <2>1. drawn' \in Nat /\ drawn <= drawn' /\ vault' \subseteq 1..drawn' /\ keys' \subseteq 1..drawn'
    <3>1. drawn' = drawn /\ vault' \subseteq vault  OBVIOUS
    <3>2. keys' \subseteq 1..drawn
      <4>1. at["rotate"] \in {"adding", "verifying"} /\ keys' \in {keys, keys \cup {hand["rotate"]}}  OBVIOUS
      <4>2. hand["rotate"] \in 1..drawn  BY <4>1 DEF RotationFits
      <4>3. QED  BY <4>1, <4>2
    <3>3. QED  BY <3>1, <3>2
  <2>2. /\ repo' \in {"none", "uninitialized", "ready"}
        /\ password' \in 0..drawn' /\ pending' \in 0..drawn'
        /\ protected' \in BOOLEAN  BY <2>1
  <2>3. item' \in [status : Secrets!ItemStatus, secret : 0..drawn']
    BY <2>1 DEF Secrets!ItemStatus
  <2>4. /\ at' \in [Secrets!Actors -> Secrets!Places]
        /\ copied' \in [Secrets!Actors -> Secrets!ItemStatus]
    BY DEF Secrets!ItemStatus, Secrets!Places
  <2>5. /\ hand' \in [Secrets!Actors -> 0..drawn']
        /\ seen' \in [Secrets!Actors -> 0..drawn']
    BY <2>1
  <2>6. troubles' \in Nat /\ raced' \in BOOLEAN  BY DEF Secrets!Fault, Secrets!NoFault
  <2>7. QED  BY <2>1, <2>2, <2>3, <2>4, <2>5, <2>6
<1>2. SecretsLock'  BY DEF SecretsLock
<1>3. DraftFirst'  BY DEF DraftFirst, RowFits
<1>4. RowFits'  BY DEF RowFits, DraftFirst, RotationFits, OpenedFits
<1>5. OpenedFits'  BY DEF OpenedFits, Opened, RowFits, SecretsLock, DraftFirst, RotationFits
<1>6. RotationFits'  BY DEF RotationFits, SecretsLock, RowFits, DraftFirst
<1>7. CalmFits'
  <2> SUFFICES ASSUME Calm' PROVE CalmParts'  BY DEF CalmFits
  <2>1. Calm /\ ~Secrets!Fault  BY DEF Calm, Secrets!Fault, Secrets!NoFault
  <2>2. CalmParts  BY <2>1 DEF CalmFits
  <2> USE DEF CalmParts, RowFits, DraftFirst, OneRival, ItemKnown, ApplyHolds, CancelHolds,
     CancelPlaces, LeftoversDrop, Known, Holds, Holding
  <2>3. OneRival'  BY <2>1, <2>2
  <2>4. ItemKnown'  BY <2>1, <2>2
  <2>5. ApplyHolds'  BY <2>1, <2>2
  <2>6. CancelHolds'  BY <2>1, <2>2
  <2>7. CancelPlaces'  BY <2>1, <2>2
  <2>8. LeftoversDrop'  BY <2>1, <2>2
  <2>9. VaultUsed'  BY <2>1, <2>2 DEF VaultUsed, Secrets!InUse, Secrets!Referenced
  <2>10. QED  BY <2>3, <2>4, <2>5, <2>6, <2>7, <2>8, <2>9
<1>8. QED  BY <1>1, <1>2, <1>3, <1>4, <1>5, <1>6, <1>7

LEMMA RotateCommitKept == ASSUME SecretsInv, Secrets!RotateCommit PROVE SecretsInv'
<1> USE DEF SecretsInv, SecretsTyped, Secrets!RotateCommit, Secrets!Done, Secrets!Unlock,
   Secrets!FailsUnless, Secrets!Goto, Secrets!Move
<1>1. SecretsTyped'  BY DEF Secrets!Fault, Secrets!NoFault, Secrets!ItemStatus, Secrets!Places
<1>2. SecretsLock'  BY DEF SecretsLock
<1>3. DraftFirst'  BY DEF DraftFirst, RowFits
<1>4. RowFits'  BY DEF RowFits, DraftFirst, RotationFits, OpenedFits
<1>5. OpenedFits'  BY DEF OpenedFits, Opened, RowFits, SecretsLock, DraftFirst, RotationFits
<1>6. RotationFits'  BY DEF RotationFits, SecretsLock, RowFits, DraftFirst
<1>7. CalmFits'
  <2> SUFFICES ASSUME Calm' PROVE CalmParts'  BY DEF CalmFits
  <2>1. Calm /\ ~Secrets!Fault  BY DEF Calm, Secrets!Fault, Secrets!NoFault
  <2>2. CalmParts  BY <2>1 DEF CalmFits
  <2> USE DEF CalmParts, RowFits, DraftFirst, OneRival, ItemKnown, ApplyHolds, CancelHolds,
     CancelPlaces, LeftoversDrop, Known, Holds, Holding
  <2>3. OneRival'  BY <2>1, <2>2
  <2>4. ItemKnown'  BY <2>1, <2>2
  <2>5. ApplyHolds'  BY <2>1, <2>2
  <2>6. CancelHolds'  BY <2>1, <2>2
  <2>7. CancelPlaces'  BY <2>1, <2>2
  <2>8. LeftoversDrop'  BY <2>1, <2>2
  <2>9. VaultUsed'  BY <2>1, <2>2 DEF VaultUsed, Secrets!InUse, Secrets!Referenced
  <2>10. QED  BY <2>3, <2>4, <2>5, <2>6, <2>7, <2>8, <2>9
<1>8. QED  BY <1>1, <1>2, <1>3, <1>4, <1>5, <1>6, <1>7

LEMMA RotateDiscardKept == ASSUME SecretsInv, Secrets!RotateDiscard PROVE SecretsInv'
<1> USE DEF SecretsInv, SecretsTyped, Secrets!RotateDiscard, Secrets!Done, Secrets!Unlock,
   Secrets!Discard, Secrets!store, Secrets!Move, Secrets!Deletable, Secrets!Referenced
<1>1. SecretsTyped'
  <2>1. drawn' \in Nat /\ drawn <= drawn' /\ vault' \subseteq 1..drawn' /\ keys' \subseteq 1..drawn'
    <3>1. drawn' = drawn /\ vault' \subseteq vault  OBVIOUS
    <3>2. keys' \subseteq 1..drawn  OBVIOUS
    <3>3. QED  BY <3>1, <3>2
  <2>2. /\ repo' \in {"none", "uninitialized", "ready"}
        /\ password' \in 0..drawn' /\ pending' \in 0..drawn'
        /\ protected' \in BOOLEAN  BY <2>1
  <2>3. item' \in [status : Secrets!ItemStatus, secret : 0..drawn']
    BY <2>1 DEF Secrets!ItemStatus
  <2>4. /\ at' \in [Secrets!Actors -> Secrets!Places]
        /\ copied' \in [Secrets!Actors -> Secrets!ItemStatus]
    BY DEF Secrets!ItemStatus, Secrets!Places
  <2>5. /\ hand' \in [Secrets!Actors -> 0..drawn']
        /\ seen' \in [Secrets!Actors -> 0..drawn']
    BY <2>1
  <2>6. troubles' \in Nat /\ raced' \in BOOLEAN  BY DEF Secrets!Fault, Secrets!NoFault
  <2>7. QED  BY <2>1, <2>2, <2>3, <2>4, <2>5, <2>6
<1>2. SecretsLock'  BY DEF SecretsLock
<1>3. DraftFirst'  BY DEF DraftFirst, RowFits
<1>4. RowFits'  BY DEF RowFits, DraftFirst, RotationFits, OpenedFits
<1>5. OpenedFits'  BY DEF OpenedFits, Opened, RowFits, SecretsLock, DraftFirst, RotationFits
<1>6. RotationFits'  BY DEF RotationFits, SecretsLock, RowFits, DraftFirst
<1>7. CalmFits'
  <2> SUFFICES ASSUME Calm' PROVE CalmParts'  BY DEF CalmFits
  <2>1. Calm /\ ~Secrets!Fault  BY DEF Calm, Secrets!Fault, Secrets!NoFault
  <2>2. CalmParts  BY <2>1 DEF CalmFits
  <2> USE DEF CalmParts, RowFits, DraftFirst, OneRival, ItemKnown, ApplyHolds, CancelHolds,
     CancelPlaces, LeftoversDrop, Known, Holds, Holding
  <2>3. OneRival'  BY <2>1, <2>2
  <2>4. ItemKnown'  BY <2>1, <2>2
  <2>5. ApplyHolds'  BY <2>1, <2>2
  <2>6. CancelHolds'  BY <2>1, <2>2
  <2>7. CancelPlaces'  BY <2>1, <2>2
  <2>8. LeftoversDrop'  BY <2>1, <2>2
  <2>9. VaultUsed'  BY ZenonT(60), <2>1, <2>2 DEF VaultUsed, Secrets!InUse
  <2>10. QED  BY <2>3, <2>4, <2>5, <2>6, <2>7, <2>8, <2>9
<1>8. QED  BY <1>1, <1>2, <1>3, <1>4, <1>5, <1>6, <1>7

LEMMA RevokeLockKept == ASSUME SecretsInv, Secrets!RevokeLock PROVE SecretsInv'
<1> USE DEF SecretsInv, SecretsTyped, Secrets!RevokeLock, Secrets!Goto, Secrets!Lock,
   Secrets!store, Secrets!Move
<1>1. SecretsTyped'  BY DEF Secrets!Fault, Secrets!NoFault, Secrets!ItemStatus, Secrets!Places
<1>2. SecretsLock'  BY DEF SecretsLock
<1>3. DraftFirst'  BY DEF DraftFirst, RowFits
<1>4. RowFits'  BY DEF RowFits, DraftFirst, RotationFits, OpenedFits
<1>5. OpenedFits'  BY DEF OpenedFits, Opened, RowFits, SecretsLock, DraftFirst, RotationFits
<1>6. RotationFits'  BY DEF RotationFits, SecretsLock, RowFits, DraftFirst
<1>7. CalmFits'
  <2> SUFFICES ASSUME Calm' PROVE CalmParts'  BY DEF CalmFits
  <2>1. Calm /\ ~Secrets!Fault  BY DEF Calm, Secrets!Fault, Secrets!NoFault
  <2>2. CalmParts  BY <2>1 DEF CalmFits
  <2> USE DEF CalmParts, RowFits, DraftFirst, OneRival, ItemKnown, ApplyHolds, CancelHolds,
     CancelPlaces, LeftoversDrop, Known, Holds, Holding
  <2>3. OneRival'  BY <2>1, <2>2
  <2>4. ItemKnown'  BY <2>1, <2>2
  <2>5. ApplyHolds'  BY <2>1, <2>2
  <2>6. CancelHolds'  BY <2>1, <2>2
  <2>7. CancelPlaces'  BY <2>1, <2>2
  <2>8. LeftoversDrop'  BY <2>1, <2>2
  <2>9. VaultUsed'  BY <2>1, <2>2 DEF VaultUsed, Secrets!InUse, Secrets!Referenced
  <2>10. QED  BY <2>3, <2>4, <2>5, <2>6, <2>7, <2>8, <2>9
<1>8. QED  BY <1>1, <1>2, <1>3, <1>4, <1>5, <1>6, <1>7

LEMMA RevokeLoadKept == ASSUME SecretsInv, Secrets!RevokeLoad PROVE SecretsInv'
<1> USE DEF SecretsInv, SecretsTyped, Secrets!RevokeLoad, Secrets!Material, Secrets!Move,
   Secrets!FailsUnless, Secrets!Done, Secrets!Unlock, Secrets!store
<1>1. SecretsTyped'  BY DEF Secrets!Fault, Secrets!NoFault, Secrets!ItemStatus, Secrets!Places
<1>2. SecretsLock'  BY DEF SecretsLock
<1>3. DraftFirst'  BY DEF DraftFirst, RowFits
<1>4. RowFits'  BY DEF RowFits, DraftFirst, RotationFits, OpenedFits
<1>5. OpenedFits'  BY DEF OpenedFits, Opened, RowFits, SecretsLock, DraftFirst, RotationFits
<1>6. RotationFits'  BY DEF RotationFits, SecretsLock, RowFits, DraftFirst
<1>7. CalmFits'
  <2> SUFFICES ASSUME Calm' PROVE CalmParts'  BY DEF CalmFits
  <2>1. Calm /\ ~Secrets!Fault  BY DEF Calm, Secrets!Fault, Secrets!NoFault
  <2>2. CalmParts  BY <2>1 DEF CalmFits
  <2> USE DEF CalmParts, RowFits, DraftFirst, OneRival, ItemKnown, ApplyHolds, CancelHolds,
     CancelPlaces, LeftoversDrop, Known, Holds, Holding
  <2>3. OneRival'  BY <2>1, <2>2
  <2>4. ItemKnown'  BY <2>1, <2>2
  <2>5. ApplyHolds'  BY <2>1, <2>2
  <2>6. CancelHolds'  BY <2>1, <2>2
  <2>7. CancelPlaces'  BY <2>1, <2>2
  <2>8. LeftoversDrop'  BY <2>1, <2>2
  <2>9. VaultUsed'  BY <2>1, <2>2 DEF VaultUsed, Secrets!InUse, Secrets!Referenced
  <2>10. QED  BY <2>3, <2>4, <2>5, <2>6, <2>7, <2>8, <2>9
<1>8. QED  BY <1>1, <1>2, <1>3, <1>4, <1>5, <1>6, <1>7

LEMMA RevokeRemoveKept == ASSUME SecretsInv, Secrets!RevokeRemove PROVE SecretsInv'
<1> USE DEF SecretsInv, SecretsTyped, Secrets!RevokeRemove, Secrets!Goto, Secrets!Done,
   Secrets!Unlock, Secrets!store, Secrets!Move
<1>1. SecretsTyped'
  <2>1. drawn' \in Nat /\ drawn <= drawn' /\ vault' \subseteq 1..drawn' /\ keys' \subseteq 1..drawn'
    <3>1. drawn' = drawn /\ vault' \subseteq vault  OBVIOUS
    <3>2. keys' \subseteq 1..drawn  OBVIOUS
    <3>3. QED  BY <3>1, <3>2
  <2>2. /\ repo' \in {"none", "uninitialized", "ready"}
        /\ password' \in 0..drawn' /\ pending' \in 0..drawn'
        /\ protected' \in BOOLEAN  BY <2>1
  <2>3. item' \in [status : Secrets!ItemStatus, secret : 0..drawn']
    BY <2>1 DEF Secrets!ItemStatus
  <2>4. /\ at' \in [Secrets!Actors -> Secrets!Places]
        /\ copied' \in [Secrets!Actors -> Secrets!ItemStatus]
    BY DEF Secrets!ItemStatus, Secrets!Places
  <2>5. /\ hand' \in [Secrets!Actors -> 0..drawn']
        /\ seen' \in [Secrets!Actors -> 0..drawn']
    BY <2>1
  <2>6. troubles' \in Nat /\ raced' \in BOOLEAN  BY DEF Secrets!Fault, Secrets!NoFault
  <2>7. QED  BY <2>1, <2>2, <2>3, <2>4, <2>5, <2>6
<1>2. SecretsLock'  BY DEF SecretsLock
<1>3. DraftFirst'  BY DEF DraftFirst, RowFits
<1>4. RowFits'  BY DEF RowFits, DraftFirst, RotationFits, OpenedFits
<1>5. OpenedFits'  BY DEF OpenedFits, Opened, RowFits, SecretsLock, DraftFirst, RotationFits
<1>6. RotationFits'  BY DEF RotationFits, SecretsLock, RowFits, DraftFirst
<1>7. CalmFits'
  <2> SUFFICES ASSUME Calm' PROVE CalmParts'  BY DEF CalmFits
  <2>1. Calm /\ ~Secrets!Fault  BY DEF Calm, Secrets!Fault, Secrets!NoFault
  <2>2. CalmParts  BY <2>1 DEF CalmFits
  <2> USE DEF CalmParts, RowFits, DraftFirst, OneRival, ItemKnown, ApplyHolds, CancelHolds,
     CancelPlaces, LeftoversDrop, Known, Holds, Holding
  <2>3. OneRival'  BY <2>1, <2>2
  <2>4. ItemKnown'  BY <2>1, <2>2
  <2>5. ApplyHolds'  BY <2>1, <2>2
  <2>6. CancelHolds'  BY <2>1, <2>2
  <2>7. CancelPlaces'  BY <2>1, <2>2
  <2>8. LeftoversDrop'  BY <2>1, <2>2
  <2>9. VaultUsed'  BY <2>1, <2>2 DEF VaultUsed, Secrets!InUse, Secrets!Referenced
  <2>10. QED  BY <2>3, <2>4, <2>5, <2>6, <2>7, <2>8, <2>9
<1>8. QED  BY <1>1, <1>2, <1>3, <1>4, <1>5, <1>6, <1>7

LEMMA RevokeCompleteKept == ASSUME SecretsInv, Secrets!RevokeComplete PROVE SecretsInv'
<1> USE DEF SecretsInv, SecretsTyped, Secrets!RevokeComplete, Secrets!Done, Secrets!Unlock,
   Secrets!FailsUnless, Secrets!Move
<1>1. SecretsTyped'
  <2>1. drawn' \in Nat /\ drawn <= drawn' /\ vault' \subseteq 1..drawn' /\ keys' \subseteq 1..drawn'
    <3>1. drawn' = drawn /\ vault' \subseteq vault  OBVIOUS
    <3>2. keys' \subseteq 1..drawn  OBVIOUS
    <3>3. QED  BY <3>1, <3>2
  <2>2. /\ repo' \in {"none", "uninitialized", "ready"}
        /\ password' \in 0..drawn' /\ pending' \in 0..drawn'
        /\ protected' \in BOOLEAN  BY <2>1
  <2>3. item' \in [status : Secrets!ItemStatus, secret : 0..drawn']
    BY <2>1 DEF Secrets!ItemStatus
  <2>4. /\ at' \in [Secrets!Actors -> Secrets!Places]
        /\ copied' \in [Secrets!Actors -> Secrets!ItemStatus]
    BY DEF Secrets!ItemStatus, Secrets!Places
  <2>5. /\ hand' \in [Secrets!Actors -> 0..drawn']
        /\ seen' \in [Secrets!Actors -> 0..drawn']
    BY <2>1
  <2>6. troubles' \in Nat /\ raced' \in BOOLEAN  BY DEF Secrets!Fault, Secrets!NoFault
  <2>7. QED  BY <2>1, <2>2, <2>3, <2>4, <2>5, <2>6
<1>2. SecretsLock'  BY DEF SecretsLock
<1>3. DraftFirst'  BY DEF DraftFirst, RowFits
<1>4. RowFits'  BY DEF RowFits, DraftFirst, RotationFits, OpenedFits
<1>5. OpenedFits'  BY DEF OpenedFits, Opened, RowFits, SecretsLock, DraftFirst, RotationFits
<1>6. RotationFits'  BY DEF RotationFits, SecretsLock, RowFits, DraftFirst
<1>7. CalmFits'
  <2> SUFFICES ASSUME Calm' PROVE CalmParts'  BY DEF CalmFits
  <2>1. Calm /\ ~Secrets!Fault  BY DEF Calm, Secrets!Fault, Secrets!NoFault
  <2>2. CalmParts  BY <2>1 DEF CalmFits
  <2> USE DEF CalmParts, RowFits, DraftFirst, OneRival, ItemKnown, ApplyHolds, CancelHolds,
     CancelPlaces, LeftoversDrop, Known, Holds, Holding
  <2>3. OneRival'  BY <2>1, <2>2
  <2>4. ItemKnown'  BY <2>1, <2>2
  <2>5. ApplyHolds'  BY <2>1, <2>2
  <2>6. CancelHolds'  BY <2>1, <2>2
  <2>7. CancelPlaces'  BY <2>1, <2>2
  <2>8. LeftoversDrop'  BY <2>1, <2>2
  <2>9. VaultUsed'
    <3> SUFFICES ASSUME NEW s \in vault' PROVE Secrets!InUse(s)'  BY DEF VaultUsed
    <3>1. CASE s \in vault
      <4>1. Secrets!InUse(s)  BY <3>1, <2>2 DEF VaultUsed
      <4>2. QED  BY <2>1, <3>1, <4>1 DEF SecretsLock, Secrets!InUse, Secrets!Referenced
    <3>2. CASE s \notin vault  BY <2>1, <3>2 DEF Secrets!InUse, Secrets!Referenced
    <3>3. QED  BY <3>1, <3>2
  <2>10. QED  BY <2>3, <2>4, <2>5, <2>6, <2>7, <2>8, <2>9
<1>8. QED  BY <1>1, <1>2, <1>3, <1>4, <1>5, <1>6, <1>7

LEMMA DeleteTaskKept == ASSUME SecretsInv, Secrets!DeleteTask PROVE SecretsInv'
<1> USE DEF SecretsInv, SecretsTyped, Secrets!DeleteTask, Secrets!ItemThere, Secrets!local
<1>1. SecretsTyped'
  <2>1. drawn' \in Nat /\ drawn <= drawn' /\ vault' \subseteq 1..drawn' /\ keys' \subseteq 1..drawn'  OBVIOUS
  <2>2. /\ repo' \in {"none", "uninitialized", "ready"}
        /\ password' \in 0..drawn' /\ pending' \in 0..drawn'
        /\ protected' \in BOOLEAN  BY <2>1
  <2>3. item' \in [status : Secrets!ItemStatus, secret : 0..drawn']
    BY <2>1 DEF Secrets!ItemStatus
  <2>4. /\ at' \in [Secrets!Actors -> Secrets!Places]
        /\ copied' \in [Secrets!Actors -> Secrets!ItemStatus]
    BY DEF Secrets!ItemStatus, Secrets!Places
  <2>5. /\ hand' \in [Secrets!Actors -> 0..drawn']
        /\ seen' \in [Secrets!Actors -> 0..drawn']
    BY <2>1
  <2>6. troubles' \in Nat /\ raced' \in BOOLEAN  BY DEF Secrets!Fault, Secrets!NoFault
  <2>7. QED  BY <2>1, <2>2, <2>3, <2>4, <2>5, <2>6
<1>2. SecretsLock'  BY DEF SecretsLock
<1>3. DraftFirst'  BY DEF DraftFirst, RowFits
<1>4. RowFits'  BY DEF RowFits, DraftFirst, RotationFits, OpenedFits
<1>5. OpenedFits'  BY DEF OpenedFits, Opened, RowFits, SecretsLock, DraftFirst, RotationFits
<1>6. RotationFits'  BY DEF RotationFits, SecretsLock, RowFits, DraftFirst
<1>7. CalmFits'
  <2> SUFFICES ASSUME Calm' PROVE CalmParts'  BY DEF CalmFits
  <2>1. Calm /\ ~Secrets!Fault  BY DEF Calm, Secrets!Fault, Secrets!NoFault
  <2>2. CalmParts  BY <2>1 DEF CalmFits
  <2> USE DEF CalmParts, RowFits, DraftFirst, OneRival, ItemKnown, ApplyHolds, CancelHolds,
     CancelPlaces, LeftoversDrop, Known, Holds, Holding
  <2>3. OneRival'  BY <2>1, <2>2
  <2>4. ItemKnown'  BY <2>1, <2>2
  <2>5. ApplyHolds'  BY <2>1, <2>2
  <2>6. CancelHolds'  BY <2>1, <2>2
  <2>7. CancelPlaces'  BY <2>1, <2>2
  <2>8. LeftoversDrop'  BY <2>1, <2>2
  <2>9. VaultUsed'  BY <2>1, <2>2 DEF VaultUsed, Secrets!InUse, Secrets!Referenced
  <2>10. QED  BY <2>3, <2>4, <2>5, <2>6, <2>7, <2>8, <2>9
<1>8. QED  BY <1>1, <1>2, <1>3, <1>4, <1>5, <1>6, <1>7

LEMMA RemoveRepositoryKept == ASSUME SecretsInv, Secrets!RemoveRepository PROVE SecretsInv'
<1> USE DEF SecretsInv, SecretsTyped, Secrets!RemoveRepository, Secrets!Goto, Secrets!Move
<1>1. SecretsTyped'  BY DEF Secrets!Fault, Secrets!NoFault, Secrets!ItemStatus, Secrets!Places
<1>2. SecretsLock'  BY DEF SecretsLock
<1>3. DraftFirst'  BY DEF DraftFirst, RowFits
<1>4. RowFits'  BY DEF RowFits, DraftFirst, RotationFits, OpenedFits
<1>5. OpenedFits'  BY DEF OpenedFits, Opened, RowFits, SecretsLock, DraftFirst, RotationFits
<1>6. RotationFits'  BY DEF RotationFits, SecretsLock, RowFits, DraftFirst
<1>7. CalmFits'
  <2> SUFFICES ASSUME Calm' PROVE CalmParts'  BY DEF CalmFits
  <2>1. Calm /\ ~Secrets!Fault  BY DEF Calm, Secrets!Fault, Secrets!NoFault
  <2>2. CalmParts  BY <2>1 DEF CalmFits
  <2> USE DEF CalmParts, RowFits, DraftFirst, OneRival, ItemKnown, ApplyHolds, CancelHolds,
     CancelPlaces, LeftoversDrop, Known, Holds, Holding
  <2>idle. \A a \in Secrets!Rivals : at[a] = "idle"
    <3>1. Secrets!AtWork(Secrets!Rivals) = {}  BY DEF Calm
    <3>2. QED  BY <3>1 DEF Secrets!AtWork
  <2>3. OneRival'  BY <2>1, <2>2, <2>idle
  <2>4. ItemKnown'  BY <2>1, <2>2
  <2>5. ApplyHolds'  BY <2>1, <2>2, <2>idle
  <2>6. CancelHolds'  BY <2>1, <2>2, <2>idle
  <2>7. CancelPlaces'  BY <2>1, <2>2, <2>idle
  <2>8. LeftoversDrop'  BY <2>1, <2>2
  <2>9. VaultUsed'  BY <2>1, <2>2 DEF VaultUsed, Secrets!InUse, Secrets!Referenced
  <2>10. QED  BY <2>3, <2>4, <2>5, <2>6, <2>7, <2>8, <2>9
<1>8. QED  BY <1>1, <1>2, <1>3, <1>4, <1>5, <1>6, <1>7

LEMMA RemoveSecretKept == ASSUME SecretsInv, Secrets!RemoveSecret PROVE SecretsInv'
<1> USE DEF SecretsInv, SecretsTyped, Secrets!RemoveSecret, Secrets!Discard, Secrets!Goto,
   Secrets!Done, Secrets!store, Secrets!Deletable, Secrets!Move, Secrets!Referenced
<1>1. SecretsTyped'
  <2>1. drawn' \in Nat /\ drawn <= drawn' /\ vault' \subseteq 1..drawn' /\ keys' \subseteq 1..drawn'
    <3>1. drawn' = drawn /\ vault' \subseteq vault  OBVIOUS
    <3>2. keys' \subseteq 1..drawn  OBVIOUS
    <3>3. QED  BY <3>1, <3>2
  <2>2. /\ repo' \in {"none", "uninitialized", "ready"}
        /\ password' \in 0..drawn' /\ pending' \in 0..drawn'
        /\ protected' \in BOOLEAN  BY <2>1
  <2>3. item' \in [status : Secrets!ItemStatus, secret : 0..drawn']
    BY <2>1 DEF Secrets!ItemStatus
  <2>4. /\ at' \in [Secrets!Actors -> Secrets!Places]
        /\ copied' \in [Secrets!Actors -> Secrets!ItemStatus]
    BY DEF Secrets!ItemStatus, Secrets!Places
  <2>5. /\ hand' \in [Secrets!Actors -> 0..drawn']
        /\ seen' \in [Secrets!Actors -> 0..drawn']
    BY <2>1
  <2>6. troubles' \in Nat /\ raced' \in BOOLEAN  BY DEF Secrets!Fault, Secrets!NoFault
  <2>7. QED  BY <2>1, <2>2, <2>3, <2>4, <2>5, <2>6
<1>2. SecretsLock'  BY DEF SecretsLock
<1>3. DraftFirst'  BY DEF DraftFirst, RowFits
<1>4. RowFits'  BY DEF RowFits, DraftFirst, RotationFits, OpenedFits
<1>5. OpenedFits'  BY DEF OpenedFits, Opened, RowFits, SecretsLock, DraftFirst, RotationFits
<1>6. RotationFits'  BY DEF RotationFits, SecretsLock, RowFits, DraftFirst
<1>7. CalmFits'
  <2> SUFFICES ASSUME Calm' PROVE CalmParts'  BY DEF CalmFits
  <2>1. Calm /\ ~Secrets!Fault  BY DEF Calm, Secrets!Fault, Secrets!NoFault
  <2>2. CalmParts  BY <2>1 DEF CalmFits
  <2> USE DEF CalmParts, RowFits, DraftFirst, OneRival, ItemKnown, ApplyHolds, CancelHolds,
     CancelPlaces, LeftoversDrop, Known, Holds, Holding
  <2>3. OneRival'  BY <2>1, <2>2
  <2>4. ItemKnown'  BY <2>1, <2>2
  <2>5. ApplyHolds'  BY <2>1, <2>2
  <2>6. CancelHolds'  BY <2>1, <2>2
  <2>7. CancelPlaces'  BY <2>1, <2>2
  <2>8. LeftoversDrop'  BY <2>1, <2>2
  <2>9. VaultUsed'  BY ZenonT(60), <2>1, <2>2 DEF VaultUsed, Secrets!InUse
  <2>10. QED  BY <2>3, <2>4, <2>5, <2>6, <2>7, <2>8, <2>9
<1>8. QED  BY <1>1, <1>2, <1>3, <1>4, <1>5, <1>6, <1>7

LEMMA RestartKept == ASSUME SecretsInv, Secrets!Restart PROVE SecretsInv'
<1> USE DEF SecretsInv, SecretsTyped, Secrets!Restart
<1>1. SecretsTyped'  BY DEF Secrets!Fault, Secrets!NoFault, Secrets!ItemStatus, Secrets!Places
<1>2. SecretsLock'  BY DEF SecretsLock
<1>3. DraftFirst'  BY DEF DraftFirst, RowFits
<1>4. RowFits'  BY DEF RowFits, DraftFirst, RotationFits, OpenedFits
<1>5. OpenedFits'  BY DEF OpenedFits, Opened, RowFits, SecretsLock, DraftFirst, RotationFits
<1>6. RotationFits'  BY DEF RotationFits, SecretsLock, RowFits, DraftFirst
<1>7. CalmFits'
  <2> SUFFICES ASSUME Calm' PROVE CalmParts'  BY DEF CalmFits
  <2>1. Calm /\ ~Secrets!Fault  BY DEF Calm, Secrets!Fault, Secrets!NoFault
  <2>2. CalmParts  BY <2>1 DEF CalmFits
  <2> USE DEF CalmParts, RowFits, DraftFirst, OneRival, ItemKnown, ApplyHolds, CancelHolds,
     CancelPlaces, LeftoversDrop, Known, Holds, Holding
  <2>3. OneRival'  BY <2>1, <2>2
  <2>4. ItemKnown'  BY <2>1, <2>2
  <2>5. ApplyHolds'  BY <2>1, <2>2
  <2>6. CancelHolds'  BY <2>1, <2>2
  <2>7. CancelPlaces'  BY <2>1, <2>2
  <2>8. LeftoversDrop'  BY <2>1, <2>2
  <2>9. VaultUsed'  BY <2>1, <2>2 DEF VaultUsed, Secrets!InUse, Secrets!Referenced
  <2>10. QED  BY <2>3, <2>4, <2>5, <2>6, <2>7, <2>8, <2>9
<1>8. QED  BY <1>1, <1>2, <1>3, <1>4, <1>5, <1>6, <1>7


(* At first there is no secret, and nobody is at work.                     *)
LEMMA SecretsInit == Secrets!Init => SecretsInv
<1> SUFFICES ASSUME Secrets!Init PROVE SecretsInv  OBVIOUS
<1> USE DEF Secrets!Init
<1>1. SecretsTyped
  <2>1. /\ at \in [Secrets!Actors -> Secrets!Places]
        /\ copied \in [Secrets!Actors -> Secrets!ItemStatus]
        /\ item \in [status : Secrets!ItemStatus, secret : 0..drawn]
    BY DEF Secrets!ItemStatus, Secrets!Places
  <2>2. QED  BY <2>1 DEF SecretsTyped
<1>2. SecretsLock /\ DraftFirst  BY DEF SecretsLock, DraftFirst
<1>3. RowFits /\ OpenedFits /\ RotationFits
  BY DEF RowFits, OpenedFits, Opened, RotationFits
<1>4. CalmFits
  BY DEF CalmFits, CalmParts, OneRival, ItemKnown, ApplyHolds, Holding, CancelHolds,
     CancelPlaces,
         LeftoversDrop, VaultUsed
<1>5. QED  BY <1>1, <1>2, <1>3, <1>4 DEF SecretsInv

LEMMA SecretsStutter == ASSUME SecretsInv, UNCHANGED Secrets!vars PROVE SecretsInv'
<1> USE DEF Secrets!vars, SecretsInv
<1>1. SecretsTyped' /\ SecretsLock' /\ DraftFirst'
  BY DEF SecretsTyped, SecretsLock, DraftFirst
<1>2. RowFits' /\ OpenedFits' /\ RotationFits'
  BY DEF RowFits, OpenedFits, Opened, RotationFits
<1>3. CalmFits'
  BY DEF CalmFits, Calm, CalmParts, OneRival, ItemKnown, Known, ApplyHolds, Holds,
     Holding, CancelHolds,
         CancelPlaces, LeftoversDrop, VaultUsed, Secrets!InUse, Secrets!Referenced
<1>4. QED  BY <1>1, <1>2, <1>3

(* Every step keeps the invariant.                                         *)
LEMMA SecretsStep == SecretsInv /\ [Secrets!Next]_(Secrets!vars) => SecretsInv'
<1> SUFFICES ASSUME SecretsInv, [Secrets!Next]_(Secrets!vars) PROVE SecretsInv'  OBVIOUS
<1>1. CASE Secrets!Create
  BY <1>1, StageKept, SaveDraftKept, UnstageKept
     DEF Secrets!Create
<1>2. CASE Secrets!Apply
  BY <1>2, ApplyBeginKept, ApplyReadKept, ApplyClaimKept, ApplyInspectKept,
     CreateRepositoryKept, InitializeLockKept, InitializeLoadKept, InitializeRunKept,
     InitializeRecordKept, ApplyTaskKept, ApplySaveKept, ApplyPlanKept, ApplyCloseKept
     DEF Secrets!Apply
<1>3. CASE Secrets!Cancel
  BY <1>3, CancelReadKept, CancelInspectKept, CancelItemKept, CancelDeleteKept,
     CancelRestoreKept, CancelCloseKept
     DEF Secrets!Cancel
<1>4. CASE Secrets!Rotate
  BY <1>4, RotateBeginKept, RotateLockKept, RotateLoadKept, RotateStoreKept,
     RotateAddKept, RotateCommitKept, RotateDiscardKept
     DEF Secrets!Rotate
<1>5. CASE Secrets!Revoke
  BY <1>5, RevokeLockKept, RevokeLoadKept, RevokeRemoveKept, RevokeCompleteKept
     DEF Secrets!Revoke
<1>6. CASE Secrets!Remove
  BY <1>6, DeleteTaskKept, RemoveRepositoryKept, RemoveSecretKept
     DEF Secrets!Remove
<1>7. CASE Secrets!Restart  BY <1>7, RestartKept
<1>8. CASE UNCHANGED Secrets!vars  BY <1>8, SecretsStutter
<1>9. QED  BY <1>1, <1>2, <1>3, <1>4, <1>5, <1>6, <1>7, <1>8 DEF Secrets!Next

(* Whatever stops or fails in an initialisation, a rotation, a revocation  *)
(* or a clean-up, the password of a repository in use is in the vault and  *)
(* opens it, and the old secret is kept until its key is gone; and without *)
(* a failure or a race every secret of the vault is of use to somebody.    *)
THEOREM PasswordsAlwaysSurvive == Secrets!Spec => []PasswordsSurvive
<1>1. SecretsInv => PasswordsSurvive
  <2> SUFFICES ASSUME SecretsInv PROVE PasswordsSurvive  OBVIOUS
  <2> USE DEF SecretsInv
  <2>1. Secrets!PasswordOpens
    <3>1. repo = "ready" => password \in keys  BY DEF OpenedFits, Opened
    <3>2. 0 \notin keys /\ {password, pending} \subseteq vault \cup {0}
      BY DEF SecretsTyped, RowFits
    <3>3. QED  BY <3>1, <3>2 DEF Secrets!PasswordOpens
  <2>2. Secrets!OldSecretKept  BY DEF RowFits, Secrets!OldSecretKept, Secrets!None
  <2>3. Secrets!NoSecretLeft  BY DEF CalmFits, Calm, CalmParts, VaultUsed, Secrets!NoSecretLeft
  <2>4. QED  BY <2>1, <2>2, <2>3 DEF PasswordsSurvive, Secrets!PasswordsSurvive
<1>2. QED  BY <1>1, SecretsInit, SecretsStep, PTL DEF Secrets!Spec

-----------------------------------------------------------------------------
(* ControlPlaneExport: the rows refer to each other and have their secrets *)
(* at every moment, so a snapshot of one moment does too.                  *)

SelfContained(R, s) ==
  /\ R \subseteq Export!Resources /\ Export!Closed(R)
  /\ s \in [Export!Secretful -> Nat]
  /\ \A r \in R \cap Export!Secretful : s[r] # 0

ExportRows ==
  [on : BOOLEAN, rows : SUBSET Export!Resources, secret : [Export!Secretful -> Nat],
   read : SUBSET Export!Secretful,
   moment : [rows : SUBSET Export!Resources, secret : [Export!Secretful -> Nat]]]

ExportInv ==
  /\ issued \in Nat
  /\ SelfContained(config, secret)
  /\ export \in ExportRows
  /\ export.on => /\ SelfContained(export.rows, export.secret)
                  /\ export.moment = [rows |-> export.rows, secret |-> export.secret]
  /\ BundleIsOneMoment

LEMMA ExportInit == Export!Init => ExportInv
<1> SUFFICES ASSUME Export!Init PROVE ExportInv  OBVIOUS
<1> USE DEF Export!Init
<1>1. SelfContained(config, secret)  BY DEF SelfContained, Export!Closed, Export!Secretful
<1>2. export \in ExportRows /\ ~export.on
  BY DEF ExportRows, Export!NoExport
<1>3. BundleIsOneMoment  BY DEF BundleIsOneMoment, Export!BundleIsOneMoment
<1>4. QED  BY <1>1, <1>2, <1>3 DEF ExportInv

(* The administrator: a row refers only to what is there.                  *)
LEMMA ExportWrite ==
  ASSUME ExportInv, NEW r \in Export!Resources, Export!Write(r) \/ Export!Remove(r)
  PROVE  ExportInv'
<1> USE DEF ExportInv
<1>1. SelfContained(config, secret)'
  <2> USE DEF SelfContained, Export!Closed, Export!Secretful, Export!Resources
  <2>1. CASE Export!Write(r)  BY <2>1 DEF Export!Write
  <2>2. CASE Export!Remove(r)  BY <2>2 DEF Export!Remove
  <2>3. QED  BY <2>1, <2>2
<1>2. issued' \in Nat /\ UNCHANGED <<export, sealed>>  BY DEF Export!Write, Export!Remove
<1>3. BundleIsOneMoment'  BY <1>2 DEF BundleIsOneMoment, Export!BundleIsOneMoment
<1>4. QED  BY <1>1, <1>2, <1>3 DEF SelfContained

(* The snapshot is the rows of one moment, and reading the secrets it      *)
(* names does not change it.                                               *)
LEMMA ExportRead ==
  ASSUME ExportInv,
         Export!Snapshot \/ \E r \in Export!Secretful : Export!ReadSecret(r)
  PROVE  ExportInv'
<1> USE DEF ExportInv
<1>1. UNCHANGED <<issued, config, secret, sealed>>
  BY DEF Export!Snapshot, Export!ReadSecret
<1>2. SelfContained(config, secret)' /\ BundleIsOneMoment'
  BY <1>1 DEF SelfContained, BundleIsOneMoment, Export!BundleIsOneMoment
<1>3. CASE Export!Snapshot
  <2>1. export' = [on |-> TRUE, rows |-> config, secret |-> secret, read |-> {},
                   moment |-> [rows |-> config, secret |-> secret]]
    BY <1>3 DEF Export!Snapshot, Export!Moment
  <2>2. export' \in ExportRows  BY <2>1 DEF ExportRows, SelfContained
  <2>3. QED  BY <1>1, <1>2, <2>1, <2>2
<1>4. ASSUME NEW r \in Export!Secretful, Export!ReadSecret(r) PROVE ExportInv'
  <2>1. CASE export.secret[r] \in safe
    <3>1. [export.secret EXCEPT ![r] = export.secret[r]] = export.secret  BY DEF ExportRows
    <3>2. export' = [export EXCEPT !.read = export.read \cup {r}]
      BY <1>4, <2>1, <3>1 DEF Export!ReadSecret, Export!Named, ExportRows
    <3>3. export' \in ExportRows  BY <3>2 DEF ExportRows
    <3>4. /\ export'.on = export.on /\ export'.rows = export.rows
          /\ export'.secret = export.secret /\ export'.moment = export.moment
      BY <3>2 DEF ExportRows
    <3>5. QED  BY <1>1, <1>2, <3>3, <3>4 DEF SelfContained
  <2>2. CASE export.secret[r] \notin safe
    <3>1. export' \in ExportRows /\ ~export'.on
      BY <1>4, <2>2 DEF Export!ReadSecret, Export!Named, ExportRows, Export!NoExport
    <3>2. QED  BY <1>1, <1>2, <3>1
  <2>3. QED  BY <2>1, <2>2
<1>5. QED  BY <1>3, <1>4

(* What is sealed is what was read.                                        *)
LEMMA ExportSeal == ASSUME ExportInv, Export!Seal PROVE ExportInv'
<1> USE DEF ExportInv, Export!Seal
<1>1. UNCHANGED <<issued, config, secret>>  OBVIOUS
<1>2. SelfContained(config, secret)'  BY <1>1 DEF SelfContained
<1>3. export' \in ExportRows /\ ~export'.on  BY DEF ExportRows, Export!NoExport
<1>4. \A b \in sealed' \ sealed :
        /\ b.rows = export.rows /\ b.secret = export.secret /\ b.moment = export.moment
  OBVIOUS
<1>5. BundleIsOneMoment'
  <2> SUFFICES ASSUME NEW b \in sealed'
               PROVE  /\ [rows |-> b.rows, secret |-> b.secret] = b.moment
                      /\ Export!Closed(b.rows)
                      /\ \A r \in b.rows \cap Export!Secretful : b.secret[r] # 0
    BY DEF BundleIsOneMoment, Export!BundleIsOneMoment
  <2>1. CASE b \in sealed  BY <2>1 DEF BundleIsOneMoment, Export!BundleIsOneMoment
  <2>2. CASE b \notin sealed  BY <1>4, <2>2 DEF SelfContained
  <2>3. QED  BY <2>1, <2>2
<1>6. QED  BY <1>1, <1>2, <1>3, <1>5

(* A bundle is one moment of the service, with everything it refers to,    *)
(* whatever is written, rotated or deleted while the secrets are read, and *)
(* for any number of secrets and exports.                                  *)
THEOREM BundlesAreOneMoment == Export!Spec => []BundleIsOneMoment
<1>1. ExportInv /\ [Export!Next]_(Export!vars) => ExportInv'
  <2> SUFFICES ASSUME ExportInv, [Export!Next]_(Export!vars) PROVE ExportInv'  OBVIOUS
  <2>1. CASE Export!Next
    <3>1. CASE \E s \in 1..MaxIssued : Export!Forget(s)
      <4>1. UNCHANGED <<config, secret, issued, export, sealed>>  BY <3>1 DEF Export!Forget
      <4>2. QED  BY <4>1 DEF ExportInv, SelfContained, BundleIsOneMoment,
         Export!BundleIsOneMoment
    <3>2. QED  BY <2>1, <3>1, ExportWrite, ExportRead, ExportSeal DEF Export!Next
  <2>2. CASE UNCHANGED Export!vars
    BY <2>2 DEF Export!vars, ExportInv, SelfContained, BundleIsOneMoment,
       Export!BundleIsOneMoment
  <2>3. QED  BY <2>1, <2>2
<1>2. ExportInv => BundleIsOneMoment  BY DEF ExportInv
<1>3. QED  BY <1>1, <1>2, ExportInit, PTL DEF Export!Spec

-----------------------------------------------------------------------------
(* ControlPlaneImport: what the import under way has put and made, and     *)
(* what no other import, and no start of the Agent service, can touch.     *)

Closures == {R \in SUBSET Import!Resources : Import!Closed(R)}
Pairs(n, R) == {<<n, r>> : r \in R \cap Import!Secretful}
Installed == {"cert", "commit", "undo_ca"}

ImportTyped ==
  /\ bundles \in [1..2 -> [rows : Closures, ca : BOOLEAN]]
  /\ \A b \in 1..2 : bundles[b].ca <=> "agent" \in bundles[b].rows
  /\ preview \in [1..2 -> {"none", "fresh", "used"}]
  /\ imports \in Seq(1..2) /\ Len(imports) <= MaxImports
  /\ rows \in [Import!Resources -> 0..Len(imports) \cup {Import!OwnRow}]
  /\ rows["agent"] # Import!OwnRow
  /\ stored \subseteq (Nat \ {0}) \X Import!Secretful
  /\ import \in [at : {"none", "put", "undo"} \cup Installed, n : Nat,
                 confirmed : 0..2, mine : SUBSET ((Nat \ {0}) \X Import!Secretful)]

(* The import under way has no row yet, and its secrets are in the vault.  *)
MineFits ==
  /\ import.at = "none" => import = Import!Idle
  /\ import.at # "none" =>
       /\ import.n \in 1..Len(imports) /\ import.confirmed \in 1..2
       /\ Import!By(import.n) = {}
       /\ import.mine \subseteq Pairs(import.n, Import!This.rows)
  /\ import.at \in Installed => import.mine = Pairs(import.n, Import!This.rows)
  /\ import.mine \subseteq stored

(* Who made the files of the CA.                                           *)
FilesFit ==
  /\ rows["agent"] # 0 => key = "bundle" /\ cert = "bundle"
  /\ agents = "keyed" => key = "own"
  /\ import.at = "cert" => Import!This.ca /\ key = "bundle"
  /\ import.at = "commit" /\ Import!This.ca => key = "bundle" /\ cert = "bundle"
  /\ import.at = "undo_ca" => Import!This.ca /\ key = "bundle"
  /\ import.at \in Installed /\ Import!This.ca => rows["agent"] = 0

(* A secret of an import is left, or in use, or still in hand.             *)
StoredKnown ==
  stored \subseteq left \cup import.mine \cup {<<rows[r], r>> : r \in Import!Secretful}

(* The rows of an import are those of its bundle.                          *)
RowsFrom(r, n) ==
  /\ \A q \in Import!Resources : rows[q] = n <=> q \in bundles[imports[n]].rows
  /\ preview[imports[n]] = "used"
  /\ r \in Import!Secretful => <<n, r>> \in stored
RowsComplete ==
  \A r \in Import!Resources : rows[r] \in 1..Len(imports) => RowsFrom(r, rows[r])

ImportInv ==
  ImportTyped /\ MineFits /\ FilesFit /\ StoredKnown /\ RowsComplete

USE DEF Import!NoOne, Import!Bundle, Import!Own, Import!Broken

(* A bundle has at most two secrets: as many put are all of them.          *)
LEMMA AllPutIsAll ==
  ASSUME ImportInv, import.at = "put", Import!AllPut
  PROVE  import.mine = Pairs(import.n, Import!This.rows)
<1> DEFINE n == import.n
           R == Import!This.rows \cap Import!Secretful
           P == Pairs(n, Import!This.rows)
<1>1. import.mine \subseteq P /\ Cardinality(import.mine) = Cardinality(R)
  <2>1. \A S : Import!Cardinality(S) = Cardinality(S)
    BY DEF Import!Cardinality, Cardinality
  <2>2. QED  BY <2>1 DEF ImportInv, MineFits, Import!AllPut
<1>2. \/ R = {} /\ P = {}
      \/ \E r \in Import!Secretful : R = {r} /\ P = {<<n, r>>}
      \/ /\ R = {"host"} \cup {"repository"}
         /\ P = {<<n, "host">>} \cup {<<n, "repository">>}
  BY DEF Import!Secretful, Pairs
<1> HIDE DEF R, P
<1>3. IsFiniteSet(P) /\ Cardinality(P) = Cardinality(R)
  <2>1. CASE R = {} /\ P = {}  BY <2>1, FS_EmptySet
  <2>2. CASE \E r \in Import!Secretful : R = {r} /\ P = {<<n, r>>}
    <3>1. \A x : IsFiniteSet({x}) /\ Cardinality({x}) = 1  BY FS_Singleton
    <3>2. QED  BY <2>2, <3>1
  <2>3. CASE /\ R = {"host"} \cup {"repository"}
             /\ P = {<<n, "host">>} \cup {<<n, "repository">>}
    <3>1. \A x, y : x # y => IsFiniteSet({x} \cup {y}) /\ Cardinality({x} \cup {y}) = 2
      <4> SUFFICES ASSUME NEW x, NEW y, x # y
                   PROVE  IsFiniteSet({x} \cup {y}) /\ Cardinality({x} \cup {y}) = 2
        OBVIOUS
      <4>1. IsFiniteSet({x}) /\ Cardinality({x}) = 1 /\ y \notin {x}  BY FS_Singleton
      <4>2. /\ IsFiniteSet({x} \cup {y})
            /\ Cardinality({x} \cup {y})
                 = IF y \in {x} THEN Cardinality({x}) ELSE Cardinality({x}) + 1
        BY <4>1, FS_AddElement
      <4>3. QED  BY <4>1, <4>2
    <3>2. <<n, "host">> # <<n, "repository">> /\ "host" # "repository"  OBVIOUS
    <3>3. QED  BY <2>3, <3>1, <3>2
  <2>4. QED  BY <1>2, <2>1, <2>2, <2>3
<1>4. QED  BY <1>1, <1>3, FS_Subset DEF P

LEMMA CreateHereWhole ==
  ASSUME ImportInv, NEW r \in Import!Resources, Import!CreateHere(r)
  PROVE ImportInv'
<1> USE ImportsAssumption DEF ImportInv, ImportTyped, MineFits, Installed,
        Import!Idle, Import!Begun, Import!OwnRow, Import!This, Import!By, Pairs,
        Import!CreateHere
<1>1. ImportTyped'  BY DEF Import!Resources
<1>2. MineFits'  OBVIOUS
<1>3. FilesFit'  BY DEF FilesFit, Import!Resources
<1>4. StoredKnown'  BY DEF StoredKnown
<1>5. RowsComplete'
  <2> SUFFICES ASSUME NEW q \in Import!Resources, rows'[q] \in 1..Len(imports)
               PROVE  RowsFrom(q, rows[q])' /\ rows'[q] = rows[q]
    BY DEF RowsComplete
  <2>1. /\ rows[r] = 0 /\ rows' = [rows EXCEPT ![r] = Import!OwnRow]
        /\ Import!OwnRow \notin 0..Len(imports)
    BY DEF ImportTyped, Import!OwnRow
  <2>2. q # r /\ rows'[q] = rows[q]  BY <2>1 DEF ImportTyped
  <2>3. RowsFrom(q, rows[q])  BY <2>2 DEF RowsComplete
  <2>4. \A p \in Import!Resources : rows'[p] = rows[q] <=> rows[p] = rows[q]
    BY <2>1, <2>2 DEF ImportTyped
  <2>5. QED  BY <2>2, <2>3, <2>4 DEF RowsFrom
<1>6. QED  BY <1>1, <1>2, <1>3, <1>4, <1>5

LEMMA PutWhole ==
  ASSUME ImportInv, NEW r \in Import!Secretful, Import!Put(r)
  PROVE ImportInv'
<1> USE ImportsAssumption DEF ImportInv, ImportTyped, MineFits, Installed,
        Import!Idle, Import!Begun, Import!OwnRow, Import!This, Import!By, Pairs,
        Import!Put
<1>1. ImportTyped'
  <2>1. import.n \in 1..Len(imports)  BY DEF MineFits
  <2>2. <<import.n, r>> \in (Nat \ {0}) \X Import!Secretful  BY <2>1 DEF ImportTyped
  <2>3. import' \in [at : {"none", "put", "undo"} \cup Installed, n : Nat, confirmed : 0..2,
                     mine : SUBSET ((Nat \ {0}) \X Import!Secretful)]
    BY <2>2 DEF ImportTyped
  <2>4. stored' \subseteq (Nat \ {0}) \X Import!Secretful  BY <2>2 DEF ImportTyped
  <2>5. QED  BY <2>3, <2>4 DEF ImportTyped, Import!OwnRow
<1>2. MineFits'  OBVIOUS
<1>3. FilesFit'  BY DEF FilesFit, Import!Resources
<1>4. StoredKnown'  BY DEF StoredKnown
<1>5. RowsComplete'  BY DEF RowsComplete, RowsFrom
<1>6. QED  BY <1>1, <1>2, <1>3, <1>4, <1>5

LEMMA PreflightImportWhole ==
  ASSUME ImportInv, NEW b \in 1..2, Import!PreflightImport(b)
  PROVE ImportInv'
<1> USE ImportsAssumption DEF ImportInv, ImportTyped, MineFits, Installed,
        Import!Idle, Import!Begun, Import!OwnRow, Import!This, Import!By, Pairs,
        Import!PreflightImport, Import!NoConflict, Import!Fits, Import!NoFiles
<1>1. ImportTyped'  BY DEF Import!Resources
<1>2. MineFits'  OBVIOUS
<1>3. FilesFit'  BY DEF FilesFit, Import!Resources
<1>4. StoredKnown'  BY DEF StoredKnown
<1>5. RowsComplete'  BY DEF RowsComplete, RowsFrom
<1>6. QED  BY <1>1, <1>2, <1>3, <1>4, <1>5

LEMMA ExpireWhole == ASSUME ImportInv, NEW b \in 1..2, Import!Expire(b) PROVE ImportInv'
<1> USE ImportsAssumption DEF ImportInv, ImportTyped, MineFits, Installed,
        Import!Idle, Import!Begun, Import!OwnRow, Import!This, Import!By, Pairs,
        Import!Expire
<1>1. ImportTyped'  BY DEF Import!Resources
<1>2. MineFits'  OBVIOUS
<1>3. FilesFit'  BY DEF FilesFit, Import!Resources
<1>4. StoredKnown'  BY DEF StoredKnown
<1>5. RowsComplete'  BY DEF RowsComplete, RowsFrom
<1>6. QED  BY <1>1, <1>2, <1>3, <1>4, <1>5

LEMMA BeginImportWhole ==
  ASSUME ImportInv, NEW b \in 1..2, NEW c \in 1..2, Import!BeginImport(b, c)
  PROVE ImportInv'
<1> USE ImportsAssumption DEF ImportInv, ImportTyped, MineFits, Installed,
        Import!Idle, Import!Begun, Import!OwnRow, Import!This, Import!By, Pairs,
        Import!BeginImport, Import!NoConflict, Import!Fits, Import!NoFiles
<1>1. ImportTyped'  BY DEF Import!Resources
<1>2. MineFits'  OBVIOUS
<1>3. FilesFit'  BY DEF FilesFit, Import!Resources
<1>4. StoredKnown'  BY DEF StoredKnown
<1>5. RowsComplete'
  <2> SUFFICES ASSUME NEW q \in Import!Resources, rows[q] \in 1..Len(imports')
               PROVE  RowsFrom(q, rows[q])'
    BY DEF RowsComplete
  <2>1. /\ Len(imports') = Len(imports) + 1
        /\ \A i \in 1..Len(imports) : imports'[i] = imports[i]
    BY DEF ImportTyped
  <2>2. rows[q] \in 1..Len(imports)
    BY <2>1 DEF ImportTyped, Import!OwnRow, Import!Begun
  <2>3. RowsFrom(q, rows[q])  BY <2>2 DEF RowsComplete
  <2>4. QED  BY <2>1, <2>2, <2>3 DEF RowsFrom
<1>6. QED  BY <1>1, <1>2, <1>3, <1>4, <1>5

LEMMA PutFailsWhole == ASSUME ImportInv, Import!PutFails PROVE ImportInv'
<1> USE ImportsAssumption DEF ImportInv, ImportTyped, MineFits, Installed,
        Import!Idle, Import!Begun, Import!OwnRow, Import!This, Import!By, Pairs,
        Import!PutFails, Import!Step
<1>1. ImportTyped'  BY DEF Import!Resources
<1>2. MineFits'  OBVIOUS
<1>3. FilesFit'  BY DEF FilesFit, Import!Resources
<1>4. StoredKnown'  BY DEF StoredKnown
<1>5. RowsComplete'  BY DEF RowsComplete, RowsFrom
<1>6. QED  BY <1>1, <1>2, <1>3, <1>4, <1>5

LEMMA SkipCAWhole == ASSUME ImportInv, Import!SkipCA PROVE ImportInv'
<1> USE ImportsAssumption DEF ImportInv, ImportTyped, MineFits, Installed,
        Import!Idle, Import!Begun, Import!OwnRow, Import!This, Import!By, Pairs,
        Import!SkipCA, Import!Step
<1>1. ImportTyped'  BY DEF Import!Resources
<1>2. MineFits'
  <2>1. import.mine = Pairs(import.n, Import!This.rows)  BY AllPutIsAll
  <2>2. PICK a \in {"cert", "commit", "undo"} : import' = [import EXCEPT !.at = a]
    OBVIOUS
  <2>3. QED  BY <2>1, <2>2 DEF ImportTyped, MineFits, Installed, Import!This, Import!By
<1>3. FilesFit'  BY DEF FilesFit, Import!Resources
<1>4. StoredKnown'  BY DEF StoredKnown
<1>5. RowsComplete'  BY DEF RowsComplete, RowsFrom
<1>6. QED  BY <1>1, <1>2, <1>3, <1>4, <1>5

LEMMA InstallKeyWhole == ASSUME ImportInv, Import!InstallKey PROVE ImportInv'
<1> USE ImportsAssumption DEF ImportInv, ImportTyped, MineFits, Installed,
        Import!Idle, Import!Begun, Import!OwnRow, Import!This, Import!By, Pairs,
        Import!InstallKey, Import!NoFiles, Import!Step
<1>1. ImportTyped'  BY DEF Import!Resources
<1>2. MineFits'
  <2>1. import.mine = Pairs(import.n, Import!This.rows)  BY AllPutIsAll
  <2>2. PICK a \in {"cert", "commit", "undo"} : import' = [import EXCEPT !.at = a]
    OBVIOUS
  <2>3. QED  BY <2>1, <2>2 DEF ImportTyped, MineFits, Installed, Import!This, Import!By
<1>3. FilesFit'  BY DEF FilesFit, Import!Resources
<1>4. StoredKnown'
  <2>1. UNCHANGED <<stored, left, rows>> /\ import'.mine = import.mine  BY DEF ImportTyped
  <2>2. QED  BY <2>1 DEF StoredKnown
<1>5. RowsComplete'  BY DEF RowsComplete, RowsFrom
<1>6. QED  BY <1>1, <1>2, <1>3, <1>4, <1>5

LEMMA InstallCertWhole == ASSUME ImportInv, Import!InstallCert PROVE ImportInv'
<1> USE ImportsAssumption DEF ImportInv, ImportTyped, MineFits, Installed,
        Import!Idle, Import!Begun, Import!OwnRow, Import!This, Import!By, Pairs,
        Import!InstallCert, Import!Step
<1>1. ImportTyped'  BY DEF Import!Resources
<1>2. MineFits'  OBVIOUS
<1>3. FilesFit'  BY DEF FilesFit, Import!Resources
<1>4. StoredKnown'  BY SMTT(30) DEF StoredKnown
<1>5. RowsComplete'  BY DEF RowsComplete, RowsFrom
<1>6. QED  BY <1>1, <1>2, <1>3, <1>4, <1>5

LEMMA CommitWhole == ASSUME ImportInv, Import!Commit PROVE ImportInv'
<1> USE ImportsAssumption DEF ImportInv, ImportTyped, MineFits, Installed,
        Import!Idle, Import!Begun, Import!OwnRow, Import!This, Import!By, Pairs,
        Import!Commit, Import!Consumable, Import!HasSecrets, Import!Fits,
        Import!Inserted
<1>1. ImportTyped'  BY DEF Import!Resources
<1>2. MineFits'  OBVIOUS
<1>3. FilesFit'  BY DEF FilesFit, Import!Resources
<1>4. StoredKnown'
  <2> DEFINE n == import.n
             R == Import!This.rows
  <2>1. rows' = [r \in Import!Resources |-> IF r \in R THEN n ELSE rows[r]]  OBVIOUS
  <2>2. UNCHANGED <<stored, left>> /\ import.mine = Pairs(n, R) /\ \A r \in R : rows[r] = 0
    BY DEF MineFits, Installed
  <2>3. \A r \in Import!Secretful : r \in Import!Resources
    BY DEF Import!Secretful, Import!Resources
  <2> HIDE DEF n, R
  <2>4. ASSUME NEW s \in stored
        PROVE  s \in left \cup {<<rows'[r], r>> : r \in Import!Secretful}
    <3>1. CASE s \in left  BY <3>1
    <3>2. CASE s \in import.mine
      BY <2>1, <2>2, <2>3, <3>2 DEF Pairs
    <3>3. CASE s \in {<<rows[r], r>> : r \in Import!Secretful}
      <4>1. PICK r \in Import!Secretful : s = <<rows[r], r>>  BY <3>3
      <4>2. rows[r] # 0  BY <4>1, <2>4 DEF ImportTyped
      <4>3. rows'[r] = rows[r]  BY <2>1, <2>2, <2>3, <4>2
      <4>4. QED  BY <4>1, <4>3
    <3>4. QED  BY <3>1, <3>2, <3>3 DEF StoredKnown
  <2>5. QED  BY <2>2, <2>4 DEF StoredKnown
<1>5. RowsComplete'  BY DEF RowsComplete, RowsFrom
<1>6. QED  BY <1>1, <1>2, <1>3, <1>4, <1>5

LEMMA CommitFailsWhole == ASSUME ImportInv, Import!CommitFails PROVE ImportInv'
<1> USE ImportsAssumption DEF ImportInv, ImportTyped, MineFits, Installed,
        Import!Idle, Import!Begun, Import!OwnRow, Import!This, Import!By, Pairs,
        Import!CommitFails, Import!Step
<1>1. ImportTyped'  BY DEF Import!Resources
<1>2. MineFits'  OBVIOUS
<1>3. FilesFit'  BY DEF FilesFit, Import!Resources
<1>4. StoredKnown'  BY DEF StoredKnown
<1>5. RowsComplete'  BY DEF RowsComplete, RowsFrom
<1>6. QED  BY <1>1, <1>2, <1>3, <1>4, <1>5

LEMMA UndoCAWhole == ASSUME ImportInv, Import!UndoCA PROVE ImportInv'
<1> USE ImportsAssumption DEF ImportInv, ImportTyped, MineFits, Installed,
        Import!Idle, Import!Begun, Import!OwnRow, Import!This, Import!By, Pairs,
        Import!UndoCA, Import!Step
<1>1. ImportTyped'  BY DEF Import!Resources
<1>2. MineFits'  OBVIOUS
<1>3. FilesFit'  BY DEF FilesFit, Import!Resources
<1>4. StoredKnown'  BY DEF StoredKnown
<1>5. RowsComplete'  BY DEF RowsComplete, RowsFrom
<1>6. QED  BY <1>1, <1>2, <1>3, <1>4, <1>5

LEMMA UndoWhole ==
  ASSUME ImportInv, NEW kept \in SUBSET import.mine, Import!Undo(kept)
  PROVE ImportInv'
<1> USE ImportsAssumption DEF ImportInv, ImportTyped, MineFits, Installed,
        Import!Idle, Import!Begun, Import!OwnRow, Import!This, Import!By, Pairs,
        Import!Undo, Import!Undone
<1>1. ImportTyped'  BY DEF Import!Resources
<1>2. MineFits'  OBVIOUS
<1>3. FilesFit'  BY DEF FilesFit, Import!Resources
<1>4. StoredKnown'  BY DEF StoredKnown
<1>5. RowsComplete'  BY DEF RowsComplete, RowsFrom
<1>6. QED  BY <1>1, <1>2, <1>3, <1>4, <1>5

LEMMA StartAgentsWhole == ASSUME ImportInv, Import!StartAgents PROVE ImportInv'
<1> USE ImportsAssumption DEF ImportInv, ImportTyped, MineFits, Installed,
        Import!Idle, Import!Begun, Import!OwnRow, Import!This, Import!By, Pairs,
        Import!StartAgents
<1>1. ImportTyped'  BY DEF Import!Resources
<1>2. MineFits'  OBVIOUS
<1>3. FilesFit'  BY DEF FilesFit, Import!Resources
<1>4. StoredKnown'  BY DEF StoredKnown
<1>5. RowsComplete'  BY DEF RowsComplete, RowsFrom
<1>6. QED  BY <1>1, <1>2, <1>3, <1>4, <1>5

LEMMA MakeKeyWhole == ASSUME ImportInv, Import!MakeKey PROVE ImportInv'
<1> USE ImportsAssumption DEF ImportInv, ImportTyped, MineFits, Installed,
        Import!Idle, Import!Begun, Import!OwnRow, Import!This, Import!By, Pairs,
        Import!MakeKey
<1>1. ImportTyped'  BY DEF Import!Resources
<1>2. MineFits'  OBVIOUS
<1>3. FilesFit'  BY DEF FilesFit, Import!Resources
<1>4. StoredKnown'  BY DEF StoredKnown
<1>5. RowsComplete'  BY DEF RowsComplete, RowsFrom
<1>6. QED  BY <1>1, <1>2, <1>3, <1>4, <1>5

LEMMA MakeCertWhole == ASSUME ImportInv, Import!MakeCert PROVE ImportInv'
<1> USE ImportsAssumption DEF ImportInv, ImportTyped, MineFits, Installed,
        Import!Idle, Import!Begun, Import!OwnRow, Import!This, Import!By, Pairs,
        Import!MakeCert
<1>1. ImportTyped'  BY DEF Import!Resources
<1>2. MineFits'  OBVIOUS
<1>3. FilesFit'  BY DEF FilesFit, Import!Resources
<1>4. StoredKnown'  BY DEF StoredKnown
<1>5. RowsComplete'  BY DEF RowsComplete, RowsFrom
<1>6. QED  BY <1>1, <1>2, <1>3, <1>4, <1>5

LEMMA CrashWhole == ASSUME ImportInv, Import!Crash PROVE ImportInv'
<1> USE ImportsAssumption DEF ImportInv, ImportTyped, MineFits, Installed,
        Import!Idle, Import!Begun, Import!OwnRow, Import!This, Import!By, Pairs,
        Import!Crash
<1>1. ImportTyped'  BY DEF Import!Resources
<1>2. MineFits'  OBVIOUS
<1>3. FilesFit'  BY DEF FilesFit, Import!Resources
<1>4. StoredKnown'  BY DEF StoredKnown
<1>5. RowsComplete'  BY DEF RowsComplete, RowsFrom
<1>6. QED  BY <1>1, <1>2, <1>3, <1>4, <1>5

LEMMA ImportInit == Import!Init => ImportInv
<1> SUFFICES ASSUME Import!Init PROVE ImportInv  OBVIOUS
<1> USE ImportsAssumption DEF Import!Init
<1>1. import.at = "none" /\ import.mine = {} /\ import.n = 0 /\ import.confirmed = 0
  BY DEF Import!Idle
<1>2. Len(imports) = 0 /\ imports \in Seq(1..2)  OBVIOUS
<1>3. ImportTyped
  <2>1. /\ bundles \in [1..2 -> [rows : Closures, ca : BOOLEAN]]
        /\ \A b \in 1..2 : bundles[b].ca <=> "agent" \in bundles[b].rows
    <3>1. bundles \in [1..2 -> {[rows |-> R, ca |-> "agent" \in R] : R \in Closures}]
      BY DEF Closures
    <3>2. \A b \in 1..2 : \E R \in Closures : bundles[b] = [rows |-> R, ca |-> "agent" \in R]
      BY <3>1
    <3>3. \A b \in 1..2 : /\ bundles[b] \in [rows : Closures, ca : BOOLEAN]
                          /\ bundles[b].ca <=> "agent" \in bundles[b].rows
      <4> TAKE b \in 1..2
      <4>1. PICK R \in Closures : bundles[b] = [rows |-> R, ca |-> "agent" \in R]
        BY <3>2
      <4>2. CASE "agent" \in R
        <5>1. ("agent" \in R) = TRUE  BY <4>2
        <5>2. bundles[b] = [rows |-> R, ca |-> TRUE]  BY <4>1, <5>1
        <5>3. QED  BY <4>2, <5>2
      <4>3. CASE "agent" \notin R
        <5>1. ("agent" \in R) = FALSE  BY <4>3
        <5>2. bundles[b] = [rows |-> R, ca |-> FALSE]  BY <4>1, <5>1
        <5>3. QED  BY <4>3, <5>2
      <4>4. QED  BY <4>2, <4>3
    <3>4. QED  BY <3>1, <3>3
  <2>2. import \in [at : {"none", "put", "undo"} \cup Installed, n : Nat, confirmed : 0..2,
                    mine : SUBSET ((Nat \ {0}) \X Import!Secretful)]
    BY DEF Import!Idle
  <2>3. rows["agent"] # Import!OwnRow  BY DEF Import!OwnRow, Import!Resources
  <2>4. QED  BY <1>2, <2>1, <2>2, <2>3 DEF ImportTyped
<1>4. MineFits  BY <1>1 DEF MineFits, Installed
<1>5. FilesFit  BY <1>1 DEF FilesFit, Installed, Import!Resources
<1>6. StoredKnown /\ RowsComplete  BY <1>2 DEF StoredKnown, RowsComplete
<1>7. QED  BY <1>3, <1>4, <1>5, <1>6 DEF ImportInv

(* Every step keeps the invariant.                                         *)
LEMMA ImportStep == ImportInv /\ [Import!Next]_(Import!vars) => ImportInv'
<1> SUFFICES ASSUME ImportInv, [Import!Next]_(Import!vars) PROVE ImportInv'  OBVIOUS
<1>1. CASE Import!Next
  BY <1>1, CreateHereWhole, PutWhole, PreflightImportWhole, ExpireWhole,
     BeginImportWhole,
     PutFailsWhole, SkipCAWhole, InstallKeyWhole, InstallCertWhole, CommitWhole, CommitFailsWhole,
     UndoCAWhole, UndoWhole, StartAgentsWhole, MakeKeyWhole, MakeCertWhole, CrashWhole
     DEF Import!Next
<1>2. CASE UNCHANGED Import!vars
  <2> USE <1>2 DEF Import!vars, ImportInv
  <2>1. ImportTyped'  BY DEF ImportTyped, Import!OwnRow
  <2>2. MineFits'  BY DEF MineFits, Import!This, Import!By
  <2>3. FilesFit'  BY DEF FilesFit, Import!This
  <2>4. StoredKnown' /\ RowsComplete'  BY DEF StoredKnown, RowsComplete, RowsFrom
  <2>5. QED  BY <2>1, <2>2, <2>3, <2>4
<1>3. QED  BY <1>1, <1>2

(* An import is all there or leaves nothing behind, for any number of      *)
(* imports, wherever a step fails or the service stops, and whatever is    *)
(* made by hand or started at the target meanwhile.                        *)
THEOREM ImportsAreWhole == Import!Spec => []ImportIsWhole
<1>1. ImportInv => ImportIsWhole
  <2> SUFFICES ASSUME ImportInv PROVE ImportIsWhole  OBVIOUS
  <2> USE DEF ImportInv
  <2>1. Import!RowsAreTheBundle
    <3> SUFFICES ASSUME NEW n \in DOMAIN imports, Import!By(n) # {}
                 PROVE  /\ Import!By(n) = bundles[imports[n]].rows
                        /\ Import!Closed(Import!By(n))
                        /\ preview[imports[n]] = "used"
                        /\ {<<n, r>> : r \in Import!By(n) \cap Import!Secretful} \subseteq stored
                        /\ "agent" \in Import!By(n) => key = "bundle" /\ cert = "bundle"
      BY DEF Import!RowsAreTheBundle, Import!Bundle
    <3>1. n \in 1..Len(imports) /\ imports[n] \in 1..2  BY DEF ImportTyped
    <3>2. \A r \in Import!By(n) : r \in Import!Resources /\ RowsFrom(r, n)
      BY <3>1 DEF Import!By, RowsComplete
    <3>3. bundles[imports[n]].rows \in Closures  BY <3>1 DEF ImportTyped
    <3>4. Import!By(n) = bundles[imports[n]].rows
      BY <3>2, <3>3 DEF RowsFrom, Import!By, Closures
    <3>5. Import!Closed(Import!By(n))  BY <3>3, <3>4 DEF Closures
    <3>6. "agent" \in Import!By(n) => key = "bundle" /\ cert = "bundle"
      BY <3>1 DEF Import!By, FilesFit
    <3>7. QED  BY <3>2, <3>4, <3>5, <3>6 DEF RowsFrom
  <2>2. Import!NothingIsLeft
    BY DEF Import!NothingIsLeft, Import!Idle, StoredKnown
  <2>3. QED  BY <2>1, <2>2 DEF ImportIsWhole, Import!ImportIsWhole
<1>2. QED  BY <1>1, ImportInit, ImportStep, PTL DEF Import!Spec
=============================================================================
