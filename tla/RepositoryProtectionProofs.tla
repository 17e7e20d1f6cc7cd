--------------------- MODULE RepositoryProtectionProofs ---------------------
(***************************************************************************)
(* Proofs about RepositoryProtection, for any number of runs, maintenance  *)
(* and connection jobs, edits and snapshots.  The induction carries the    *)
(* places of the runs (who holds the lock, who has an unprotected snapshot *)
(* in hand) along with PartialsAccounted: without them a status write or   *)
(* the clearing of the tags could not be told from a loss.                 *)
(***************************************************************************)
EXTENDS MCRepositoryProtection, TLAPS

(* A status that is pending names a snapshot.                              *)
LEMMA PendingSnapshot ==
  ASSUME NEW st \in Statuses, Pending(st)
  PROVE  st.snapshot \in Snapshots /\ st = Unprotected(st.snapshot)
BY DEF Statuses, Pending, Plain, Unprotected

(* The statuses the code writes are statuses.                              *)
LEMMA StatusTypes ==
  /\ Ready \in Statuses
  /\ \A k \in {"uninitialized", "disconnected", "ready", "abnormal"} : Plain(k) \in Statuses
  /\ \A s \in Snapshots : Unprotected(s) \in Statuses
BY DEF Statuses, Ready

(* The classes of actors are disjoint.                                     *)
LEMMA Classes ==
  /\ Runs \subseteq Service /\ Maintainers \subseteq Service
  /\ Connectors \subseteq Service /\ Editors \subseteq Service
  /\ \A a \in Service : a \in Actors /\ a \notin AgentRuns /\ a # None
  /\ \A a \in AgentRuns : a \in Actors /\ a \notin Service
  /\ \A a \in Maintainers \cup Connectors \cup Editors : a \notin Runs /\ a \notin AgentRuns
BY ParametersAssumption DEF Service, Actors

(* Overwriting the status keeps its type and only ever exposes snapshots.  *)
LEMMA SetStatusType ==
  ASSUME TypeOK, NEW st \in Statuses, SetStatus(st)
  PROVE  status' \in Statuses /\ exposed' \in SUBSET Snapshots /\ exposed \subseteq exposed'
<1>1. Overwritten(st) \subseteq Snapshots
  BY PendingSnapshot DEF Overwritten, TypeOK
<1> QED BY <1>1 DEF SetStatus, TypeOK

(* The ways a step of an actor of the service can treat the lock.          *)
LEMMA LockStep ==
  ASSUME TypeOK, LockHeld, NEW a \in Service, NEW to \in States,
         pc' = [pc EXCEPT ![a] = to],
         \/ lock = None /\ lock' = a /\ to \in HoldsLock
         \/ lock' = lock /\ (pc[a] \in HoldsLock <=> to \in HoldsLock)
         \/ lock' = None /\ pc[a] \in HoldsLock /\ to \notin HoldsLock
  PROVE  LockHeld'
BY Classes DEF TypeOK, LockHeld

(* The snapshot in hand follows the place of a run.                        *)
LEMMA OwnStep ==
  ASSUME TypeOK, OwnPlace, NEW r \in Runs, NEW to \in States, NEW s \in Snapshots \cup {0},
         pc' = [pc EXCEPT ![r] = to], own' = [own EXCEPT ![r] = s],
         s # 0 <=> to \in {"protecting", "recording"}
  PROVE  OwnPlace'
BY Classes DEF TypeOK, OwnPlace

(* What a step of a run does to AttemptsLeft.                              *)
LEMMA AttemptsStep ==
  ASSUME TypeOK, AttemptsLeft, NEW r \in Runs, NEW to \in States, NEW n \in 0..MaxAttempts,
         pc' = [pc EXCEPT ![r] = to], attempts' = [attempts EXCEPT ![r] = n],
         to \in {"idle", "loaded", "waiting"} => n < MaxAttempts
  PROVE  AttemptsLeft'
BY Classes DEF TypeOK, AttemptsLeft

Local == LockHeld /\ OwnPlace /\ AttemptsLeft

(* The initial state has its types and the local part of the invariant.    *)
LEMMA LocalInit == Init => TypeOK /\ Local
<1> SUFFICES ASSUME Init PROVE TypeOK /\ Local
  OBVIOUS
<1> USE ParametersAssumption
<1>1. TypeOK
  <2>1. /\ status \in Statuses
        /\ seen \in [Actors -> Statuses]
    BY StatusTypes DEF Init, Ready
  <2>2. /\ content \in [Snapshots -> {"none", "full", "partial"}]
        /\ pc \in [Actors -> States]
        /\ own \in [Actors -> Snapshots \cup {0}]
    BY DEF Init, States
  <2>3. attempts \in [Runs -> 0..MaxAttempts] /\ restarts \in 0..MaxRestarts
    BY DEF Init
  <2> QED BY <2>1, <2>2, <2>3 DEF Init, TypeOK
<1>2. LockHeld
  BY Classes DEF Init, LockHeld, HoldsLock
<1>3. OwnPlace
  BY Classes DEF Init, OwnPlace
<1>4. AttemptsLeft
  BY DEF Init, AttemptsLeft
<1> QED BY <1>1, <1>2, <1>3, <1>4 DEF Local

(* What a step of a run does to its place, the lock and its snapshot.      *)
RunMove(r, to, s, n) ==
  /\ pc' = [pc EXCEPT ![r] = to]
  /\ own' = [own EXCEPT ![r] = s]
  /\ attempts' = [attempts EXCEPT ![r] = n]
  /\ s # 0 <=> to \in {"protecting", "recording"}
  /\ to \in {"idle", "loaded", "waiting"} => n < MaxAttempts
  /\ \/ lock = None /\ lock' = r /\ to \in HoldsLock
     \/ lock' = lock /\ (pc[r] \in HoldsLock <=> to \in HoldsLock)
     \/ lock' = None /\ pc[r] \in HoldsLock /\ to \notin HoldsLock

(* The steps of a local run, reduced to where the run goes, what it holds  *)
(* and how often it tried.                                                 *)
LEMMA RunMoves ==
  ASSUME TypeOK, Local, NEW r \in Runs, RunStep(r)
  PROVE  \E to \in States, s \in Snapshots \cup {0}, n \in 0..MaxAttempts :
           RunMove(r, to, s, n)
<1> USE DEF RunMove, Goto, States, HoldsLock
<1>0. /\ r \in Service /\ own[r] \in Snapshots \cup {0} /\ attempts[r] \in 0..MaxAttempts
      /\ MaxAttempts \in Nat /\ own = [own EXCEPT ![r] = own[r]]
      /\ attempts = [attempts EXCEPT ![r] = attempts[r]] /\ 0 \notin Snapshots
      /\ own[r] # 0 <=> pc[r] \in {"protecting", "recording"}
      /\ pc[r] \in {"idle", "loaded", "waiting"} => attempts[r] < MaxAttempts
      /\ pc[r] \in HoldsLock <=> lock = r
  BY Classes, ParametersAssumption
     DEF TypeOK, Snapshots, Local, OwnPlace, AttemptsLeft, LockHeld
<1>1. CASE Load(r)
  <2> RunMove(r, "loaded", own[r], attempts[r])
    BY <1>0, <1>1 DEF Load
  <2> QED BY <1>0
<1>2. CASE Admit(r)
  <2> RunMove(r, "done", own[r], attempts[r]) \/ RunMove(r, "waiting", own[r], attempts[r])
    BY <1>0, <1>2 DEF Admit
  <2> QED BY <1>0
<1>3. CASE BeginAttempt(r)
  <2> attempts[r] + 1 \in 0..MaxAttempts
    BY <1>0, <1>3 DEF BeginAttempt
  <2> RunMove(r, IF Pending(seen[r]) THEN "tagging" ELSE "backing", own[r], attempts[r] + 1)
    BY <1>0, <1>3 DEF BeginAttempt, Acquire
  <2> QED BY <1>0
<1>4. CASE Refuse(r)
  <2> RunMove(r, "done", own[r], attempts[r])
    BY <1>0, <1>4 DEF Refuse
  <2> QED BY <1>0
<1>5. CASE TagPending(r)
  <2> RunMove(r, "done", own[r], attempts[r]) \/ RunMove(r, "marking", own[r], attempts[r])
    BY <1>0, <1>5 DEF TagPending, Leave
  <2> QED BY <1>0
<1>6. CASE MarkReady(r)
  <2> RunMove(r, "done", own[r], attempts[r]) \/ RunMove(r, "backing", own[r], attempts[r])
    BY <1>0, <1>6 DEF MarkReady, Leave
  <2> QED BY <1>0
<1>7. CASE Backup(r)
  <2>1. CASE SnapshotCreated(r) /\ UNCHANGED attempts
    <3> PICK s \in Snapshots, kind \in {"full", "partial"} :
          /\ Goto(r, "backing", NextAfter(kind))
          /\ own' = [own EXCEPT ![r] = IF kind = "partial" THEN s ELSE 0]
          /\ UNCHANGED <<lock, flag>>
      BY <2>1 DEF SnapshotCreated
    <3> RunMove(r, "protecting", s, attempts[r]) \/ RunMove(r, "clearing", 0, attempts[r])
      BY <1>0, <2>1 DEF NextAfter
    <3> QED BY <1>0
  <2>2. CASE pc[r] = "backing" /\ Leave(r) /\ UNCHANGED <<own, attempts>>
    <3> RunMove(r, "done", own[r], attempts[r])
      BY <1>0, <2>2 DEF Leave
    <3> QED BY <1>0
  <2>3. CASE /\ CanRetry(r) /\ Goto(r, "backing", "waiting") /\ lock' = None
             /\ UNCHANGED <<own, attempts>>
    <3> RunMove(r, "waiting", own[r], attempts[r])
      BY <1>0, <2>3 DEF CanRetry
    <3> QED BY <1>0
  <2> QED BY <1>7, <2>1, <2>2, <2>3 DEF Backup
<1>8. CASE ProtectPartial(r)
  <2> RunMove(r, "done", 0, attempts[r]) \/ RunMove(r, "recording", own[r], attempts[r])
    BY <1>0, <1>8 DEF ProtectPartial, Leave
  <2> QED BY <1>0
<1>9. CASE RecordUnprotected(r)
  <2> pc[r] = "recording"
    BY <1>9 DEF RecordUnprotected
  <2> RunMove(r, "done", 0, attempts[r])
    BY <1>0, <1>9 DEF RecordUnprotected, Leave
  <2> QED BY <1>0
<1>10. CASE ClearTags(r)
  <2> RunMove(r, "done", own[r], attempts[r])
    BY <1>0, <1>10 DEF ClearTags, Leave
  <2> QED BY <1>0
<1> QED
  BY <1>1, <1>2, <1>3, <1>4, <1>5, <1>6, <1>7, <1>8, <1>9, <1>10 DEF RunStep

(* A step of a local run keeps the local part of the invariant.            *)
LEMMA RunLocal ==
  ASSUME TypeOK, Local, NEW r \in Runs, RunStep(r)
  PROVE  /\ pc' \in [Actors -> States] /\ own' \in [Actors -> Snapshots \cup {0}]
         /\ attempts' \in [Runs -> 0..MaxAttempts] /\ lock' \in Actors \cup {None}
         /\ Local'
<1>1. PICK to \in States, s \in Snapshots \cup {0}, n \in 0..MaxAttempts :
        RunMove(r, to, s, n)
  BY RunMoves
<1>2. r \in Service /\ r \in Actors
  BY Classes
<1>3. LockHeld'
  BY <1>1, <1>2, LockStep DEF RunMove, Local
<1>4. OwnPlace'
  BY <1>1, <1>2, OwnStep DEF RunMove, Local
<1>5. AttemptsLeft'
  BY <1>1, <1>2, AttemptsStep DEF RunMove, Local
<1> QED BY <1>1, <1>2, <1>3, <1>4, <1>5 DEF RunMove, Local, TypeOK

(* The rest of the type invariant.                                         *)

(* A step of a local run keeps the types.                                  *)
LEMMA RunType ==
  ASSUME TypeOK, Local, NEW r \in Runs, RunStep(r)
  PROVE  TypeOK'
<1>1. /\ pc' \in [Actors -> States] /\ own' \in [Actors -> Snapshots \cup {0}]
      /\ attempts' \in [Runs -> 0..MaxAttempts] /\ lock' \in Actors \cup {None}
  BY RunLocal
<1>2. /\ status' \in Statuses /\ exposed' \in SUBSET Snapshots
      /\ content' \in [Snapshots -> {"none", "full", "partial"}]
      /\ present' \in SUBSET Snapshots /\ tagged' \in SUBSET Snapshots
      /\ damaged' \in BOOLEAN /\ flag' \in Runs \cup {None}
      /\ seen' \in [Actors -> Statuses] /\ waiters' \in SUBSET AgentRuns
      /\ restarts' \in 0..MaxRestarts
  <2> USE DEF TypeOK, Repository, Protection, Leave
  <2>0. r \in Actors
    BY Classes
  <2>1. CASE Load(r) \/ Admit(r) \/ BeginAttempt(r) \/ Refuse(r)
    BY <2>0, <2>1 DEF Load, Admit, BeginAttempt, Refuse
  <2>2. CASE TagPending(r) \/ ProtectPartial(r) \/ ClearTags(r)
    BY <2>0, <2>2 DEF TagPending, ProtectPartial, ClearTags, TagExisting
  <2>3. CASE MarkReady(r)
    <3>1. status' \in Statuses /\ exposed' \in SUBSET Snapshots
      BY <2>3, SetStatusType, StatusTypes DEF MarkReady
    <3> QED BY <3>1, <2>3 DEF MarkReady
  <2>4. CASE Backup(r)
    BY <2>0, <2>4 DEF Backup, SnapshotCreated, AddSnapshot
  <2>5. CASE RecordUnprotected(r)
    <3>1. own[r] \in Snapshots
      BY <2>0, <2>5 DEF RecordUnprotected, Local, OwnPlace
    <3>2. status' \in Statuses /\ exposed' \in SUBSET Snapshots
      BY <3>1, <2>5, SetStatusType, StatusTypes DEF RecordUnprotected
    <3> QED BY <3>2, <2>5 DEF RecordUnprotected
  <2> QED BY <2>1, <2>2, <2>3, <2>4, <2>5 DEF RunStep
<1> QED BY <1>1, <1>2 DEF TypeOK

-----------------------------------------------------------------------------
(* PartialsAccounted and ClearingSuperseded, under the steps of a run.     *)

(* A step that creates no snapshot and drops no tag keeps the account if it*)
(* settles what it no longer has in hand.                                  *)

(* A step that creates no snapshot keeps the account of the partial ones if*)
(* what leaves a hand is tagged, in the status or given up.                *)
LEMMA AccountKept ==
  ASSUME TypeOK, PartialsAccounted, content' = content, present' \subseteq present,
         tagged \subseteq tagged',
         \/ status' = status /\ exposed \subseteq exposed'
         \/ \E st \in Statuses : SetStatus(st),
         \A s \in InHand : s \in InHand' \/ s \in tagged' \/ s \in exposed'
                          \/ status' = Unprotected(s) \/ s \notin present
  PROVE  PartialsAccounted'
<1> SUFFICES ASSUME NEW s \in present', Partial(s)', s \notin tagged', s \notin exposed'
             PROVE  (status = Unprotected(s))' \/ s \in InHand'
  BY DEF PartialsAccounted
<1>1. Partial(s) /\ s \in present /\ s \notin tagged
  BY DEF Partial, Superseded, Created
<1>2. exposed \subseteq exposed'
  BY DEF SetStatus
<1>3. status = Unprotected(s) \/ s \in InHand
  BY <1>1, <1>2 DEF PartialsAccounted
<1>4. CASE s \in InHand
  BY <1>1, <1>4
<1>5. CASE status = Unprotected(s) /\ status' = status
  BY <1>5 DEF Unprotected
<1>6. CASE /\ status = Unprotected(s) /\ status' # status
           /\ \E st \in Statuses : SetStatus(st)
  <2>1. s \in Overwritten(status')
    BY <1>1, <1>6 DEF SetStatus, Overwritten, Pending, Unprotected
  <2> QED BY <2>1, <1>6 DEF SetStatus
<1> QED BY <1>3, <1>4, <1>5, <1>6

(* A run that lets go of its snapshot takes only that one out of the hands.*)
LEMMA InHandDrop ==
  ASSUME TypeOK, NEW a \in Runs \cup AgentRuns, own' = [own EXCEPT ![a] = 0]
  PROVE  \A s \in InHand : s \in InHand' \/ s = own[a]
BY DEF InHand, TypeOK, Actors

(* Hands depend on own only.                                               *)
LEMMA InHandSame == own' = own => InHand' = InHand
BY DEF InHand

(* What a new snapshot changes: it is the last, and nothing becomes less   *)
(* superseded.                                                             *)
LEMMA AddSnapshotFacts ==
  ASSUME TypeOK, NEW s \in Snapshots, NEW kind \in {"full", "partial"}, AddSnapshot(s, kind)
  PROVE  /\ \A t \in Created : t < s /\ content'[t] = content[t]
         /\ content'[s] = kind /\ s \notin Created
         /\ Created' = Created \cup {s}
         /\ \A t \in Snapshots : Superseded(t) => Superseded(t)'
<1>0. /\ Created = 1..(s - 1) /\ s \in Nat \ {0}
      /\ content' = [content EXCEPT ![s] = kind]
      /\ content \in [Snapshots -> {"none", "full", "partial"}]
      /\ Created \subseteq Snapshots
  BY DEF AddSnapshot, IsNext, Snapshots, TypeOK, Created
<1>1. \A t \in Created : t < s /\ t # s /\ content'[t] = content[t]
  <2> SUFFICES ASSUME NEW t \in Created PROVE t < s /\ t # s /\ content'[t] = content[t]
    OBVIOUS
  <2>1. t < s /\ t # s
    BY <1>0
  <2> QED BY <1>0, <2>1
<1>2. content'[s] = kind /\ s \notin Created
  BY <1>0
<1>3. Created' = Created \cup {s}
  BY <1>0, <1>1, <1>2 DEF Created
<1>4. \A t \in Snapshots : Superseded(t) => Superseded(t)'
  BY <1>1, <1>3 DEF Superseded
<1> QED BY <1>1, <1>2, <1>3, <1>4

(* A backup that creates a snapshot keeps the account: a partial one is in *)
(* hand.                                                                   *)
LEMMA AccountAdded ==
  ASSUME TypeOK, PartialsAccounted, NEW a \in Runs \cup AgentRuns, own[a] = 0,
         NEW s \in Snapshots, NEW kind \in {"full", "partial"}, AddSnapshot(s, kind),
         own' = [own EXCEPT ![a] = IF kind = "partial" THEN s ELSE 0],
         UNCHANGED <<tagged, status, exposed>>
  PROVE  PartialsAccounted'
<1> SUFFICES ASSUME NEW t \in present', Partial(t)', t \notin tagged', t \notin exposed'
             PROVE  (status = Unprotected(t))' \/ t \in InHand'
  BY DEF PartialsAccounted
<1>0. a \in Actors /\ t \in Snapshots /\ 0 \notin Snapshots
  BY DEF Actors, AddSnapshot, TypeOK, Snapshots
<1>1. CASE t = s
  <2>1. kind = "partial"
    BY <1>1, AddSnapshotFacts DEF Partial
  <2> QED BY <1>0, <1>1, <2>1 DEF InHand, TypeOK
<1>2. CASE t # s
  <2>1. Partial(t) /\ t \in present
    BY ZenonT(60), <1>0, <1>2, AddSnapshotFacts DEF Partial, AddSnapshot, Created, TypeOK
  <2>2. status = Unprotected(t) \/ t \in InHand
    BY <2>1 DEF PartialsAccounted
  <2>3. InHand \subseteq InHand'
    BY <1>0 DEF InHand, TypeOK, Actors
  <2> QED BY <2>2, <2>3 DEF Unprotected
<1> QED BY <1>1, <1>2

(* A step of a local run keeps the account of partial snapshots.           *)
LEMMA RunAccounted ==
  ASSUME TypeOK, Local, ClearingSuperseded, PartialsAccounted, NEW r \in Runs, RunStep(r)
  PROVE  PartialsAccounted'
<1> USE DEF Repository, Protection
<1>1. CASE Load(r) \/ Admit(r) \/ BeginAttempt(r) \/ Refuse(r)
  BY <1>1, AccountKept, InHandSame DEF Load, Admit, BeginAttempt, Refuse
<1>2. CASE TagPending(r)
  BY <1>2, AccountKept, InHandSame DEF TagPending, TagExisting
<1>3. CASE MarkReady(r)
  BY <1>3, AccountKept, InHandSame, StatusTypes DEF MarkReady
<1>4. CASE Backup(r)
  <2>1. own[r] = 0
    BY <1>4 DEF Backup, Local, OwnPlace
  <2>2. CASE SnapshotCreated(r)
    <3>1. PICK s \in Snapshots, kind \in {"full", "partial"} :
            /\ AddSnapshot(s, kind)
            /\ own' = [own EXCEPT ![r] = IF kind = "partial" THEN s ELSE 0]
      BY <2>2 DEF SnapshotCreated
    <3>2. UNCHANGED <<tagged, status, exposed>>
      BY <1>4 DEF Backup
    <3> QED BY <3>1, <3>2, <2>1, AccountAdded
  <2>3. CASE UNCHANGED <<content, present, own>>
    BY <2>3, <1>4, AccountKept, InHandSame DEF Backup
  <2> QED BY <1>4, <2>2, <2>3 DEF Backup
<1>5. CASE ProtectPartial(r)
  <2>1. CASE TagExisting(own[r]) /\ own' = [own EXCEPT ![r] = 0]
    <3>1. \A s \in InHand : s \in InHand' \/ s \in tagged' \/ s \notin present
      BY <2>1, InHandDrop DEF TagExisting
    <3>2. UNCHANGED <<content, present, status, exposed>>
      BY <1>5 DEF ProtectPartial
    <3> QED BY <2>1, <3>1, <3>2, AccountKept DEF TagExisting
  <2>2. CASE UNCHANGED <<tagged, own>>
    BY <2>2, <1>5, AccountKept, InHandSame DEF ProtectPartial
  <2> QED BY <1>5, <2>1, <2>2 DEF ProtectPartial
<1>6. CASE RecordUnprotected(r)
  <2>1. own[r] \in Snapshots /\ own' = [own EXCEPT ![r] = 0]
    BY <1>6, Classes DEF RecordUnprotected, Local, OwnPlace, TypeOK
  <2>2. \A s \in InHand : s \in InHand' \/ s \in exposed' \/ status' = Unprotected(s)
    BY <2>1, <1>6, InHandDrop DEF RecordUnprotected, SetStatus
  <2>3. UNCHANGED <<content, present, tagged>>
    BY <1>6 DEF RecordUnprotected
  <2>4. \/ status' = status /\ exposed \subseteq exposed'
        \/ \E st \in Statuses : SetStatus(st)
    BY <2>1, <1>6, StatusTypes DEF RecordUnprotected
  <2> QED BY <2>2, <2>3, <2>4, AccountKept
<1>7. CASE ClearTags(r)
  <2>1. UNCHANGED <<content, present, status, exposed, own>>
    BY <1>7 DEF ClearTags
  <2>2. CASE tagged' = tagged
    BY <2>1, <2>2, AccountKept, InHandSame
  <2>3. CASE tagged' = {}
    <3>1. \A s \in present : ~Partial(s)
      BY <1>7 DEF ClearTags, Goto, ClearingSuperseded, Partial, Created, TypeOK
    <3>2. \A s \in present' : ~Partial(s)'
      BY <3>1, <2>1 DEF Partial, Superseded, Created
    <3> QED BY <3>2 DEF PartialsAccounted
  <2> QED BY <1>7, <2>2, <2>3 DEF ClearTags
<1> QED BY <1>1, <1>2, <1>3, <1>4, <1>5, <1>6, <1>7 DEF RunStep

(* No new snapshot and nobody new who clears: ClearingSuperseded is kept.  *)
LEMMA ClearingKept ==
  ASSUME ClearingSuperseded, content' = content,
         \A r \in Runs : pc'[r] = "clearing" => pc[r] = "clearing"
  PROVE  ClearingSuperseded'
BY DEF ClearingSuperseded, Created, Superseded

(* A step of a local run keeps ClearingSuperseded: the lock keeps a second *)
(* backup out.                                                             *)
LEMMA RunClearing ==
  ASSUME TypeOK, Local, ClearingSuperseded, NEW r \in Runs, RunStep(r)
  PROVE  ClearingSuperseded'
<1> USE DEF Repository, Goto, Leave
<1>0. r \in Actors /\ Runs \subseteq Actors
  BY DEF Actors
<1>1. CASE Load(r) \/ Admit(r) \/ BeginAttempt(r) \/ Refuse(r)
  BY <1>0, <1>1, ClearingKept DEF Load, Admit, BeginAttempt, Refuse, TypeOK
<1>2. CASE TagPending(r) \/ MarkReady(r) \/ ProtectPartial(r) \/ RecordUnprotected(r)
  BY <1>0, <1>2, ClearingKept DEF TagPending, MarkReady, ProtectPartial, RecordUnprotected, TypeOK
<1>3. CASE ClearTags(r)
  BY <1>0, <1>3, ClearingKept DEF ClearTags, TypeOK
<1>4. CASE Backup(r)
  <2>1. CASE UNCHANGED <<content, present, own>> /\ ~SnapshotCreated(r)
    BY <1>0, <1>4, <2>1, ClearingKept DEF Backup, TypeOK
  <2>2. CASE SnapshotCreated(r)
    <3>1. PICK s \in Snapshots, kind \in {"full", "partial"} :
            AddSnapshot(s, kind) /\ Goto(r, "backing", NextAfter(kind))
      BY <2>2 DEF SnapshotCreated
    <3>2. SUFFICES ASSUME NEW q \in Runs, pc'[q] = "clearing", NEW t \in Created',
                          content'[t] = "partial"
                   PROVE  Superseded(t)'
      BY DEF ClearingSuperseded
    <3>3. q = r
      BY <3>1, <3>2, <1>0, Classes DEF Local, LockHeld, HoldsLock, TypeOK
    <3>4. kind = "full"
      BY <3>1, <3>2, <3>3, <1>0 DEF NextAfter, TypeOK
    <3>5. t < s /\ s \in Created'
      BY <3>1, <3>2, <3>4, AddSnapshotFacts
    <3> QED BY <3>1, <3>4, <3>5, AddSnapshotFacts DEF Superseded
  <2> QED BY <1>4, <2>1, <2>2 DEF Backup
<1> QED BY <1>1, <1>2, <1>3, <1>4 DEF RunStep

-----------------------------------------------------------------------------
(* Runs on an Agent: there is no local run then.                           *)

AgentMove(a, to, s) ==
  /\ pc' = [pc EXCEPT ![a] = to]
  /\ own' = [own EXCEPT ![a] = s]
  /\ s # 0 => to \in {"protecting", "reported"}
  /\ to = "protecting" => s # 0
  /\ UNCHANGED <<damaged, lock, flag, attempts, restarts>>

(* The steps of a run on an Agent, reduced to where it goes and what it    *)
(* holds.                                                                  *)
LEMMA AgentMoves ==
  ASSUME TypeOK, Local, NEW a \in AgentRuns, AgentStep(a)
  PROVE  \E to \in States, s \in Snapshots \cup {0} : AgentMove(a, to, s)
<1> USE DEF AgentMove, Goto, States, AgentUnchanged
<1>0. /\ own[a] \in Snapshots \cup {0} /\ own = [own EXCEPT ![a] = own[a]]
      /\ pc[a] \in States /\ pc = [pc EXCEPT ![a] = pc[a]] /\ 0 \notin Snapshots
      /\ own[a] # 0 => pc[a] \in {"protecting", "reported"}
      /\ pc[a] = "protecting" => own[a] # 0
  BY Classes DEF TypeOK, Snapshots, Local, OwnPlace
<1>1. CASE Dispatch(a)
  <2> AgentMove(a, "queued", own[a])
    BY <1>0, <1>1 DEF Dispatch
  <2> QED BY <1>0
<1>2. CASE Hydrate(a)
  <2> PICK to \in {"done", "tagging", "backing"} : AgentMove(a, to, own[a])
    BY <1>0, <1>2 DEF Hydrate
  <2> QED BY <1>0
<1>3. CASE AgentTagPending(a)
  <2> AgentMove(a, "backing", own[a]) \/ AgentMove(a, "done", own[a])
    BY <1>0, <1>3 DEF AgentTagPending
  <2> QED BY <1>0
<1>4. CASE AgentBackup(a)
  <2> \/ AgentMove(a, "reported", own[a])
      \/ \E s \in Snapshots : AgentMove(a, "protecting", s)
    BY <1>0, <1>4 DEF AgentBackup
  <2> QED BY <1>0
<1>5. CASE AgentProtect(a)
  <2> AgentMove(a, "reported", 0) \/ AgentMove(a, "reported", own[a])
    BY <1>0, <1>5 DEF AgentProtect
  <2> QED BY <1>0
<1>6. CASE ApplyResult(a) \/ Discard(a)
  <2> AgentMove(a, "done", 0)
    BY <1>0, <1>6 DEF ApplyResult, Discard
  <2> QED BY <1>0
<1>7. CASE DropWaiter(a)
  <2> AgentMove(a, "done", own[a]) \/ AgentMove(a, pc[a], own[a])
    BY <1>0, <1>7 DEF DropWaiter
  <2> QED BY <1>0
<1> QED BY <1>1, <1>2, <1>3, <1>4, <1>5, <1>6, <1>7 DEF AgentStep

(* A step of a run on an Agent keeps the invariant.                        *)
LEMMA AgentInvariant ==
  ASSUME IInv, NEW a \in AgentRuns, AgentStep(a)
  PROVE  IInv'
<1> USE DEF IInv, Local, AgentUnchanged
<1>0. a \in Actors /\ a \notin Service /\ Runs = {}
  BY Classes, OneTarget
<1>1. PICK to \in States, s \in Snapshots \cup {0} : AgentMove(a, to, s)
  BY AgentMoves
<1>2. /\ pc' \in [Actors -> States] /\ own' \in [Actors -> Snapshots \cup {0}]
      /\ UNCHANGED <<damaged, lock, flag, attempts, restarts>>
  BY <1>0, <1>1 DEF AgentMove, TypeOK
<1>3. LockHeld'
  BY <1>0, <1>1, Classes DEF AgentMove, LockHeld, TypeOK
<1>4. OwnPlace'
  BY <1>0, <1>1, Classes DEF AgentMove, OwnPlace, TypeOK
<1>5. AttemptsLeft' /\ ClearingSuperseded'
  BY <1>0 DEF AttemptsLeft, ClearingSuperseded
<1>6. Claim(a) \subseteq Statuses
  BY <1>0, StatusTypes DEF Claim, TypeOK
<1>7. /\ status' \in Statuses /\ exposed' \in SUBSET Snapshots
      /\ content' \in [Snapshots -> {"none", "full", "partial"}]
      /\ present' \in SUBSET Snapshots /\ tagged' \in SUBSET Snapshots
      /\ seen' \in [Actors -> Statuses] /\ waiters' \in SUBSET AgentRuns
  <2> USE DEF TypeOK, Protection
  <2>1. CASE Dispatch(a) \/ Hydrate(a) \/ DropWaiter(a) \/ Discard(a)
    BY <1>0, <2>1 DEF Dispatch, Hydrate, DropWaiter, Discard
  <2>2. CASE AgentTagPending(a) \/ AgentProtect(a)
    BY <2>2 DEF AgentTagPending, AgentProtect, TagExisting
  <2>3. CASE AgentBackup(a)
    BY <2>3 DEF AgentBackup, AddSnapshot
  <2>4. CASE ApplyResult(a)
    <3>1. status' \in Statuses /\ exposed' \in SUBSET Snapshots
      BY <1>0, <1>6, <2>4, SetStatusType DEF ApplyResult
    <3> QED BY <3>1, <2>4 DEF ApplyResult
  <2> QED BY <2>1, <2>2, <2>3, <2>4 DEF AgentStep
<1>8. PartialsAccounted'
  <2> USE DEF Protection
  <2>1. CASE Dispatch(a) \/ Hydrate(a) \/ DropWaiter(a)
    BY <2>1, AccountKept, InHandSame DEF Dispatch, Hydrate, DropWaiter
  <2>2. CASE AgentTagPending(a)
    BY <2>2, AccountKept, InHandSame DEF AgentTagPending, TagExisting
  <2>3. CASE AgentBackup(a)
    <3>1. own[a] = 0 /\ own = [own EXCEPT ![a] = own[a]]
      BY <1>0, <2>3 DEF AgentBackup, Goto, OwnPlace, TypeOK
    <3>2. UNCHANGED <<tagged, status, exposed>>
      BY <2>3 DEF AgentBackup
    <3>3. CASE UNCHANGED <<content, present, own>>
      BY <3>2, <3>3, AccountKept, InHandSame
    <3>4. CASE \E t \in Snapshots : AddSnapshot(t, "full") /\ UNCHANGED own
      <4> PICK t \in Snapshots : AddSnapshot(t, "full") /\ UNCHANGED own
        BY <3>4
      <4> DEFINE kind == "full"
      <4>1. own' = [own EXCEPT ![a] = IF kind = "partial" THEN t ELSE 0]
        BY <3>1
      <4> QED BY <3>1, <3>2, <4>1, AccountAdded
    <3>5. CASE \E t \in Snapshots : /\ AddSnapshot(t, "partial")
                                    /\ own' = [own EXCEPT ![a] = t]
      BY <3>1, <3>2, <3>5, AccountAdded
    <3> QED BY <2>3, <3>3, <3>4, <3>5 DEF AgentBackup
  <2>4. CASE AgentProtect(a)
    <3>1. UNCHANGED <<content, present, status, exposed>> /\ tagged \subseteq tagged'
      BY <2>4 DEF AgentProtect, TagExisting
    <3>2. \A t \in InHand : t \in InHand' \/ t \in tagged' \/ t \notin present
      BY <2>4, InHandDrop, InHandSame DEF AgentProtect, TagExisting
    <3> QED BY <3>1, <3>2, AccountKept
  <2>5. CASE ApplyResult(a)
    <3>1. UNCHANGED <<content, present, tagged>> /\ own' = [own EXCEPT ![a] = 0]
      BY <2>5 DEF ApplyResult
    <3>2. own[a] # 0 => own[a] \in exposed' \/ status' = Unprotected(own[a])
      BY <2>5 DEF ApplyResult, Claim, SetStatus
    <3>3. \A t \in InHand : t \in InHand' \/ t \in exposed' \/ status' = Unprotected(t)
      BY <3>1, <3>2, InHandDrop DEF InHand
    <3>4. \/ status' = status /\ exposed \subseteq exposed'
          \/ \E st \in Statuses : SetStatus(st)
      BY <2>5, <1>6 DEF ApplyResult
    <3> QED BY <3>1, <3>3, <3>4, AccountKept
  <2>6. CASE Discard(a)
    <3>1. /\ UNCHANGED <<content, present, tagged, status>>
          /\ own' = [own EXCEPT ![a] = 0]
          /\ exposed' = exposed \cup ({own[a]} \ {0})
      BY <2>6 DEF Discard
    <3>2. \A t \in InHand : t \in InHand' \/ t \in exposed'
      BY <3>1, InHandDrop DEF InHand
    <3> QED BY <3>1, <3>2, AccountKept
  <2> QED BY <2>1, <2>2, <2>3, <2>4, <2>5, <2>6 DEF AgentStep
<1> QED BY <1>2, <1>3, <1>4, <1>5, <1>7, <1>8 DEF TypeOK

-----------------------------------------------------------------------------
(* Maintenance, connection and edits: actors other than runs.              *)

Others == Maintainers \cup Connectors \cup Editors

OtherStep(a) ==
  \/ a \in Maintainers /\ MaintenanceStep(a)
  \/ a \in Connectors /\ (BeginConnect(a) \/ EndConnect(a) \/ PublishInitialized(a))
  \/ a \in Editors /\ (EditRead(a) \/ EditWrite(a))

(* They create no snapshot and touch no tag, and only they may remove one. *)
LEMMA OtherMoves ==
  ASSUME TypeOK, LockHeld, NEW a \in Others, OtherStep(a)
  PROVE  /\ \E to \in States :
              /\ pc' = [pc EXCEPT ![a] = to]
              /\ \/ lock = None /\ lock' = a /\ to \in HoldsLock
                 \/ lock' = lock /\ (pc[a] \in HoldsLock <=> to \in HoldsLock)
                 \/ lock' = None /\ pc[a] \in HoldsLock /\ to \notin HoldsLock
         /\ UNCHANGED <<content, tagged, damaged, flag, own, attempts, waiters, restarts>>
         /\ present' \subseteq present
         /\ seen' \in [Actors -> Statuses]
         /\ \/ UNCHANGED <<status, exposed>>
            \/ \E st \in Statuses : SetStatus(st)
<1> USE StatusTypes DEF Goto, States, HoldsLock, Repository, Protection, Acquire
<1>0. a \in Actors /\ Ready \in Statuses /\ seen[a] \in Statuses
  BY Classes DEF TypeOK, Others, Service
<1>1. CASE a \in Maintainers /\ MaintenanceStep(a)
  BY <1>1 DEF MaintenanceStep, BeginMaintenance, StopMaintenance, Forget, Prune, Check, TypeOK
<1>2. CASE BeginConnect(a) \/ EndConnect(a) \/ PublishInitialized(a)
  BY <1>2 DEF BeginConnect, EndConnect, PublishInitialized, TypeOK
<1>3. CASE EditRead(a) \/ EditWrite(a)
  BY <1>0, <1>3 DEF EditRead, EditWrite, TypeOK
<1> QED BY <1>1, <1>2, <1>3 DEF OtherStep

(* A step of maintenance, of a connection or of the form keeps the         *)
(* invariant.                                                              *)
LEMMA OtherInvariant ==
  ASSUME IInv, NEW a \in Others, OtherStep(a)
  PROVE  IInv'
<1> USE DEF IInv
<1>0. a \in Service /\ a \in Actors /\ a \notin Runs /\ a \notin AgentRuns
  BY Classes DEF Others, Service
<1>1. PICK to \in States :
        /\ pc' = [pc EXCEPT ![a] = to]
        /\ \/ lock = None /\ lock' = a /\ to \in HoldsLock
           \/ lock' = lock /\ (pc[a] \in HoldsLock <=> to \in HoldsLock)
           \/ lock' = None /\ pc[a] \in HoldsLock /\ to \notin HoldsLock
  BY OtherMoves
<1>2. /\ UNCHANGED <<content, tagged, damaged, flag, own, attempts, waiters, restarts>>
      /\ present' \subseteq present
      /\ seen' \in [Actors -> Statuses]
      /\ UNCHANGED <<status, exposed>> \/ \E st \in Statuses : SetStatus(st)
  BY OtherMoves
<1>3. LockHeld'
  BY <1>0, <1>1, LockStep
<1>4. status' \in Statuses /\ exposed' \in SUBSET Snapshots
  BY <1>2, SetStatusType DEF TypeOK
<1>5. TypeOK'
  BY <1>0, <1>1, <1>2, <1>4 DEF TypeOK
<1>6. \A r \in Runs \cup AgentRuns : pc'[r] = pc[r]
  BY <1>0, <1>1 DEF TypeOK, Actors
<1>7. OwnPlace' /\ AttemptsLeft'
  BY <1>2, <1>6 DEF OwnPlace, AttemptsLeft
<1>8. ClearingSuperseded'
  BY <1>2, <1>6, ClearingKept
<1>9. PartialsAccounted'
  BY <1>2, AccountKept, InHandSame
<1> QED BY <1>3, <1>5, <1>7, <1>8, <1>9

(* A step of a local run keeps the invariant.                              *)
LEMMA RunInvariant ==
  ASSUME IInv, NEW r \in Runs, RunStep(r)
  PROVE  IInv'
BY RunLocal, RunType, RunAccounted, RunClearing DEF IInv, Local

(* Damage to the data keeps the invariant.                                 *)
LEMMA DamageInvariant == IInv /\ Damage => IInv'
<1> SUFFICES ASSUME IInv, Damage PROVE IInv'
  OBVIOUS
<1>1. UNCHANGED <<content, present, tagged, status, exposed, lock, flag, pc, seen, own,
                  attempts, waiters, restarts>> /\ damaged' = TRUE
  BY DEF Damage, Protection
<1>2. TypeOK' /\ LockHeld' /\ OwnPlace' /\ AttemptsLeft'
  BY <1>1 DEF IInv, TypeOK, LockHeld, OwnPlace, AttemptsLeft
<1>3. ClearingSuperseded' /\ PartialsAccounted'
  BY <1>1, ClearingKept, AccountKept, InHandSame DEF IInv
<1> QED BY <1>2, <1>3 DEF IInv

(* A restart keeps the invariant: what runs had in hand counts as given up.*)
LEMMA RestartInvariant == IInv /\ Restart => IInv'
<1> SUFFICES ASSUME IInv, Restart PROVE IInv'
  OBVIOUS
<1> USE DEF IInv, Restart, Repository
<1>1. \A a \in Service : pc'[a] \in {"idle", "done"}
  BY Classes
<1>2. \A a \in AgentRuns : pc'[a] = pc[a] /\ own'[a] = own[a]
  BY Classes
<1>3. \A a \in Runs : own'[a] = 0
  BY Classes
<1>4. TypeOK'
  <2>1. pc' \in [Actors -> States] /\ own' \in [Actors -> Snapshots \cup {0}]
    BY DEF TypeOK, States
  <2>2. exposed' \in SUBSET Snapshots
    BY Classes DEF TypeOK
  <2>3. restarts' \in 0..MaxRestarts
    BY ParametersAssumption DEF TypeOK
  <2> QED BY <2>1, <2>2, <2>3 DEF TypeOK
<1>5. LockHeld'
  BY <1>1, Classes DEF LockHeld, HoldsLock
<1>6. OwnPlace'
  BY <1>1, <1>2, <1>3, Classes DEF OwnPlace
<1>7. AttemptsLeft'
  <2> SUFFICES ASSUME NEW r \in Runs, pc'[r] \in {"idle", "loaded", "waiting"}
               PROVE  attempts'[r] < MaxAttempts
    BY DEF AttemptsLeft
  <2>1. pc[r] = "idle"
    BY <1>1, Classes
  <2> QED BY <2>1 DEF AttemptsLeft
<1>8. ClearingSuperseded'
  <2> \A r \in Runs : pc'[r] # "clearing"
    BY <1>1, Classes
  <2> QED BY ClearingKept
<1>9. PartialsAccounted'
  <2>1. \A s \in InHand : s \in InHand' \/ s \in exposed'
    BY <1>2 DEF InHand
  <2> QED BY <2>1, AccountKept
<1> QED BY <1>4, <1>5, <1>6, <1>7, <1>8, <1>9

-----------------------------------------------------------------------------
LEMMA IInvInit == Init => IInv
<1> SUFFICES ASSUME Init PROVE IInv
  OBVIOUS
<1>1. ClearingSuperseded /\ PartialsAccounted
  BY Classes DEF Init, ClearingSuperseded, PartialsAccounted, Service
<1> QED BY <1>1, LocalInit DEF IInv, Local

LEMMA IInvStep == IInv /\ [Next]_vars => IInv'
<1> SUFFICES ASSUME IInv, [Next]_vars PROVE IInv'
  OBVIOUS
<1>1. CASE \E r \in Runs : RunStep(r)
  BY <1>1, RunInvariant
<1>2. CASE \E a \in AgentRuns : AgentStep(a)
  BY <1>2, AgentInvariant
<1>3. CASE \E a \in Others : OtherStep(a)
  BY <1>3, OtherInvariant
<1>4. CASE Damage
  BY <1>4, DamageInvariant
<1>5. CASE Restart
  BY <1>5, RestartInvariant
<1>6. CASE UNCHANGED vars
  <2>1. TypeOK' /\ LockHeld' /\ OwnPlace' /\ AttemptsLeft'
    BY <1>6 DEF IInv, TypeOK, LockHeld, OwnPlace, AttemptsLeft, vars
  <2>2. ClearingSuperseded' /\ PartialsAccounted'
    BY <1>6, ClearingKept, AccountKept, InHandSame DEF IInv, vars
  <2> QED BY <2>1, <2>2 DEF IInv
<1> QED BY <1>1, <1>2, <1>3, <1>4, <1>5, <1>6 DEF Next, Others, OtherStep

(* The conjunction of places and account is inductive.                     *)
THEOREM Inductive == Spec => []IInv
BY IInvInit, IInvStep, PTL DEF Spec

(* The values the store and the services hold are well formed.             *)
THEOREM TypeCorrect == Spec => []TypeOK
BY Inductive, PTL DEF IInv

(* No partial snapshot drops out of the account of backup.Service.execute  *)
(* and agenttask.applyRepositoryProtectionState unnoticed.                 *)
THEOREM Accounted == Spec => []PartialsAccounted
BY Inductive, PTL DEF IInv

-----------------------------------------------------------------------------
(* A task of the control service: retention and maintenance.               *)

LEMMA MaintainerHolds ==
  ASSUME IInv, NEW m \in Maintainers, Maintaining(m)
  PROVE  lock = m
BY Classes DEF IInv, LockHeld, Maintaining, HoldsLock

(* Without Agents and form, only the holder of the lock writes the status, *)
(* and maintenance holds it.                                               *)
LEMMA ReadyKept ==
  ASSUME IInv, MaintenanceOnReady, AgentRuns = {}, Editors = {}, [Next]_vars
  PROVE  MaintenanceOnReady'
<1> USE DEF Goto, Protection, Repository, Leave, Acquire
<1>1. SUFFICES ASSUME NEW m \in Maintainers, Maintaining(m)'
               PROVE  status' = Ready
  BY DEF MaintenanceOnReady, Ready, Plain
<1>2. m \in Actors /\ m \in Service /\ m \notin Runs
  BY Classes
<1>3. Maintaining(m) => lock = m /\ status = Ready
  BY MaintainerHolds DEF MaintenanceOnReady
<1>4. CASE \E r \in Runs : RunStep(r)
  <2>1. PICK r \in Runs : RunStep(r)
    BY <1>4
  <2>2. Maintaining(m) /\ r # m
    <3>1. PICK to \in States, s \in Snapshots \cup {0}, n \in 0..MaxAttempts :
            RunMove(r, to, s, n)
      BY <2>1, RunMoves DEF IInv, Local
    <3> QED BY <1>1, <1>2, <3>1 DEF RunMove, Maintaining, IInv, TypeOK
  <2>3. pc[r] \notin HoldsLock /\ status = Ready
    BY <1>3, <2>2, Classes DEF IInv, LockHeld
  <2> QED BY <2>1, <2>3 DEF RunStep, Load, Admit, BeginAttempt, Refuse, TagPending, MarkReady,
             Backup, ProtectPartial, RecordUnprotected, ClearTags, HoldsLock
<1>5. CASE \E n \in Maintainers : MaintenanceStep(n)
  <2>1. PICK n \in Maintainers : MaintenanceStep(n)
    BY <1>5
  <2>2. CASE BeginMaintenance(n)
    BY <1>1, <1>2, <1>3, <2>2, Classes
       DEF BeginMaintenance, MaintenanceAllowed, Maintaining, IInv, TypeOK
  <2>3. CASE StopMaintenance(n) \/ Forget(n) \/ Prune(n)
    BY <1>1, <1>2, <1>3, <2>3, Classes
       DEF StopMaintenance, Forget, Prune, Maintaining, IInv, TypeOK
  <2>4. CASE Check(n)
    <3>1. n \in Actors /\ lock = n
      BY <2>1, <2>4, MaintainerHolds, Classes DEF Check, Maintaining
    <3> QED BY <1>1, <1>2, <1>3, <2>4, <3>1 DEF Check, Maintaining, IInv, TypeOK
  <2> QED BY <2>1, <2>2, <2>3, <2>4 DEF MaintenanceStep
<1>6. CASE \E c \in Connectors : BeginConnect(c) \/ EndConnect(c) \/ PublishInitialized(c)
  <2>1. PICK c \in Connectors : BeginConnect(c) \/ EndConnect(c) \/ PublishInitialized(c)
    BY <1>6
  <2>2. Maintaining(m)
    BY <1>1, <1>2, <2>1, Classes, ParametersAssumption
       DEF BeginConnect, EndConnect, PublishInitialized, Maintaining, IInv, TypeOK
  <2> QED BY <1>3, <2>1, <2>2
          DEF BeginConnect, EndConnect, PublishInitialized, SetStatus
<1>7. CASE Damage \/ UNCHANGED vars
  BY <1>1, <1>3, <1>7 DEF Damage, vars, Maintaining
<1>8. CASE Restart
  BY <1>1, <1>2, <1>8 DEF Restart, Maintaining
<1> QED BY <1>4, <1>5, <1>6, <1>7, <1>8 DEF Next

(* The argument of retention: while Forget runs, the status is ready and   *)
(* nobody else holds the lock, so what is neither tagged nor exposed is    *)
(* complete or superseded.                                                 *)
LEMMA ForgetKeeps ==
  ASSUME IInv, MaintenanceOnReady, AgentRuns = {}, NEW m \in Maintainers, Forget(m),
         NEW s \in present, Partial(s), s \notin exposed
  PROVE  s \in tagged
<1>1. Maintaining(m) /\ lock = m /\ status = Ready
  BY MaintainerHolds DEF Forget, Goto, Maintaining, MaintenanceOnReady
<1>2. s \notin InHand
  BY <1>1, Classes DEF InHand, IInv, OwnPlace, LockHeld, HoldsLock
<1>3. status # Unprotected(s)
  BY <1>1 DEF Ready, Plain, Unprotected
<1> QED BY <1>2, <1>3 DEF IInv, PartialsAccounted

(* No step removes a partial snapshot that was not given up.               *)
LEMMA PartialsKeptStep ==
  ASSUME IInv, MaintenanceOnReady, PartialsKept, AgentRuns = {}, [Next]_vars
  PROVE  PartialsKept'
<1>1. SUFFICES ASSUME NEW s \in Created', Partial(s)', s \notin exposed'
               PROVE  s \in present'
  BY DEF PartialsKept
<1> USE DEF Repository, Protection
<1>2. exposed \subseteq exposed'
  BY DEF Next, vars, RunStep, Load, Admit, BeginAttempt, Refuse, TagPending, MarkReady,
         Backup, ProtectPartial, RecordUnprotected, ClearTags, MaintenanceStep,
         BeginMaintenance, StopMaintenance, Forget, Prune, Check, BeginConnect, EndConnect,
         PublishInitialized, EditRead, EditWrite, Damage, Restart, SetStatus
<1>3. CASE content' = content
  <2>1. Partial(s) /\ s \in Created /\ s \in present
    BY <1>1, <1>2, <1>3 DEF Partial, Superseded, Created, PartialsKept
  <2>2. CASE \E m \in Maintainers : Forget(m)
    <3>1. PICK m \in Maintainers : Forget(m)
      BY <2>2
    <3>2. s \in tagged
      BY <1>1, <1>2, <2>1, <3>1, ForgetKeeps
    <3> QED BY <2>1, <3>1, <3>2 DEF Forget
  <2>3. CASE \E r \in Runs : RunStep(r)
    BY <2>1, <2>3 DEF RunStep, Load, Admit, BeginAttempt, Refuse, TagPending, MarkReady,
       Backup, SnapshotCreated, AddSnapshot, ProtectPartial, RecordUnprotected, ClearTags
  <2>4. CASE \E m \in Maintainers : MaintenanceStep(m) /\ ~Forget(m)
    BY <2>1, <2>4 DEF MaintenanceStep, BeginMaintenance, StopMaintenance, Prune, Check
  <2>5. CASE \/ \E c \in Connectors : BeginConnect(c) \/ EndConnect(c) \/ PublishInitialized(c)
             \/ \E e \in Editors : EditRead(e) \/ EditWrite(e)
             \/ Damage \/ Restart \/ UNCHANGED vars
    BY <2>1, <2>5 DEF BeginConnect, EndConnect, PublishInitialized, EditRead, EditWrite,
       Damage, Restart, vars
  <2> QED BY <2>2, <2>3, <2>4, <2>5 DEF Next
<1>4. CASE content' # content
  <2>1. PICK r \in Runs : Backup(r) /\ SnapshotCreated(r)
    BY <1>4 DEF Next, vars, RunStep, Load, Admit, BeginAttempt, Refuse, TagPending, MarkReady,
         Backup, ProtectPartial, RecordUnprotected, ClearTags, MaintenanceStep,
         BeginMaintenance, StopMaintenance, Forget, Prune, Check, BeginConnect, EndConnect,
         PublishInitialized, EditRead, EditWrite, Damage, Restart
  <2>2. PICK t \in Snapshots, kind \in {"full", "partial"} : AddSnapshot(t, kind)
    BY <2>1 DEF SnapshotCreated
  <2>3. s = t \/ (s \in Created /\ Partial(s))
    BY <1>1, <2>2, AddSnapshotFacts DEF IInv, Partial, Created
  <2> QED BY <1>1, <1>2, <2>2, <2>3 DEF AddSnapshot, PartialsKept
<1> QED BY <1>3, <1>4

(* repository.Service.Maintain never runs on a repository whose status     *)
(* stopped being ready, as long as the edit form is not used.              *)
THEOREM MaintenanceExclusion ==
  ASSUME AgentRuns = {}, Editors = {}
  PROVE  Spec => []MaintenanceOnReady
<1>1. Init => MaintenanceOnReady
  BY Classes DEF Init, MaintenanceOnReady, Maintaining
<1>2. IInv /\ MaintenanceOnReady /\ [Next]_vars => MaintenanceOnReady'
  BY ReadyKept
<1> QED BY <1>1, <1>2, Inductive, PTL DEF Spec

(* A partial backup of the control service survives every maintenance,     *)
(* whatever the retention policy, until a complete one supersedes it.      *)
THEOREM Kept ==
  ASSUME AgentRuns = {}, Editors = {}
  PROVE  Spec => []PartialsKept
<1>1. Init => PartialsKept
  BY DEF Init, PartialsKept, Created
<1>2. IInv /\ MaintenanceOnReady /\ PartialsKept /\ [Next]_vars => PartialsKept'
  BY PartialsKeptStep
<1> QED BY <1>1, <1>2, Inductive, MaintenanceExclusion, PTL DEF Spec

-----------------------------------------------------------------------------
(* The same of the composition that the run protection checks, where the   *)
(* runs of the task may be those of an Agent instead.                      *)

LocalIsSafe == part = "local" => IInv /\ MaintenanceOnReady /\ PartialsKept

(* service.go:1089: of whichever part the state is, no retention policy    *)
(* removes a partial backup of the control service before a complete one   *)
(* supersedes it, for any runs, maintainers and connections.               *)
THEOREM LocalKept ==
  ASSUME AgentRuns = {}, Editors = {}
  PROVE  MCSpec => []LocalPartialsKept
<1>1. MCInit => LocalIsSafe
  BY IInvInit, Classes
     DEF MCInit, LocalIsSafe, Init, MaintenanceOnReady, Maintaining, PartialsKept, Created
<1>2. LocalIsSafe /\ [MCNext]_<<part, vars>> => LocalIsSafe'
  <2> SUFFICES ASSUME LocalIsSafe, [MCNext]_<<part, vars>>, part' = "local"  PROVE LocalIsSafe'
    BY DEF LocalIsSafe
  <2>1. part = "local" /\ [Next]_vars
    BY DEF MCNext
  <2>2. IInv /\ MaintenanceOnReady /\ PartialsKept
    BY <2>1 DEF LocalIsSafe
  <2>3. IInv' /\ MaintenanceOnReady' /\ PartialsKept'
    BY <2>1, <2>2, IInvStep, ReadyKept, PartialsKeptStep
  <2> QED  BY <2>3 DEF LocalIsSafe
<1>3. LocalIsSafe => LocalPartialsKept
  BY DEF LocalIsSafe, LocalPartialsKept
<1> QED  BY <1>1, <1>2, <1>3, PTL DEF MCSpec
=============================================================================
