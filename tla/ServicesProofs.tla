---------------------------- MODULE ServicesProofs ----------------------------
(***************************************************************************)
(* Proofs about operation.Manager, for any operations and keys and any     *)
(* number of failing statements and restarts; about the migration to a     *)
(* root service, for any number of writes, runs and troubles; about the    *)
(* installation of the program and its update of itself; and about the     *)
(* upgrade of an old database, for any set of Agents and hosts.            *)
(***************************************************************************)
EXTENDS Services, Sequences, FiniteSetTheorems, WellFoundedInduction, TLAPS

Held == Calling \cup Running

(* A key says who holds it.                                                *)
KeyHeld ==
  \A o \in Operations : KeyOf[o] \in Keys =>
    /\ pc[o] \in Calling => unique[KeyOf[o]] = Reserved
    /\ pc[o] \in Running => unique[KeyOf[o]] = o

KeySingle ==
  \A o, p \in Operations :
    /\ KeyOf[o] \in Keys /\ KeyOf[o] = KeyOf[p]
    /\ pc[o] \in Held /\ pc[p] \in Held
    => o = p

KeyUsed ==
  \A k \in Keys : unique[k] # Free => \E o \in Operations : KeyOf[o] = k /\ pc[o] \in Held

(* An operation about to leave has closed its row, or lost the statement.  *)
RowClosed ==
  \A o \in Operations :
    pc[o] \in {"failing", "leaving"} /\ record[o] \in Open => o \in lost

(* What is about to be written is what classify returned.                  *)
Judged == \A o \in Operations : pc[o] = "finishing" => verdict[o] \in Terminal

IInv == TypeOK /\ Judged /\ KeyHeld /\ KeySingle /\ KeyUsed /\ RowClosed /\ OpenRowsAreLive

-----------------------------------------------------------------------------
(* The initial state has no operations.                                    *)
LEMMA InitIInv == Init => IInv
<1> USE ParametersAssumption
<1> SUFFICES ASSUME Init PROVE IInv  OBVIOUS
<1>1. TypeOK
  <2>1. restarts \in 0..MaxRestarts
    BY DEF Init
  <2>2. pc \in [Operations -> {"idle"}] /\ record \in [Operations -> {"absent"}]
        /\ verdict \in [Operations -> {"none"}] /\ unique \in [Keys -> {Free}]
    BY DEF Init
  <2>3. QED  BY <2>1, <2>2 DEF Init, TypeOK
<1>2. KeyHeld /\ KeySingle /\ RowClosed /\ Judged
  BY DEF Init, Judged, KeyHeld, KeySingle, RowClosed, Held, Calling, Running
<1>3. KeyUsed /\ OpenRowsAreLive
  BY DEF Init, KeyUsed, OpenRowsAreLive, Open
<1>4. QED  BY <1>1, <1>2, <1>3 DEF IInv

(* Types: every step writes what the store and the maps may hold.          *)
LEMMA TypeStep == ASSUME TypeOK, Judged, Next PROVE TypeOK'
<1> USE ParametersAssumption DEF TypeOK, Goto, Calling, Counted, Running
<1>1. ASSUME NEW o \in Operations,
             Reserve(o) \/ Create(o) \/ Launch(o) \/ FinishRefused(o) \/ Abandon(o)
      PROVE  TypeOK'
  <2>1. CASE Reserve(o)  BY <2>1 DEF Reserve, KeyBecomes
  <2>2. CASE Create(o)  BY <2>2 DEF Create, Open
  <2>3. CASE Launch(o)  BY <2>3 DEF Launch, KeyBecomes
  <2>4. CASE FinishRefused(o)  BY <2>4 DEF FinishRefused, Statement, Terminal
  <2>5. CASE Abandon(o)  BY <2>5 DEF Abandon, KeyBecomes
  <2>6. QED  BY <1>1, <2>1, <2>2, <2>3, <2>4, <2>5
<1>2. ASSUME NEW o \in Operations,
             Begin(o) \/ FinishUnstarted(o) \/ Work(o) \/ Finish(o) \/ Leave(o)
      PROVE  TypeOK'
  <2>1. CASE Begin(o)  BY <2>1 DEF Begin, Open
  <2>2. CASE FinishUnstarted(o)  BY <2>2 DEF FinishUnstarted, Statement, Terminal
  <2>3. CASE Work(o)
    <3>1. PICK v \in Verdicts(o) : verdict' = [verdict EXCEPT ![o] = v]
      BY <2>3 DEF Work
    <3>2. v \in Terminal
      BY DEF Verdicts, Terminal
    <3>3. QED  BY <2>3, <3>1, <3>2 DEF Work
  <2>4. CASE Finish(o)
    <3>1. verdict[o] \in Terminal
      BY <2>4 DEF Finish, Judged
    <3>2. QED  BY <2>4, <3>1 DEF Finish, Statement
  <2>5. CASE Leave(o)  BY <2>5 DEF Leave
  <2>6. QED  BY <1>2, <2>1, <2>2, <2>3, <2>4, <2>5
<1>3. ASSUME NEW o \in Operations, Depart(o) \/ Cancel(o) \/ ResolveCleanup(o)
      PROVE  TypeOK'
  <2>1. CASE Depart(o)  BY <2>1 DEF Depart
  <2>2. CASE Cancel(o)  BY <2>2 DEF Cancel
  <2>3. CASE ResolveCleanup(o)  BY <2>3 DEF ResolveCleanup, Terminal
  <2>4. QED  BY <1>3, <2>1, <2>2, <2>3
<1>4. CASE CancelParent \/ Close \/ CloseReturns
  BY <1>4 DEF CancelParent, Close, CloseReturns
<1>5. CASE Restart
  <2>1. \A o \in Operations : Recovered(record[o]) \in Terminal \cup Open \cup {"absent"}
    BY DEF Recovered, Terminal, Open
  <2>2. restarts' \in 0..MaxRestarts
    BY <1>5 DEF Restart
  <2>3. pc' \in [Operations -> {"idle", "refused", "ended"} \cup Calling \cup Counted]
    BY <1>5 DEF Restart
  <2>4. record' \in [Operations -> Terminal \cup Open \cup {"absent"}]
    BY <1>5, <2>1 DEF Restart
  <2>5. QED  BY <1>5, <2>2, <2>3, <2>4 DEF Restart
<1>6. QED  BY <1>1, <1>2, <1>3, <1>4, <1>5 DEF Next

(* What a job is judged is a final status.                                 *)
LEMMA JudgedStep == ASSUME TypeOK, Judged, Next PROVE Judged'
<1> USE DEF Judged, TypeOK, Goto
<1>1. ASSUME NEW o \in Operations,
             Reserve(o) \/ Create(o) \/ Launch(o) \/ FinishRefused(o) \/ Abandon(o)
      PROVE  Judged'
  BY <1>1 DEF Reserve, Create, Launch, FinishRefused, Abandon
<1>2. ASSUME NEW o \in Operations,
             Begin(o) \/ FinishUnstarted(o) \/ Finish(o) \/ Leave(o) \/ Depart(o)
      PROVE  Judged'
  BY <1>2 DEF Begin, FinishUnstarted, Finish, Leave, Depart
<1>3. ASSUME NEW o \in Operations, Work(o)  PROVE Judged'
  <2>1. PICK v \in Verdicts(o) : verdict' = [verdict EXCEPT ![o] = v]
    BY <1>3 DEF Work
  <2>2. v \in Terminal
    BY DEF Verdicts, Terminal
  <2>3. QED  BY <1>3, <2>1, <2>2 DEF Work
<1>4. ASSUME NEW o \in Operations, Cancel(o) \/ ResolveCleanup(o)  PROVE Judged'
  BY <1>4 DEF Cancel, ResolveCleanup
<1>5. CASE CancelParent \/ Close \/ CloseReturns \/ Restart
  BY <1>5 DEF CancelParent, Close, CloseReturns, Restart
<1>6. QED  BY <1>1, <1>2, <1>3, <1>4, <1>5 DEF Next

(* A key is taken when it is free, named when its operation starts and     *)
(* freed by that operation only.                                           *)
LEMMA KeyStep ==
  ASSUME TypeOK, KeyHeld, KeySingle, KeyUsed, Next
  PROVE  KeyHeld' /\ KeySingle' /\ KeyUsed'
<1> USE ParametersAssumption DEF TypeOK, Goto, Held, Calling, Running
<1> DEFINE Keep == KeyHeld' /\ KeySingle' /\ KeyUsed'
<1>1. ASSUME NEW o \in Operations, Reserve(o)  PROVE Keep
  <2>1. CASE Goto(o, "idle", "creating") /\ KeyIsFree(o)
    <3>1. KeyHeld' /\ KeySingle'
      BY <1>1, <2>1 DEF Reserve, KeyBecomes, KeyIsFree, KeyHeld, KeySingle
    <3>2. KeyUsed'
      BY <1>1, <2>1 DEF Reserve, KeyBecomes, KeyIsFree, KeyUsed
    <3>3. QED  BY <3>1, <3>2
  <2>2. CASE Goto(o, "idle", "refused") /\ unique' = unique
    BY <1>1, <2>2 DEF KeyHeld, KeySingle, KeyUsed
  <2>3. QED  BY <1>1, <2>1, <2>2 DEF Reserve
<1>2. ASSUME NEW o \in Operations, Create(o) \/ FinishRefused(o)  PROVE Keep
  <2>1. KeyHeld' /\ KeySingle'
    BY <1>2 DEF Create, FinishRefused, KeyHeld, KeySingle
  <2>2. KeyUsed'
    BY <1>2 DEF Create, FinishRefused, KeyUsed
  <2>3. QED  BY <2>1, <2>2
<1>3. ASSUME NEW o \in Operations, Launch(o)  PROVE Keep
  <2>1. KeyHeld'
    BY <1>3 DEF Launch, KeyBecomes, KeyHeld, KeySingle
  <2>2. KeySingle'
    BY <1>3 DEF Launch, KeySingle
  <2>3. KeyUsed'
    BY <1>3 DEF Launch, KeyBecomes, KeyUsed
  <2>4. QED  BY <2>1, <2>2, <2>3
<1>4. ASSUME NEW o \in Operations, Abandon(o)  PROVE Keep
  <2>1. KeyHeld' /\ KeySingle'
    BY <1>4 DEF Abandon, KeyBecomes, KeyHeld, KeySingle
  <2>2. KeyUsed'
    BY <1>4 DEF Abandon, KeyBecomes, KeyUsed
  <2>3. QED  BY <2>1, <2>2
<1>5. ASSUME NEW o \in Operations,
             Begin(o) \/ FinishUnstarted(o) \/ Work(o) \/ Finish(o)
      PROVE  Keep
  <2>1. /\ unique' = unique
        /\ \E s, t \in Running : pc[o] = s /\ pc' = [pc EXCEPT ![o] = t]
    BY <1>5 DEF Begin, FinishUnstarted, Work, Finish
  <2>2. KeyHeld' /\ KeySingle'
    BY <2>1 DEF KeyHeld, KeySingle
  <2>3. KeyUsed'
    BY <2>1 DEF KeyUsed
  <2>4. QED  BY <2>2, <2>3
<1>6. ASSUME NEW o \in Operations, Leave(o)  PROVE Keep
  <2>1. KeyHeld'
    BY <1>6 DEF Leave, KeyHeld, KeySingle
  <2>2. KeySingle'
    BY <1>6 DEF Leave, KeySingle
  <2>3. KeyUsed'
    BY <1>6 DEF Leave, KeyUsed, KeyHeld
  <2>4. QED  BY <2>1, <2>2, <2>3
<1>7. ASSUME NEW o \in Operations, Depart(o) \/ Cancel(o) \/ ResolveCleanup(o)
      PROVE  Keep
  BY <1>7 DEF Depart, Cancel, ResolveCleanup, KeyHeld, KeySingle, KeyUsed
<1>8. CASE CancelParent \/ Close \/ CloseReturns
  BY <1>8 DEF CancelParent, Close, CloseReturns, KeyHeld, KeySingle, KeyUsed
<1>9. CASE Restart
  BY <1>9 DEF Restart, KeyHeld, KeySingle, KeyUsed
<1>10. QED
  BY <1>1, <1>2, <1>3, <1>4, <1>5, <1>6, <1>7, <1>8, <1>9 DEF Next

(* A row is closed before its operation leaves, unless the statement is    *)
(* lost; the next start closes it then.                                    *)
LEMMA RowStep ==
  ASSUME TypeOK, RowClosed, OpenRowsAreLive, Judged, Next
  PROVE  RowClosed' /\ OpenRowsAreLive'
<1> USE DEF TypeOK, Goto, Calling, Running, Open, Terminal
<1> DEFINE Keep == RowClosed' /\ OpenRowsAreLive'
<1>1. ASSUME NEW o \in Operations, Reserve(o) \/ Create(o) \/ Launch(o) \/ Abandon(o)
      PROVE  Keep
  <2>1. CASE Reserve(o)  BY <2>1 DEF Reserve, RowClosed, OpenRowsAreLive
  <2>2. CASE Create(o)  BY <2>2 DEF Create, RowClosed, OpenRowsAreLive
  <2>3. CASE Launch(o)  BY <2>3 DEF Launch, RowClosed, OpenRowsAreLive
  <2>4. CASE Abandon(o)  BY <2>4 DEF Abandon, RowClosed, OpenRowsAreLive
  <2>5. QED  BY <1>1, <2>1, <2>2, <2>3, <2>4
<1>2. ASSUME NEW o \in Operations,
             FinishRefused(o) \/ Begin(o) \/ FinishUnstarted(o) \/ Work(o) \/ Finish(o)
      PROVE  Keep
  <2>1. CASE FinishRefused(o)
    BY <2>1 DEF FinishRefused, Statement, RowClosed, OpenRowsAreLive
  <2>2. CASE Begin(o)  BY <2>2 DEF Begin, RowClosed, OpenRowsAreLive
  <2>3. CASE FinishUnstarted(o)
    BY <2>3 DEF FinishUnstarted, Statement, RowClosed, OpenRowsAreLive
  <2>4. CASE Work(o)  BY <2>4 DEF Work, RowClosed, OpenRowsAreLive
  <2>5. CASE Finish(o)
    <3>1. verdict[o] \in {"success", "failed", "cancelled", "cleanup_required"}
      BY <2>5 DEF Finish, Judged
    <3>2. QED  BY <2>5, <3>1 DEF Finish, Statement, RowClosed, OpenRowsAreLive
  <2>6. QED  BY <1>2, <2>1, <2>2, <2>3, <2>4, <2>5
<1>3. ASSUME NEW o \in Operations, Leave(o) \/ Depart(o) \/ Cancel(o) \/ ResolveCleanup(o)
      PROVE  Keep
  BY <1>3 DEF Leave, Depart, Cancel, ResolveCleanup, RowClosed, OpenRowsAreLive
<1>4. CASE CancelParent \/ Close \/ CloseReturns
  BY <1>4 DEF CancelParent, Close, CloseReturns, RowClosed, OpenRowsAreLive
<1>5. CASE Restart
  <2>1. \A o \in Operations : record'[o] \notin Open
    BY <1>5 DEF Restart, Recovered
  <2>2. QED  BY <2>1 DEF RowClosed, OpenRowsAreLive
<1>6. QED  BY <1>1, <1>2, <1>3, <1>4, <1>5 DEF Next

LEMMA Invariance == Spec => []IInv
<1>1. IInv /\ [Next]_vars => IInv'
  <2> SUFFICES ASSUME IInv, [Next]_vars PROVE IInv'  OBVIOUS
  <2>1. CASE Next
    BY <2>1, TypeStep, JudgedStep, KeyStep, RowStep DEF IInv
  <2>2. CASE UNCHANGED vars
    BY <2>2 DEF vars, IInv, TypeOK, Judged, KeyHeld, KeySingle, KeyUsed, RowClosed,
                OpenRowsAreLive
  <2>3. QED  BY <2>1, <2>2
<1>2. QED  BY InitIInv, <1>1, PTL DEF Spec

-----------------------------------------------------------------------------
(* The manager's maps and the rows keep their types.                       *)
THEOREM TypeCorrect == Spec => []TypeOK
<1>1. IInv => TypeOK
  BY DEF IInv
<1>2. QED  BY Invariance, <1>1, PTL

(* Those that hold one key are one operation, or none.                     *)
LEMMA AtMostOneHolder ==
  ASSUME KeyHeld, KeySingle, KeyUsed, TypeOK
  PROVE  OneOperationPerKey
<1> SUFFICES ASSUME NEW k \in Keys
             PROVE  LET holders == {o \in Operations : KeyOf[o] = k /\ pc[o] \in Calling \cup Running}
                    IN /\ Cardinality(holders) <= 1
                       /\ unique[k] # Free <=> holders # {}
  BY DEF OneOperationPerKey
<1> DEFINE holders == {o \in Operations : KeyOf[o] = k /\ pc[o] \in Calling \cup Running}
<1>1. Cardinality(holders) <= 1
  <2>1. CASE holders = {}
    <3>1. Cardinality({}) = 0
      BY FS_EmptySet
    <3>2. QED  BY <2>1, <3>1
  <2>2. CASE holders # {}
    <3>1. PICK o \in holders : TRUE
      BY <2>2
    <3>2. holders = {o}
      BY <3>1 DEF KeySingle, Held
    <3>3. Cardinality({o}) = 1
      BY FS_Singleton
    <3>4. QED  BY <3>2, <3>3
  <2>3. QED  BY <2>1, <2>2
<1>2. ASSUME unique[k] # Free  PROVE holders # {}
  BY <1>2 DEF KeyUsed, Held
<1>3. ASSUME holders # {}  PROVE unique[k] # Free
  BY <1>3, ParametersAssumption DEF KeyHeld
<1>4. QED  BY <1>1, <1>2, <1>3

(* manager.go:88, 179: for any operations, keys, failures and restarts, a  *)
(* key admits one operation and is in use exactly as long, and an open row *)
(* belongs to an operation that works, or lost the statement to close it.  *)
THEOREM KeysAgree == Spec => []KeysAndRowsAgree
<1>1. IInv => KeysAndRowsAgree
  BY AtMostOneHolder DEF IInv, KeysAndRowsAgree
<1>2. QED  BY Invariance, <1>1, PTL

-----------------------------------------------------------------------------
(* ServiceMigration: which marker is in the file at each step, and what    *)
(* that says of the copies of the data.                                    *)

Copies == [is : {"none", "partly", "whole"}, upto : Nat]

UnitsTyped ==
  /\ unit \in [present : BOOLEAN, enabled : BOOLEAN, active : BOOLEAN]
  /\ was \in [present : {TRUE}, enabled : BOOLEAN, active : BOOLEAN]

DataTyped ==
  /\ source \in {"whole", "partly", "none"} /\ written \in Nat
  /\ staging \in Copies /\ copied \in Copies

RootTyped ==
  /\ root \in [present : BOOLEAN, active : BOOLEAN]
  /\ root.active => root.present

StageTyped ==
  /\ restarted \in BOOLEAN
  /\ marker \in {"none", "prepared", "source_disabled", "data_staged", "target_committed",
                "system_starting", "system_health_verified"}

MigrationTyped == UnitsTyped /\ DataTyped /\ RootTyped /\ StageTyped

Undoing == {"undo", "drop target", "drop staging", "restore"}

MarkerFits ==
  /\ at \in {"idle", "prepare", "disable", "disabled", "copy", "copying", "staged", "commit",
             "committed", "starting", "install", "health", "recheck", "verified", "verify",
             "remove unit", "remove data", "remove marker"} \cup Undoing
  /\ at = "prepare" => marker = "none"
  /\ at \in {"disable", "disabled"} => marker = "prepared"
  /\ at \in {"copy", "copying", "staged"} => marker = "source_disabled"
  /\ at \in {"commit", "committed"} => marker = "data_staged"
  /\ at = "starting" => marker = "target_committed"
  /\ at \in {"install", "health", "recheck", "verified"} => marker = "system_starting"
  /\ at \in {"verify", "remove unit", "remove data"} => marker = "system_health_verified"
  /\ at \in Undoing => marker \notin {"none", "system_health_verified"}
  /\ at = "remove marker" => marker # "none"

(* Before the user service is disabled there is no copy; a copy is what    *)
(* was written, unless the user service has been started again.            *)
CopiesFit ==
  /\ at = "prepare" \/ marker = "prepared" =>
       staging = Migration!Nothing /\ copied = Migration!Nothing
  /\ at = "disabled" => ~unit.active
  /\ marker \notin {"none", "prepared"} =>
       /\ unit.active => restarted
       /\ staging.is = "whole" => staging.upto = written \/ restarted
       /\ copied.is = "whole" => copied.upto = written \/ restarted

(* What has gone is not needed any more.                                   *)
Replaced ==
  /\ at \in {"verified", "remove unit", "remove data"} => copied.is = "whole" /\ root.present
  /\ at = "remove data" => ~unit.present /\ ~unit.active
  /\ source # "whole" =>
       /\ ~unit.present /\ ~unit.active /\ root.present /\ Migration!Complete
       /\ \/ /\ marker = "system_health_verified"
             /\ at \in {"idle", "verify", "remove unit", "remove data", "remove marker"}
          \/ marker = "none" /\ source = "none" /\ at = "idle"
  /\ at \in {"prepare", "remove marker"} \/ (at = "idle" /\ marker = "none") =>
       Migration!Moved \/ Migration!AsItWas

MigrationInv == MigrationTyped /\ MarkerFits /\ CopiesFit /\ Replaced

LEMMA MigrationBegins == ASSUME Migration!Init  PROVE MigrationInv
<1> USE DEF Migration!Init, Migration!Nothing, Migration!None
<1>1. MigrationTyped
  <2>1. UnitsTyped
    <3>1. unit \in [present : BOOLEAN, enabled : BOOLEAN, active : BOOLEAN]
      OBVIOUS
    <3>2. was \in [present : {TRUE}, enabled : BOOLEAN, active : BOOLEAN]
      OBVIOUS
    <3>3. QED  BY <3>1, <3>2 DEF UnitsTyped
  <2>2. DataTyped
    BY DEF DataTyped, Copies
  <2>3. RootTyped
    BY DEF RootTyped
  <2>4. StageTyped
    BY DEF StageTyped
  <2>5. QED  BY <2>1, <2>2, <2>3, <2>4 DEF MigrationTyped
<1>2. MarkerFits
  BY DEF MarkerFits, Undoing
<1>3. CopiesFit
  BY DEF CopiesFit
<1>4. Replaced
  BY DEF Replaced, Migration!AsItWas
<1>5. QED  BY <1>1, <1>2, <1>3, <1>4 DEF MigrationInv

LEMMA MigrationWriteKept == ASSUME MigrationInv, Migration!Write  PROVE MigrationInv'
<1> USE DEF MigrationInv, Migration!Write, Migration!services, Migration!Nothing,
   Migration!None, Undoing
<1>1. MigrationTyped'
  <2>1. UnitsTyped'
    BY DEF MigrationTyped, UnitsTyped
  <2>2. DataTyped'
    BY DEF MigrationTyped, DataTyped, Copies
  <2>3. RootTyped'
    BY DEF MigrationTyped, RootTyped
  <2>4. StageTyped'
    BY DEF MigrationTyped, StageTyped, MarkerFits
  <2>5. QED  BY <2>1, <2>2, <2>3, <2>4 DEF MigrationTyped
<1>2. MarkerFits'
  BY DEF MigrationTyped, UnitsTyped, DataTyped, RootTyped, StageTyped, MarkerFits
<1>3. CopiesFit'
  BY DEF MigrationTyped, UnitsTyped, DataTyped, RootTyped, StageTyped, MarkerFits,
     CopiesFit, Copies
<1>4. Replaced'
  BY DEF MigrationTyped, UnitsTyped, DataTyped, RootTyped, StageTyped, MarkerFits,
     CopiesFit, Replaced, Copies, Migration!Complete, Migration!Moved, Migration!AsItWas
<1>5. QED  BY <1>1, <1>2, <1>3, <1>4

LEMMA MigrationRebootKept == ASSUME MigrationInv, Migration!Reboot  PROVE MigrationInv'
<1> USE DEF MigrationInv, Migration!Reboot, Migration!Trouble, Migration!data,
   Migration!Nothing, Migration!None, Undoing
<1>1. MigrationTyped'
  <2>1. UnitsTyped'
    BY DEF MigrationTyped, UnitsTyped
  <2>2. DataTyped'
    BY DEF MigrationTyped, DataTyped, Copies
  <2>3. RootTyped'
    BY DEF MigrationTyped, RootTyped
  <2>4. StageTyped'
    BY DEF MigrationTyped, StageTyped, MarkerFits
  <2>5. QED  BY <2>1, <2>2, <2>3, <2>4 DEF MigrationTyped
<1>2. MarkerFits'
  BY DEF MigrationTyped, UnitsTyped, DataTyped, RootTyped, StageTyped, MarkerFits
<1>3. CopiesFit'
  BY DEF MigrationTyped, UnitsTyped, DataTyped, RootTyped, StageTyped, MarkerFits,
     CopiesFit, Copies
<1>4. Replaced'
  BY ZenonT(60) DEF MigrationTyped, UnitsTyped, DataTyped, RootTyped, StageTyped, MarkerFits,
     CopiesFit, Replaced, Copies, Migration!Complete, Migration!Moved, Migration!AsItWas
<1>5. QED  BY <1>1, <1>2, <1>3, <1>4

LEMMA MigrationCutOffKept == ASSUME MigrationInv, Migration!CutOff  PROVE MigrationInv'
<1> USE DEF MigrationInv, Migration!CutOff, Migration!Trouble, Migration!services,
   Migration!data, Migration!Nothing, Migration!None, Undoing
<1>1. MigrationTyped'
  <2>1. UnitsTyped'
    BY DEF MigrationTyped, UnitsTyped
  <2>2. DataTyped'
    BY DEF MigrationTyped, DataTyped, Copies
  <2>3. RootTyped'
    BY DEF MigrationTyped, RootTyped
  <2>4. StageTyped'
    BY DEF MigrationTyped, StageTyped, MarkerFits
  <2>5. QED  BY <2>1, <2>2, <2>3, <2>4 DEF MigrationTyped
<1>2. MarkerFits'
  BY DEF MigrationTyped, UnitsTyped, DataTyped, RootTyped, StageTyped, MarkerFits
<1>3. CopiesFit'
  BY DEF MigrationTyped, UnitsTyped, DataTyped, RootTyped, StageTyped, MarkerFits,
     CopiesFit, Copies
<1>4. Replaced'
  BY DEF MigrationTyped, UnitsTyped, DataTyped, RootTyped, StageTyped, MarkerFits,
     CopiesFit, Replaced, Copies, Migration!Complete, Migration!Moved, Migration!AsItWas
<1>5. QED  BY <1>1, <1>2, <1>3, <1>4

LEMMA MigrationMigrateKept == ASSUME MigrationInv, Migration!Migrate  PROVE MigrationInv'
<1> USE DEF MigrationInv, Migration!Migrate, Migration!None, Migration!Nothing,
   Migration!Continue, Migration!services, Migration!data, Undoing
<1>1. MigrationTyped'
  <2>1. UnitsTyped'
    BY DEF MigrationTyped, UnitsTyped
  <2>2. DataTyped'
    BY DEF MigrationTyped, DataTyped, Copies
  <2>3. RootTyped'
    BY DEF MigrationTyped, RootTyped
  <2>4. StageTyped'
    BY DEF MigrationTyped, StageTyped, MarkerFits
  <2>5. QED  BY <2>1, <2>2, <2>3, <2>4 DEF MigrationTyped
<1>c. /\ Migration!Continue["prepared"] = "disable" /\ Migration!Continue["source_disabled"] = "copy"
      /\ Migration!Continue["data_staged"] = "commit" /\ Migration!Continue["target_committed"] = "starting"
      /\ Migration!Continue["system_starting"] = "recheck" /\ Migration!Continue["system_health_verified"] = "verify"
  OBVIOUS
<1> HIDE DEF Migration!Continue
<1>0. marker # "none" =>
        \/ marker = "prepared" /\ at' = "disable"
        \/ marker = "source_disabled" /\ at' = "copy"
        \/ marker = "data_staged" /\ at' = "commit"
        \/ marker = "target_committed" /\ at' = "starting"
        \/ marker = "system_starting" /\ at' = "recheck"
        \/ marker = "system_health_verified" /\ at' = "verify"
  BY <1>c DEF MigrationTyped, StageTyped
<1>2. MarkerFits'
  <2>1. CASE marker = "none"
    BY <2>1 DEF MarkerFits
  <2>2. CASE marker # "none"
    BY <1>0, <2>2 DEF MarkerFits
  <2>3. QED  BY <2>1, <2>2
<1>3. CopiesFit'
  <2>1. CASE marker = "none"
    BY <2>1 DEF MigrationTyped, UnitsTyped, DataTyped, RootTyped, StageTyped,
       MarkerFits, CopiesFit, Copies
  <2>2. CASE marker # "none"
    BY <1>0, <2>2 DEF MigrationTyped, UnitsTyped, DataTyped, RootTyped, StageTyped,
       MarkerFits, CopiesFit, Copies
  <2>3. QED  BY <2>1, <2>2
<1>4. Replaced'
  <2>1. CASE marker = "none"
    BY <2>1 DEF MigrationTyped, UnitsTyped, DataTyped, RootTyped, StageTyped,
       MarkerFits, CopiesFit, Copies, Replaced, Migration!Complete, Migration!Moved,
       Migration!AsItWas
  <2>2. CASE marker # "none"
    <3>1. source # "whole" => at' = "verify"
      BY <1>0, <2>2 DEF Replaced
    <3>2. at' \notin {"prepare", "remove unit", "remove data", "remove marker", "idle"}
      BY <1>0, <2>2
    <3>3. UNCHANGED <<unit, source, root, copied, written, restarted, marker>>
      OBVIOUS
    <3> HIDE DEF Migration!Migrate
    <3>4. at' # "verified"
      BY <1>0, <2>2
    <3>5. Replaced
      OBVIOUS
    <3>6. source # "whole" => marker = "system_health_verified"
      BY <2>2, <3>5 DEF Replaced
    <3> HIDE DEF MigrationInv, Migration!Nothing
    <3>7. QED  BY <3>1, <3>2, <3>3, <3>4, <3>5, <3>6 DEF Replaced, Migration!Complete
  <2>3. QED  BY <2>1, <2>2
<1>5. QED  BY <1>1, <1>2, <1>3, <1>4

LEMMA MigrationPrepareKept == ASSUME MigrationInv, Migration!Prepare  PROVE MigrationInv'
<1> USE DEF MigrationInv, Migration!Prepare, Migration!Save, Migration!services,
   Migration!Quiet, Migration!Calm, Migration!Trouble, Migration!Nothing,
   Migration!None, Undoing
<1>1. MigrationTyped'
  <2>1. UnitsTyped'
    BY DEF MigrationTyped, UnitsTyped
  <2>2. DataTyped'
    BY DEF MigrationTyped, DataTyped, Copies
  <2>3. RootTyped'
    BY DEF MigrationTyped, RootTyped
  <2>4. StageTyped'
    BY DEF MigrationTyped, StageTyped, MarkerFits
  <2>5. QED  BY <2>1, <2>2, <2>3, <2>4 DEF MigrationTyped
<1>2. MarkerFits'
  BY DEF MigrationTyped, UnitsTyped, DataTyped, RootTyped, StageTyped, MarkerFits
<1>3. CopiesFit'
  BY DEF MigrationTyped, UnitsTyped, DataTyped, RootTyped, StageTyped, MarkerFits,
     CopiesFit, Copies
<1>4. Replaced'
  BY DEF MigrationTyped, UnitsTyped, DataTyped, RootTyped, StageTyped, MarkerFits,
     CopiesFit, Replaced, Copies, Migration!Complete, Migration!Moved, Migration!AsItWas
<1>5. QED  BY <1>1, <1>2, <1>3, <1>4

LEMMA MigrationDisableKept == ASSUME MigrationInv, Migration!Disable  PROVE MigrationInv'
<1> USE DEF MigrationInv, Migration!Disable, Migration!Calm, Migration!Trouble,
   Migration!data, Migration!Nothing, Migration!None, Undoing
<1>1. MigrationTyped'
  <2>1. UnitsTyped'
    BY DEF MigrationTyped, UnitsTyped
  <2>2. DataTyped'
    BY DEF MigrationTyped, DataTyped, Copies
  <2>3. RootTyped'
    BY DEF MigrationTyped, RootTyped
  <2>4. StageTyped'
    BY DEF MigrationTyped, StageTyped, MarkerFits
  <2>5. QED  BY <2>1, <2>2, <2>3, <2>4 DEF MigrationTyped
<1>2. MarkerFits'
  BY DEF MigrationTyped, UnitsTyped, DataTyped, RootTyped, StageTyped, MarkerFits
<1>3. CopiesFit'
  BY DEF MigrationTyped, UnitsTyped, DataTyped, RootTyped, StageTyped, MarkerFits,
     CopiesFit, Copies
<1>4. Replaced'
  BY DEF MigrationTyped, UnitsTyped, DataTyped, RootTyped, StageTyped, MarkerFits,
     CopiesFit, Replaced, Copies, Migration!Complete, Migration!Moved, Migration!AsItWas
<1>5. QED  BY <1>1, <1>2, <1>3, <1>4

LEMMA MigrationSourceDisabledKept == ASSUME MigrationInv, Migration!SourceDisabled  PROVE MigrationInv'
<1> USE DEF MigrationInv, Migration!SourceDisabled, Migration!Record, Migration!Save,
   Migration!services, Migration!data, Migration!Calm, Migration!Trouble,
   Migration!Nothing, Migration!None, Undoing
<1>1. MigrationTyped'
  <2>1. UnitsTyped'
    BY DEF MigrationTyped, UnitsTyped
  <2>2. DataTyped'
    BY DEF MigrationTyped, DataTyped, Copies
  <2>3. RootTyped'
    BY DEF MigrationTyped, RootTyped
  <2>4. StageTyped'
    BY DEF MigrationTyped, StageTyped, MarkerFits
  <2>5. QED  BY <2>1, <2>2, <2>3, <2>4 DEF MigrationTyped
<1>2. MarkerFits'
  BY DEF MigrationTyped, UnitsTyped, DataTyped, RootTyped, StageTyped, MarkerFits
<1>3. CopiesFit'
  BY DEF MigrationTyped, UnitsTyped, DataTyped, RootTyped, StageTyped, MarkerFits,
     CopiesFit, Copies
<1>4. Replaced'
  BY DEF MigrationTyped, UnitsTyped, DataTyped, RootTyped, StageTyped, MarkerFits,
     CopiesFit, Replaced, Copies, Migration!Complete, Migration!Moved, Migration!AsItWas
<1>5. QED  BY <1>1, <1>2, <1>3, <1>4

LEMMA MigrationCreateStagingKept == ASSUME MigrationInv, Migration!CreateStaging  PROVE MigrationInv'
<1> USE DEF MigrationInv, Migration!CreateStaging, Migration!Nothing,
   Migration!services, Migration!Quiet, Migration!None, Undoing
<1>1. MigrationTyped'
  <2>1. UnitsTyped'
    BY DEF MigrationTyped, UnitsTyped
  <2>2. DataTyped'
    BY DEF MigrationTyped, DataTyped, Copies
  <2>3. RootTyped'
    BY DEF MigrationTyped, RootTyped
  <2>4. StageTyped'
    BY DEF MigrationTyped, StageTyped, MarkerFits
  <2>5. QED  BY <2>1, <2>2, <2>3, <2>4 DEF MigrationTyped
<1>2. MarkerFits'
  BY DEF MigrationTyped, UnitsTyped, DataTyped, RootTyped, StageTyped, MarkerFits
<1>3. CopiesFit'
  BY DEF MigrationTyped, UnitsTyped, DataTyped, RootTyped, StageTyped, MarkerFits,
     CopiesFit, Copies
<1>4. Replaced'
  BY DEF MigrationTyped, UnitsTyped, DataTyped, RootTyped, StageTyped, MarkerFits,
     CopiesFit, Replaced, Copies, Migration!Complete, Migration!Moved, Migration!AsItWas
<1>5. QED  BY <1>1, <1>2, <1>3, <1>4

LEMMA MigrationCopyKept == ASSUME MigrationInv, Migration!Copy  PROVE MigrationInv'
<1> USE DEF MigrationInv, Migration!Copy, Migration!Calm, Migration!Trouble,
   Migration!Nothing, Migration!services, Migration!Quiet, Migration!None, Undoing
<1>1. MigrationTyped'
  <2>1. UnitsTyped'
    BY DEF MigrationTyped, UnitsTyped
  <2>2. DataTyped'
    BY DEF MigrationTyped, DataTyped, Copies
  <2>3. RootTyped'
    BY DEF MigrationTyped, RootTyped
  <2>4. StageTyped'
    BY DEF MigrationTyped, StageTyped, MarkerFits
  <2>5. QED  BY <2>1, <2>2, <2>3, <2>4 DEF MigrationTyped
<1>2. MarkerFits'
  BY DEF MigrationTyped, UnitsTyped, DataTyped, RootTyped, StageTyped, MarkerFits
<1>3. CopiesFit'
  BY DEF MigrationTyped, UnitsTyped, DataTyped, RootTyped, StageTyped, MarkerFits,
     CopiesFit, Copies
<1>4. Replaced'
  BY DEF MigrationTyped, UnitsTyped, DataTyped, RootTyped, StageTyped, MarkerFits,
     CopiesFit, Replaced, Copies, Migration!Complete, Migration!Moved, Migration!AsItWas
<1>5. QED  BY <1>1, <1>2, <1>3, <1>4

LEMMA MigrationDataStagedKept == ASSUME MigrationInv, Migration!DataStaged  PROVE MigrationInv'
<1> USE DEF MigrationInv, Migration!DataStaged, Migration!Record, Migration!Save,
   Migration!services, Migration!data, Migration!Calm, Migration!Trouble,
   Migration!Nothing, Migration!None, Undoing
<1>1. MigrationTyped'
  <2>1. UnitsTyped'
    BY DEF MigrationTyped, UnitsTyped
  <2>2. DataTyped'
    BY DEF MigrationTyped, DataTyped, Copies
  <2>3. RootTyped'
    BY DEF MigrationTyped, RootTyped
  <2>4. StageTyped'
    BY DEF MigrationTyped, StageTyped, MarkerFits
  <2>5. QED  BY <2>1, <2>2, <2>3, <2>4 DEF MigrationTyped
<1>2. MarkerFits'
  BY DEF MigrationTyped, UnitsTyped, DataTyped, RootTyped, StageTyped, MarkerFits
<1>3. CopiesFit'
  BY DEF MigrationTyped, UnitsTyped, DataTyped, RootTyped, StageTyped, MarkerFits,
     CopiesFit, Copies
<1>4. Replaced'
  BY DEF MigrationTyped, UnitsTyped, DataTyped, RootTyped, StageTyped, MarkerFits,
     CopiesFit, Replaced, Copies, Migration!Complete, Migration!Moved, Migration!AsItWas
<1>5. QED  BY <1>1, <1>2, <1>3, <1>4

LEMMA MigrationCommitKept == ASSUME MigrationInv, Migration!Commit  PROVE MigrationInv'
<1> USE DEF MigrationInv, Migration!Commit, Migration!Nothing, Migration!Calm,
   Migration!Trouble, Migration!services, Migration!Quiet, Migration!None, Undoing
<1>1. MigrationTyped'
  <2>1. UnitsTyped'
    BY DEF MigrationTyped, UnitsTyped
  <2>2. DataTyped'
    BY DEF MigrationTyped, DataTyped, Copies
  <2>3. RootTyped'
    BY DEF MigrationTyped, RootTyped
  <2>4. StageTyped'
    BY DEF MigrationTyped, StageTyped, MarkerFits
  <2>5. QED  BY <2>1, <2>2, <2>3, <2>4 DEF MigrationTyped
<1>2. MarkerFits'
  BY DEF MigrationTyped, UnitsTyped, DataTyped, RootTyped, StageTyped, MarkerFits
<1>3. CopiesFit'
  BY DEF MigrationTyped, UnitsTyped, DataTyped, RootTyped, StageTyped, MarkerFits,
     CopiesFit, Copies
<1>4. Replaced'
  BY DEF MigrationTyped, UnitsTyped, DataTyped, RootTyped, StageTyped, MarkerFits,
     CopiesFit, Replaced, Copies, Migration!Complete, Migration!Moved, Migration!AsItWas
<1>5. QED  BY <1>1, <1>2, <1>3, <1>4

LEMMA MigrationTargetCommittedKept == ASSUME MigrationInv, Migration!TargetCommitted  PROVE MigrationInv'
<1> USE DEF MigrationInv, Migration!TargetCommitted, Migration!Record, Migration!Save,
   Migration!services, Migration!data, Migration!Calm, Migration!Trouble,
   Migration!Nothing, Migration!None, Undoing
<1>1. MigrationTyped'
  <2>1. UnitsTyped'
    BY DEF MigrationTyped, UnitsTyped
  <2>2. DataTyped'
    BY DEF MigrationTyped, DataTyped, Copies
  <2>3. RootTyped'
    BY DEF MigrationTyped, RootTyped
  <2>4. StageTyped'
    BY DEF MigrationTyped, StageTyped, MarkerFits
  <2>5. QED  BY <2>1, <2>2, <2>3, <2>4 DEF MigrationTyped
<1>2. MarkerFits'
  BY DEF MigrationTyped, UnitsTyped, DataTyped, RootTyped, StageTyped, MarkerFits
<1>3. CopiesFit'
  BY DEF MigrationTyped, UnitsTyped, DataTyped, RootTyped, StageTyped, MarkerFits,
     CopiesFit, Copies
<1>4. Replaced'
  BY DEF MigrationTyped, UnitsTyped, DataTyped, RootTyped, StageTyped, MarkerFits,
     CopiesFit, Replaced, Copies, Migration!Complete, Migration!Moved, Migration!AsItWas
<1>5. QED  BY <1>1, <1>2, <1>3, <1>4

LEMMA MigrationSystemStartingKept == ASSUME MigrationInv, Migration!SystemStarting  PROVE MigrationInv'
<1> USE DEF MigrationInv, Migration!SystemStarting, Migration!Record, Migration!Save,
   Migration!services, Migration!data, Migration!Calm, Migration!Trouble,
   Migration!Nothing, Migration!None, Undoing
<1>1. MigrationTyped'
  <2>1. UnitsTyped'
    BY DEF MigrationTyped, UnitsTyped
  <2>2. DataTyped'
    BY DEF MigrationTyped, DataTyped, Copies
  <2>3. RootTyped'
    BY DEF MigrationTyped, RootTyped
  <2>4. StageTyped'
    BY DEF MigrationTyped, StageTyped, MarkerFits
  <2>5. QED  BY <2>1, <2>2, <2>3, <2>4 DEF MigrationTyped
<1>2. MarkerFits'
  BY DEF MigrationTyped, UnitsTyped, DataTyped, RootTyped, StageTyped, MarkerFits
<1>3. CopiesFit'
  BY DEF MigrationTyped, UnitsTyped, DataTyped, RootTyped, StageTyped, MarkerFits,
     CopiesFit, Copies
<1>4. Replaced'
  BY DEF MigrationTyped, UnitsTyped, DataTyped, RootTyped, StageTyped, MarkerFits,
     CopiesFit, Replaced, Copies, Migration!Complete, Migration!Moved, Migration!AsItWas
<1>5. QED  BY <1>1, <1>2, <1>3, <1>4

LEMMA MigrationInstallKept == ASSUME MigrationInv, Migration!Install  PROVE MigrationInv'
<1> USE DEF MigrationInv, Migration!Install, Migration!Calm, Migration!Trouble,
   Migration!Quiet, Migration!Nothing, Migration!None, Undoing
<1>1. MigrationTyped'
  <2>1. UnitsTyped'
    BY DEF MigrationTyped, UnitsTyped
  <2>2. DataTyped'
    BY DEF MigrationTyped, DataTyped, Copies
  <2>3. RootTyped'
    <3>1. \/ root' = root
          \/ root' = [present |-> TRUE, active |-> TRUE]
          \/ root' = [present |-> FALSE, active |-> FALSE]
          \/ root' = [present |-> TRUE, active |-> FALSE]
      OBVIOUS
    <3>2. CASE root' = root
      BY <3>2 DEF MigrationTyped, RootTyped
    <3>3. CASE root' = [present |-> TRUE, active |-> TRUE]
      BY <3>3 DEF RootTyped
    <3>4. CASE root' = [present |-> FALSE, active |-> FALSE]
      BY <3>4 DEF RootTyped
    <3>5. CASE root' = [present |-> TRUE, active |-> FALSE]
      BY <3>5 DEF RootTyped
    <3>6. QED  BY <3>1, <3>2, <3>3, <3>4, <3>5
  <2>4. StageTyped'
    BY DEF MigrationTyped, StageTyped, MarkerFits
  <2>5. QED  BY <2>1, <2>2, <2>3, <2>4 DEF MigrationTyped
<1>2. MarkerFits'
  BY DEF MigrationTyped, UnitsTyped, DataTyped, RootTyped, StageTyped, MarkerFits
<1>3. CopiesFit'
  BY DEF MigrationTyped, UnitsTyped, DataTyped, RootTyped, StageTyped, MarkerFits,
     CopiesFit, Copies
<1>4. Replaced'
  BY DEF MigrationTyped, UnitsTyped, DataTyped, RootTyped, StageTyped, MarkerFits,
     CopiesFit, Replaced, Copies, Migration!Complete, Migration!Moved, Migration!AsItWas
<1>5. QED  BY <1>1, <1>2, <1>3, <1>4

LEMMA MigrationHealthVerifiedKept == ASSUME MigrationInv, Migration!HealthVerified  PROVE MigrationInv'
<1> USE DEF MigrationInv, Migration!HealthVerified, Migration!Healthy, Migration!Calm,
   Migration!Trouble, Migration!services, Migration!Quiet, Migration!Nothing,
   Migration!None, Undoing
<1>1. MigrationTyped'
  <2>1. UnitsTyped'
    BY DEF MigrationTyped, UnitsTyped
  <2>2. DataTyped'
    BY DEF MigrationTyped, DataTyped, Copies
  <2>3. RootTyped'
    BY DEF MigrationTyped, RootTyped
  <2>4. StageTyped'
    BY DEF MigrationTyped, StageTyped, MarkerFits
  <2>5. QED  BY <2>1, <2>2, <2>3, <2>4 DEF MigrationTyped
<1>2. MarkerFits'
  BY DEF MigrationTyped, UnitsTyped, DataTyped, RootTyped, StageTyped, MarkerFits
<1>3. CopiesFit'
  BY DEF MigrationTyped, UnitsTyped, DataTyped, RootTyped, StageTyped, MarkerFits,
     CopiesFit, Copies
<1>4. Replaced'
  BY DEF MigrationTyped, UnitsTyped, DataTyped, RootTyped, StageTyped, MarkerFits,
     CopiesFit, Replaced, Copies, Migration!Complete, Migration!Moved, Migration!AsItWas
<1>5. QED  BY <1>1, <1>2, <1>3, <1>4

LEMMA MigrationRecordVerifiedKept == ASSUME MigrationInv, Migration!RecordVerified  PROVE MigrationInv'
<1> USE DEF MigrationInv, Migration!RecordVerified, Migration!Save, Migration!services,
   Migration!data, Migration!Calm, Migration!Trouble, Migration!Nothing, Migration!None,
   Undoing
<1>1. MigrationTyped'
  <2>1. UnitsTyped'
    BY DEF MigrationTyped, UnitsTyped
  <2>2. DataTyped'
    BY DEF MigrationTyped, DataTyped, Copies
  <2>3. RootTyped'
    BY DEF MigrationTyped, RootTyped
  <2>4. StageTyped'
    BY DEF MigrationTyped, StageTyped, MarkerFits
  <2>5. QED  BY <2>1, <2>2, <2>3, <2>4 DEF MigrationTyped
<1>2. MarkerFits'
  BY DEF MigrationTyped, UnitsTyped, DataTyped, RootTyped, StageTyped, MarkerFits
<1>3. CopiesFit'
  BY DEF MigrationTyped, UnitsTyped, DataTyped, RootTyped, StageTyped, MarkerFits,
     CopiesFit, Copies
<1>4. Replaced'
  BY DEF MigrationTyped, UnitsTyped, DataTyped, RootTyped, StageTyped, MarkerFits,
     CopiesFit, Replaced, Copies, Migration!Complete, Migration!Moved, Migration!AsItWas
<1>5. QED  BY <1>1, <1>2, <1>3, <1>4

LEMMA MigrationVerifyKept == ASSUME MigrationInv, Migration!Verify  PROVE MigrationInv'
<1> USE DEF MigrationInv, Migration!Verify, Migration!Healthy, Migration!Calm,
   Migration!Trouble, Migration!services, Migration!Quiet, Migration!Nothing,
   Migration!None, Undoing
<1>1. MigrationTyped'
  <2>1. UnitsTyped'
    BY DEF MigrationTyped, UnitsTyped
  <2>2. DataTyped'
    BY DEF MigrationTyped, DataTyped, Copies
  <2>3. RootTyped'
    BY DEF MigrationTyped, RootTyped
  <2>4. StageTyped'
    BY DEF MigrationTyped, StageTyped, MarkerFits
  <2>5. QED  BY <2>1, <2>2, <2>3, <2>4 DEF MigrationTyped
<1>2. MarkerFits'
  BY DEF MigrationTyped, UnitsTyped, DataTyped, RootTyped, StageTyped, MarkerFits
<1>3. CopiesFit'
  BY DEF MigrationTyped, UnitsTyped, DataTyped, RootTyped, StageTyped, MarkerFits,
     CopiesFit, Copies
<1>4. Replaced'
  BY DEF MigrationTyped, UnitsTyped, DataTyped, RootTyped, StageTyped, MarkerFits,
     CopiesFit, Replaced, Copies, Migration!Complete, Migration!Moved, Migration!AsItWas
<1>5. QED  BY <1>1, <1>2, <1>3, <1>4

LEMMA MigrationRemoveUnitKept == ASSUME MigrationInv, Migration!RemoveUnit  PROVE MigrationInv'
<1> USE DEF MigrationInv, Migration!RemoveUnit, Migration!Calm, Migration!Gone,
   Migration!Trouble, Migration!Quiet, Migration!Nothing, Migration!None, Undoing
<1>1. MigrationTyped'
  <2>1. UnitsTyped'
    <3>1. /\ unit \in [present : BOOLEAN, enabled : BOOLEAN, active : BOOLEAN]
          /\ was' \in [present : {TRUE}, enabled : BOOLEAN, active : BOOLEAN]
      BY DEF MigrationTyped, UnitsTyped
    <3>2. CASE unit' = unit
      BY <3>1, <3>2 DEF UnitsTyped
    <3>3. CASE unit' = [unit EXCEPT !.enabled = FALSE, !.active = FALSE]
      BY <3>1, <3>3 DEF UnitsTyped
    <3>4. CASE unit' = Migration!Gone
      BY <3>1, <3>4 DEF UnitsTyped
    <3>5. QED  BY <3>2, <3>3, <3>4
  <2>2. DataTyped'
    BY DEF MigrationTyped, DataTyped, Copies
  <2>3. RootTyped'
    BY DEF MigrationTyped, RootTyped
  <2>4. StageTyped'
    BY DEF MigrationTyped, StageTyped, MarkerFits
  <2>5. QED  BY <2>1, <2>2, <2>3, <2>4 DEF MigrationTyped
<1>2. MarkerFits'
  BY DEF MigrationTyped, UnitsTyped, DataTyped, RootTyped, StageTyped, MarkerFits
<1>a. unit \in [present : BOOLEAN, enabled : BOOLEAN, active : BOOLEAN]
  BY DEF MigrationTyped, UnitsTyped
<1>b. ~unit.active => ~unit'.active
  <2>1. CASE unit' = unit
    BY <2>1
  <2>2. CASE unit' = [unit EXCEPT !.enabled = FALSE, !.active = FALSE]
    BY <1>a, <2>2
  <2>3. CASE unit' = Migration!Gone
    BY <2>3
  <2>4. QED  BY <2>1, <2>2, <2>3
<1>d. ~unit.present => ~unit'.present
  <2>1. CASE unit' = unit
    BY <2>1
  <2>2. CASE unit' = [unit EXCEPT !.enabled = FALSE, !.active = FALSE]
    BY <1>a, <2>2
  <2>3. CASE unit' = Migration!Gone
    BY <2>3
  <2>4. QED  BY <2>1, <2>2, <2>3
<1>e. at' = "remove data" => ~unit'.present /\ ~unit'.active
  <2>1. at' = "remove data" => unit' = Migration!Gone
    OBVIOUS
  <2>2. Migration!Gone.present = FALSE /\ Migration!Gone.active = FALSE
    OBVIOUS
  <2> HIDE DEF Migration!RemoveUnit, Migration!Gone
  <2>3. QED  BY <2>1, <2>2
<1>f. UNCHANGED <<source, staging, copied, written, restarted, root, marker>>
  OBVIOUS
<1>g. at = "remove unit" /\ at' \in {"idle", "remove data"} /\ marker = "system_health_verified"
  BY DEF MarkerFits
<1> HIDE DEF Migration!RemoveUnit
<1>3. CopiesFit'
  BY <1>b, <1>f, <1>g DEF CopiesFit
<1>4. Replaced'
  BY <1>b, <1>d, <1>e, <1>f, <1>g DEF Replaced, Migration!Complete
<1>5. QED  BY <1>1, <1>2, <1>3, <1>4

LEMMA MigrationRemoveDataKept == ASSUME MigrationInv, Migration!RemoveData  PROVE MigrationInv'
<1> USE DEF MigrationInv, Migration!RemoveData, Migration!None, Migration!Calm,
   Migration!Trouble, Migration!services, Migration!Quiet, Migration!Nothing, Undoing
<1>1. MigrationTyped'
  <2>1. UnitsTyped'
    BY DEF MigrationTyped, UnitsTyped
  <2>2. DataTyped'
    BY DEF MigrationTyped, DataTyped, Copies
  <2>3. RootTyped'
    BY DEF MigrationTyped, RootTyped
  <2>4. StageTyped'
    BY DEF MigrationTyped, StageTyped, MarkerFits
  <2>5. QED  BY <2>1, <2>2, <2>3, <2>4 DEF MigrationTyped
<1>2. MarkerFits'
  BY DEF MigrationTyped, UnitsTyped, DataTyped, RootTyped, StageTyped, MarkerFits
<1>3. CopiesFit'
  BY DEF MigrationTyped, UnitsTyped, DataTyped, RootTyped, StageTyped, MarkerFits,
     CopiesFit, Copies
<1>4. Replaced'
  BY DEF MigrationTyped, UnitsTyped, DataTyped, RootTyped, StageTyped, MarkerFits,
     CopiesFit, Replaced, Copies, Migration!Complete, Migration!Moved, Migration!AsItWas
<1>5. QED  BY <1>1, <1>2, <1>3, <1>4

LEMMA MigrationRemoveMarkerKept == ASSUME MigrationInv, Migration!RemoveMarker  PROVE MigrationInv'
<1> USE DEF MigrationInv, Migration!RemoveMarker, Migration!Calm, Migration!None,
   Migration!Trouble, Migration!services, Migration!Quiet, Migration!Nothing, Undoing
<1>1. MigrationTyped'
  <2>1. UnitsTyped'
    BY DEF MigrationTyped, UnitsTyped
  <2>2. DataTyped'
    BY DEF MigrationTyped, DataTyped, Copies
  <2>3. RootTyped'
    BY DEF MigrationTyped, RootTyped
  <2>4. StageTyped'
    BY DEF MigrationTyped, StageTyped, MarkerFits
  <2>5. QED  BY <2>1, <2>2, <2>3, <2>4 DEF MigrationTyped
<1>2. MarkerFits'
  BY DEF MigrationTyped, UnitsTyped, DataTyped, RootTyped, StageTyped, MarkerFits
<1>3. CopiesFit'
  BY DEF MigrationTyped, UnitsTyped, DataTyped, RootTyped, StageTyped, MarkerFits,
     CopiesFit, Copies
<1>4. Replaced'
  BY DEF MigrationTyped, UnitsTyped, DataTyped, RootTyped, StageTyped, MarkerFits,
     CopiesFit, Replaced, Copies, Migration!Complete, Migration!Moved, Migration!AsItWas
<1>5. QED  BY <1>1, <1>2, <1>3, <1>4

LEMMA MigrationUndoRootKept == ASSUME MigrationInv, Migration!UndoRoot  PROVE MigrationInv'
<1> USE DEF MigrationInv, Migration!UndoRoot, Migration!Go, Migration!Calm,
   Migration!Trouble, Migration!Quiet, Migration!Nothing, Migration!None, Undoing
<1>1. MigrationTyped'
  <2>1. UnitsTyped'
    BY DEF MigrationTyped, UnitsTyped
  <2>2. DataTyped'
    BY DEF MigrationTyped, DataTyped, Copies
  <2>3. RootTyped'
    <3>1. \/ root' = root
          \/ root' = [present |-> TRUE, active |-> TRUE]
          \/ root' = [present |-> FALSE, active |-> FALSE]
          \/ root' = [present |-> TRUE, active |-> FALSE]
      OBVIOUS
    <3>2. CASE root' = root
      BY <3>2 DEF MigrationTyped, RootTyped
    <3>3. CASE root' = [present |-> TRUE, active |-> TRUE]
      BY <3>3 DEF RootTyped
    <3>4. CASE root' = [present |-> FALSE, active |-> FALSE]
      BY <3>4 DEF RootTyped
    <3>5. CASE root' = [present |-> TRUE, active |-> FALSE]
      BY <3>5 DEF RootTyped
    <3>6. QED  BY <3>1, <3>2, <3>3, <3>4, <3>5
  <2>4. StageTyped'
    BY DEF MigrationTyped, StageTyped, MarkerFits
  <2>5. QED  BY <2>1, <2>2, <2>3, <2>4 DEF MigrationTyped
<1>2. MarkerFits'
  BY DEF MigrationTyped, UnitsTyped, DataTyped, RootTyped, StageTyped, MarkerFits
<1>3. CopiesFit'
  BY DEF MigrationTyped, UnitsTyped, DataTyped, RootTyped, StageTyped, MarkerFits,
     CopiesFit, Copies
<1>4. Replaced'
  BY DEF MigrationTyped, UnitsTyped, DataTyped, RootTyped, StageTyped, MarkerFits,
     CopiesFit, Replaced, Copies, Migration!Complete, Migration!Moved, Migration!AsItWas
<1>5. QED  BY <1>1, <1>2, <1>3, <1>4

LEMMA MigrationDropTargetKept == ASSUME MigrationInv, Migration!DropTarget  PROVE MigrationInv'
<1> USE DEF MigrationInv, Migration!DropTarget, Migration!Go, Migration!Calm,
   Migration!Nothing, Migration!Trouble, Migration!services, Migration!Quiet,
   Migration!None, Undoing
<1>1. MigrationTyped'
  <2>1. UnitsTyped'
    BY DEF MigrationTyped, UnitsTyped
  <2>2. DataTyped'
    <3>1. copied \in Copies /\ staging \in Copies
      BY DEF MigrationTyped, DataTyped
    <3>2. \/ copied' = copied
          \/ copied' = Migration!Nothing
          \/ copied' = [copied EXCEPT !.is = "partly"]
      OBVIOUS
    <3>3. CASE copied' = copied
      BY <3>1, <3>3 DEF MigrationTyped, DataTyped
    <3>4. CASE copied' = Migration!Nothing
      <4>1. (copied \in Copies)'
        BY <3>4 DEF Copies
      <4>2. QED  BY <4>1 DEF MigrationTyped, DataTyped
    <3>5. CASE copied' = [copied EXCEPT !.is = "partly"]
      <4>1. (copied \in Copies)'
        BY <3>1, <3>5 DEF Copies
      <4>2. QED  BY <4>1 DEF MigrationTyped, DataTyped
    <3>6. QED  BY <3>2, <3>3, <3>4, <3>5
  <2>3. RootTyped'
    BY DEF MigrationTyped, RootTyped
  <2>4. StageTyped'
    BY DEF MigrationTyped, StageTyped, MarkerFits
  <2>5. QED  BY <2>1, <2>2, <2>3, <2>4 DEF MigrationTyped
<1>2. MarkerFits'
  BY DEF MigrationTyped, UnitsTyped, DataTyped, RootTyped, StageTyped, MarkerFits
<1>3. CopiesFit'
  <2>1. copied \in Copies
    BY DEF MigrationTyped, DataTyped
  <2>2. copied' = copied \/ copied'.is # "whole"
    <3>1. CASE copied' = copied
      BY <3>1
    <3>2. CASE copied' = Migration!Nothing
      BY <3>2
    <3>3. CASE copied' = [copied EXCEPT !.is = "partly"]
      BY <2>1, <3>3 DEF Copies
    <3>4. QED  BY <3>1, <3>2, <3>3
  <2>3. copied = Migration!Nothing => copied' = Migration!Nothing
    OBVIOUS
  <2>4. UNCHANGED <<staging, unit, restarted, written, marker>>
    OBVIOUS
  <2>5. at' \notin {"prepare", "disabled"} /\ (marker = "prepared" => staging  = Migration!Nothing /\ copied = Migration!Nothing)
    BY DEF CopiesFit
  <2> HIDE DEF Migration!Nothing, Migration!DropTarget
  <2>6. QED  BY <2>2, <2>3, <2>4, <2>5 DEF CopiesFit
<1>4. Replaced'
  BY DEF MigrationTyped, UnitsTyped, DataTyped, RootTyped, StageTyped, MarkerFits,
     CopiesFit, Replaced, Copies, Migration!Complete, Migration!Moved, Migration!AsItWas
<1>5. QED  BY <1>1, <1>2, <1>3, <1>4

LEMMA MigrationDropStagingKept == ASSUME MigrationInv, Migration!DropStaging  PROVE MigrationInv'
<1> USE DEF MigrationInv, Migration!DropStaging, Migration!Go, Migration!Calm,
   Migration!Nothing, Migration!Trouble, Migration!services, Migration!Quiet,
   Migration!None, Undoing
<1>1. MigrationTyped'
  <2>1. UnitsTyped'
    BY DEF MigrationTyped, UnitsTyped
  <2>2. DataTyped'
    <3>1. staging \in Copies /\ copied \in Copies
      BY DEF MigrationTyped, DataTyped
    <3>2. \/ staging' = staging
          \/ staging' = Migration!Nothing
          \/ staging' = [staging EXCEPT !.is = "partly"]
      OBVIOUS
    <3>3. CASE staging' = staging
      BY <3>1, <3>3 DEF MigrationTyped, DataTyped
    <3>4. CASE staging' = Migration!Nothing
      <4>1. (staging \in Copies)'
        BY <3>4 DEF Copies
      <4>2. QED  BY <4>1 DEF MigrationTyped, DataTyped
    <3>5. CASE staging' = [staging EXCEPT !.is = "partly"]
      <4>1. (staging \in Copies)'
        BY <3>1, <3>5 DEF Copies
      <4>2. QED  BY <4>1 DEF MigrationTyped, DataTyped
    <3>6. QED  BY <3>2, <3>3, <3>4, <3>5
  <2>3. RootTyped'
    BY DEF MigrationTyped, RootTyped
  <2>4. StageTyped'
    BY DEF MigrationTyped, StageTyped, MarkerFits
  <2>5. QED  BY <2>1, <2>2, <2>3, <2>4 DEF MigrationTyped
<1>2. MarkerFits'
  BY DEF MigrationTyped, UnitsTyped, DataTyped, RootTyped, StageTyped, MarkerFits
<1>3. CopiesFit'
  <2>1. staging \in Copies
    BY DEF MigrationTyped, DataTyped
  <2>2. staging' = staging \/ staging'.is # "whole"
    <3>1. CASE staging' = staging
      BY <3>1
    <3>2. CASE staging' = Migration!Nothing
      BY <3>2
    <3>3. CASE staging' = [staging EXCEPT !.is = "partly"]
      BY <2>1, <3>3 DEF Copies
    <3>4. QED  BY <3>1, <3>2, <3>3
  <2>3. staging = Migration!Nothing => staging' = Migration!Nothing
    OBVIOUS
  <2>4. UNCHANGED <<copied, unit, restarted, written, marker>>
    OBVIOUS
  <2>5. at' \notin {"prepare", "disabled"} /\ (marker = "prepared" => copied  = Migration!Nothing /\ staging = Migration!Nothing)
    BY DEF CopiesFit
  <2> HIDE DEF Migration!Nothing, Migration!DropStaging
  <2>6. QED  BY <2>2, <2>3, <2>4, <2>5 DEF CopiesFit
<1>4. Replaced'
  BY DEF MigrationTyped, UnitsTyped, DataTyped, RootTyped, StageTyped, MarkerFits,
     CopiesFit, Replaced, Copies, Migration!Complete, Migration!Moved, Migration!AsItWas
<1>5. QED  BY <1>1, <1>2, <1>3, <1>4

LEMMA MigrationRestoreKept == ASSUME MigrationInv, Migration!Restore  PROVE MigrationInv'
<1> USE DEF MigrationInv, Migration!Restore, Migration!Calm, Migration!Trouble,
   Migration!NotRestored, Migration!Nothing, Migration!None, Undoing
<1>1. MigrationTyped'
  <2>1. UnitsTyped'
    BY DEF MigrationTyped, UnitsTyped
  <2>2. DataTyped'
    BY DEF MigrationTyped, DataTyped, Copies
  <2>3. RootTyped'
    BY DEF MigrationTyped, RootTyped
  <2>4. StageTyped'
    BY DEF MigrationTyped, StageTyped, MarkerFits
  <2>5. QED  BY <2>1, <2>2, <2>3, <2>4 DEF MigrationTyped
<1>2. MarkerFits'
  BY DEF MigrationTyped, UnitsTyped, DataTyped, RootTyped, StageTyped, MarkerFits
<1>3. CopiesFit'
  BY DEF MigrationTyped, UnitsTyped, DataTyped, RootTyped, StageTyped, MarkerFits,
     CopiesFit, Copies
<1>4. Replaced'
  BY DEF MigrationTyped, UnitsTyped, DataTyped, RootTyped, StageTyped, MarkerFits,
     CopiesFit, Replaced, Copies, Migration!Complete, Migration!Moved, Migration!AsItWas
<1>5. QED  BY <1>1, <1>2, <1>3, <1>4

LEMMA MigrationStays == ASSUME MigrationInv, UNCHANGED Migration!vars  PROVE MigrationInv'
<1>1. UNCHANGED migrationVars
  BY DEF Migration!vars, Migration!services, Migration!data, migrationVars
<1> HIDE DEF Migration!vars
<1> USE DEF MigrationInv, migrationVars
<1>2. MigrationTyped'
  <2>1. UnitsTyped'
    BY <1>1 DEF MigrationTyped, UnitsTyped
  <2>2. DataTyped'
    BY <1>1 DEF MigrationTyped, DataTyped
  <2>3. RootTyped'
    BY <1>1 DEF MigrationTyped, RootTyped
  <2>4. StageTyped'
    BY <1>1 DEF MigrationTyped, StageTyped
  <2>5. QED  BY <2>1, <2>2, <2>3, <2>4 DEF MigrationTyped
<1>3. MarkerFits'
  BY <1>1 DEF MarkerFits, Undoing
<1>4. CopiesFit'
  BY <1>1 DEF CopiesFit, Migration!Nothing
<1>5. Replaced'
  BY <1>1 DEF Replaced, Migration!Complete, Migration!Moved, Migration!AsItWas
<1>6. QED  BY <1>2, <1>3, <1>4, <1>5

(* README_EN.md:84, servicemigration/service.go:226, 239: for any number   *)
(* of writes, runs and troubles, the data exist as a whole in the one      *)
(* place or the other, and when no migration is marked one of the two      *)
(* services is complete.                                                   *)
THEOREM MigrationsAreAtomic == Migration!Spec => []MigrationIsAtomic
<1>1. MigrationInv /\ [Migration!Next]_(Migration!vars) => MigrationInv'
  BY MigrationWriteKept, MigrationRebootKept, MigrationCutOffKept, MigrationMigrateKept,
     MigrationPrepareKept, MigrationDisableKept, MigrationSourceDisabledKept,
     MigrationCreateStagingKept, MigrationCopyKept, MigrationDataStagedKept,
     MigrationCommitKept, MigrationTargetCommittedKept, MigrationSystemStartingKept,
     MigrationInstallKept, MigrationHealthVerifiedKept, MigrationRecordVerifiedKept,
     MigrationVerifyKept, MigrationRemoveUnitKept, MigrationRemoveDataKept,
     MigrationRemoveMarkerKept, MigrationUndoRootKept, MigrationDropTargetKept,
     MigrationDropStagingKept, MigrationRestoreKept, MigrationStays DEF Migration!Next
<1>2. MigrationInv => MigrationIsAtomic
  BY DEF MigrationInv, Replaced, MigrationIsAtomic, Migration!MigrationIsAtomic,
     Migration!None
<1>3. QED  BY MigrationBegins, <1>1, <1>2, PTL DEF Migration!Spec

-----------------------------------------------------------------------------
(* ApplicationInstall: what a command that replaces an installation has    *)
(* changed when it does its next step.                                     *)

AsBefore ==
  definition = before.unit /\ legacy = before.legacy /\ process = before.process

Replaces ==
  /\ before.files[1] = "old"
  /\ \/ before.unit = "old" /\ before.legacy = "none" /\ before.process = "old"
     \/ before.unit = "none" /\ before.legacy = "placed" /\ before.process = "legacy"

Unregistered == {"read", "copy", "sum", "companions", "restore", "suspend"}

InstallInv ==
  before.files[1] = "old" =>
    /\ Replaces
    /\ step # "read" => good = "old"
    /\ step \in {"read", "copy"} => program = "old" /\ sum = before.files[2]
    /\ step \in Unregistered \ {"suspend"} => companions = before.files[3]
    /\ step \in Unregistered => AsBefore
    /\ step \in {"start", "finalize", "roll back"} =>
         current = before.unit /\ (parked <=> before.unit = "none")
    /\ step \in {"finalize", "roll back", "health"} => definition = "new"
    /\ step = "undo install" =>
         IF before.unit = "none" THEN definition = "new" \/ (definition = "none" /\ process = "legacy")
         ELSE definition # "none"
    /\ InstallRestores

LEMMA InstallBegins == Install!Init => InstallInv
  BY DEF Install!Init, Install!Nowhere, Install!Somewhere, Install!State, Install!files,
         Install!None, InstallInv, InstallRestores, Install!InstallRestores, Replaces,
         AsBefore, Unregistered

LEMMA InstallReadKept == ASSUME InstallInv, Install!Read  PROVE InstallInv'
  BY DEF Install!Read, Install!Goto, Install!files, Install!services,
         InstallInv, InstallRestores, Install!InstallRestores, Replaces, AsBefore,
         Unregistered, Install!None

LEMMA InstallCopyKept == ASSUME InstallInv, Install!Copy  PROVE InstallInv'
  BY DEF Install!Copy, Install!Goto, Install!services, Install!local,
         InstallInv, InstallRestores, Install!InstallRestores, Replaces, AsBefore,
         Unregistered, Install!None

LEMMA InstallSumKept == ASSUME InstallInv, Install!Sum  PROVE InstallInv'
  BY DEF Install!Sum, Install!Goto, Install!services, Install!local,
         InstallInv, InstallRestores, Install!InstallRestores, Replaces, AsBefore,
         Unregistered, Install!None

LEMMA InstallCompanionsKept == ASSUME InstallInv, Install!Companions  PROVE InstallInv'
  BY DEF Install!Companions, Install!Goto, Install!services, Install!local,
         InstallInv, InstallRestores, Install!InstallRestores, Replaces, AsBefore,
         Unregistered, Install!None

LEMMA InstallSuspendKept == ASSUME InstallInv, Install!Suspend  PROVE InstallInv'
  BY DEF Install!Suspend, Install!None, Install!Goto, Install!files,
         InstallInv, InstallRestores, Install!InstallRestores, Replaces, AsBefore,
         Unregistered, Install!None

LEMMA InstallStartKept == ASSUME InstallInv, Install!Start  PROVE InstallInv'
  BY DEF Install!Start, Install!Goto, Install!None, Install!files, Install!local,
         InstallInv, InstallRestores, Install!InstallRestores, Replaces, AsBefore,
         Unregistered, Install!None

LEMMA InstallFinalizeKept == ASSUME InstallInv, Install!Finalize  PROVE InstallInv'
  BY DEF Install!Finalize, Install!Goto, Install!None, Install!files, Install!local,
         InstallInv, InstallRestores, Install!InstallRestores, Replaces, AsBefore,
         Unregistered, Install!None

LEMMA InstallRollBackKept == ASSUME InstallInv, Install!RollBack  PROVE InstallInv'
  BY DEF Install!RollBack, Install!Goto, Install!None, Install!files, Install!local,
         InstallInv, InstallRestores, Install!InstallRestores, Replaces, AsBefore,
         Unregistered, Install!None

LEMMA InstallHealthKept == ASSUME InstallInv, Install!Health  PROVE InstallInv'
  BY DEF Install!Health, Install!Goto, Install!files, Install!services, Install!local,
         InstallInv, InstallRestores, Install!InstallRestores, Replaces, AsBefore,
         Unregistered, Install!None

LEMMA InstallRestoreBinaryKept == ASSUME InstallInv, Install!RestoreBinary  PROVE InstallInv'
  BY DEF Install!RestoreBinary, Install!Goto, Install!Restored, Install!services,
     Install!local,
         InstallInv, InstallRestores, Install!InstallRestores, Replaces, AsBefore,
         Unregistered, Install!None

LEMMA InstallUndoInstallKept == ASSUME InstallInv, Install!UndoInstall  PROVE InstallInv'
  BY DEF Install!UndoInstall, Install!Goto, Install!Restored, Install!files,
     Install!None, Install!Uninstall, Install!local, Install!services,
         InstallInv, InstallRestores, Install!InstallRestores, Replaces, AsBefore,
         Unregistered, Install!None

LEMMA InstallStays == ASSUME InstallInv, UNCHANGED Install!vars  PROVE InstallInv'
<1>1. UNCHANGED installVars
  BY DEF Install!vars, Install!files, Install!services, Install!local, installVars
<1>2. QED
  BY <1>1 DEF installVars, InstallInv, InstallRestores, Install!InstallRestores,
     Replaces, AsBefore, Unregistered

(* appinstall/service.go:71, 108, serviceinstall/service.go:877: a command *)
(* that fails leaves an installation that was there as it was, or with the *)
(* program that was there: whatever step failed, with or without checksum, *)
(* companions and the service of an earlier release.                       *)
THEOREM FailedInstallsRestore == Install!Spec => []InstallRestores
<1>1. InstallInv /\ [Install!Next]_(Install!vars) => InstallInv'
  BY InstallReadKept, InstallCopyKept, InstallSumKept, InstallCompanionsKept,
     InstallSuspendKept, InstallStartKept, InstallFinalizeKept, InstallRollBackKept,
     InstallHealthKept, InstallRestoreBinaryKept, InstallUndoInstallKept, InstallStays
     DEF Install!Next
<1>2. InstallInv => InstallRestores
  BY DEF InstallInv, InstallRestores, Install!InstallRestores
<1>3. QED  BY InstallBegins, <1>1, <1>2, PTL DEF Install!Spec

-----------------------------------------------------------------------------
(* ApplicationUpdate: whose row is open, and what a helper that works on   *)
(* the files finds in them.                                                *)

UpdateRows   == {"none", "success", "failed", "rolled_back", "rollback_failed", "interrupted"}
                  \cup Update!Open
UpdatePoints == {"idle", "over"} \cup Update!Handling \cup Update!HelperStates

UpdateTyped ==
  /\ running \in Nat /\ binary \in Nat /\ checksum \in Nat /\ previous \in Nat
  /\ updates \in [Update!Updates -> UpdateRows] /\ steps \in [Update!Updates -> UpdatePoints]
  /\ target \in [Update!Updates -> Nat] /\ kept \in [Update!Updates -> Nat]
  /\ young \subseteq Update!Updates

OneRowOpen ==
  \A u, v \in Update!Updates :
    updates[u] \in Update!Open /\ updates[v] \in Update!Open => u = v

Helping == Update!HelperStates \ {"success"}

(* A row of a helper is running and young: no start of the service closes  *)
(* it, and no request gets another one, until the helper has ended.        *)
RowOf(u) ==
  /\ steps[u] = "start" => updates[u] = "queued"
  /\ steps[u] = "give up" => updates[u] \in {"queued", "running"}
  /\ steps[u] \in Helping \cup {"launch"} => updates[u] = "running" /\ u \in young
  /\ steps[u] = "success" => updates[u] \in {"health_verified", "interrupted"}

HelperRow == \A u \in Update!Updates : RowOf(u)

HelperFiles ==
  \A u \in Update!Updates :
    /\ steps[u] \in {"replace", "sum", "restart", "verify", "report", "rollback"} =>
         previous = kept[u]
    /\ steps[u] = "sum" => binary = target[u]
    /\ steps[u] = "restart" => binary = target[u] /\ checksum = target[u]
    /\ steps[u] \in {"verify", "report"} => Update!Installed(target[u])
    /\ steps[u] = "success" /\ updates[u] = "health_verified" => Update!Installed(target[u])
    /\ steps[u] = "resum" => binary = kept[u]
    /\ steps[u] = "restart old" => binary = kept[u] /\ checksum = kept[u]
    /\ steps[u] \in {"verify old", "rolled back"} => Update!Installed(kept[u])

UpdateInv == UpdateTyped /\ OneRowOpen /\ HelperRow /\ HelperFiles

LEMMA UpdateBegins == Update!Init => UpdateInv
  BY DEF Update!Init, Update!None, Update!Open, Update!HelperStates, UpdateInv,
     UpdateTyped, UpdateRows, UpdatePoints, Update!Handling, OneRowOpen, HelperRow, RowOf,
     HelperFiles, Helping

(* Nobody else is at the files, or about to claim a success.               *)
LEMMA HelperAlone ==
  ASSUME UpdateInv, NEW u \in Update!Updates, updates[u] \in Update!Open,
         NEW v \in Update!Updates, v # u
  PROVE  /\ steps[v] \notin Helping \cup {"launch", "start", "give up"}
         /\ ~(steps[v] = "success" /\ updates[v] = "health_verified")
  BY DEF UpdateInv, OneRowOpen, HelperRow, RowOf, Update!Open

LEMMA UpdateAuthorizeKept ==
  ASSUME UpdateInv, NEW u \in Update!Updates, Update!Authorize(u)
  PROVE  UpdateInv' /\ Update!Honest
<1> USE DEF UpdateInv, Update!Authorize, Update!At, Update!Goto, Update!files,
   Update!Rows
<1>1. UpdateTyped'
  <2>1. UpdateTyped
    OBVIOUS
  <2>2. (running \in Nat /\ binary \in Nat /\ checksum \in Nat /\ previous \in Nat)'
    BY <2>1 DEF UpdateTyped, Update!None
  <2>3. (updates \in [Update!Updates -> UpdateRows])'
    BY <2>1 DEF UpdateTyped, UpdateRows, Update!Open
  <2>4. (steps \in [Update!Updates -> UpdatePoints])'
    BY <2>1 DEF UpdateTyped, UpdatePoints, Update!Handling, Update!HelperStates
  <2>5. (target \in [Update!Updates -> Nat])'
    BY <2>1 DEF UpdateTyped, Update!Versions
  <2>6. (kept \in [Update!Updates -> Nat])'
    BY <2>1 DEF UpdateTyped
  <2>7. (young \subseteq Update!Updates)'
    BY <2>1 DEF UpdateTyped
  <2>8. QED  BY <2>2, <2>3, <2>4, <2>5, <2>6, <2>7 DEF UpdateTyped
<1>2. OneRowOpen'
  BY DEF UpdateTyped, OneRowOpen, HelperRow, RowOf, Update!Open, Update!Indexed, Helping,
     Update!HelperStates
<1>3. HelperRow'
  <2>1. \A v \in Update!Updates \ {u} : steps'[v] = steps[v] /\ updates'[v] = updates[v]
    BY DEF UpdateTyped
  <2>2. RowOf(u)'
    BY DEF UpdateTyped, HelperRow, RowOf, Helping, Update!HelperStates, Update!Open
  <2>3. ASSUME NEW v \in Update!Updates, v # u PROVE RowOf(v)'
    BY <2>1, <2>3 DEF HelperRow, RowOf
  <2> QED BY <2>2, <2>3 DEF HelperRow
<1>4. HelperFiles'
  BY HelperAlone DEF UpdateTyped, HelperRow, RowOf, Update!Open, HelperFiles, Helping,
     Update!HelperStates, Update!Installed
<1>5. Update!Honest
  BY DEF UpdateTyped, HelperRow, RowOf, Update!Honest, Update!Becomes, Update!Open,
     HelperFiles, Helping, Update!HelperStates, Update!Installed
<1>6. QED  BY <1>1, <1>2, <1>3, <1>4, <1>5

LEMMA UpdateCreateOperationKept ==
  ASSUME UpdateInv, NEW u \in Update!Updates, Update!CreateOperation(u)
  PROVE  UpdateInv' /\ Update!Honest
<1> USE DEF UpdateInv, Update!CreateOperation, Update!At, Update!Row, Update!Goto,
   Update!files, Update!Told
<1>1. UpdateTyped'
  BY DEF UpdateTyped, Update!None, UpdateRows, UpdatePoints, Update!Open,
     Update!Handling, Update!HelperStates, HelperRow, RowOf, Helping
<1>2. OneRowOpen'
  <2>1. CASE Update!Indexed /\ Update!Row(u, "queued")
    BY <2>1 DEF UpdateTyped, OneRowOpen, Update!Open, Update!Indexed
  <2>2. CASE UNCHANGED updates
    BY <2>2 DEF OneRowOpen
  <2> QED BY <2>1, <2>2
<1>3. \A v \in Update!Updates \ {u} : steps'[v] = steps[v] /\ updates'[v] = updates[v]
  BY DEF UpdateTyped
<1>4. \/ steps'[u] = "start" /\ updates'[u] = "queued"
     \/ steps'[u] = "over"
  BY DEF UpdateTyped
<1>5. HelperRow'
  BY <1>3, <1>4 DEF HelperRow, RowOf, Helping, Update!HelperStates
<1>6. HelperFiles'
  BY <1>3, <1>4 DEF HelperFiles, Update!Installed
<1>7. Update!Honest
  BY DEF UpdateTyped, HelperRow, RowOf, Update!Honest, Update!Becomes, Update!Open,
     HelperFiles, Helping, Update!HelperStates, Update!Installed
<1>8. QED  BY <1>1, <1>2, <1>5, <1>6, <1>7

LEMMA UpdateStartOperationKept ==
  ASSUME UpdateInv, NEW u \in Update!Updates, Update!StartOperation(u)
  PROVE  UpdateInv' /\ Update!Honest
<1> USE DEF UpdateInv, Update!StartOperation, Update!At, Update!Calm, Update!Row,
   Update!Goto, Update!Trouble, Update!Rows, Update!files, Update!Told
<1>1. UpdateTyped'
  BY DEF UpdateTyped, Update!None, UpdateRows, UpdatePoints, Update!Open,
     Update!Handling, Update!HelperStates, HelperRow, RowOf, Helping
<1>2. OneRowOpen'
  BY DEF UpdateTyped, OneRowOpen, HelperRow, RowOf, Update!Open, Update!Indexed, Helping,
     Update!HelperStates
<1>3. \A v \in Update!Updates \ {u} : steps'[v] = steps[v] /\ updates'[v] = updates[v]
  BY DEF UpdateTyped
<1>4. \/ steps'[u] = "launch" /\ updates'[u] = "running" /\ u \in young'
      \/ steps'[u] = "give up" /\ updates'[u] = "queued"
  BY DEF UpdateTyped, HelperRow, RowOf
<1>5. HelperRow'
  BY ZenonT(60), <1>3, <1>4 DEF HelperRow, RowOf, Helping, Update!HelperStates
<1>6. HelperFiles'
  BY <1>3, <1>4 DEF HelperFiles, Update!Installed
<1>7. Update!Honest
  BY DEF UpdateTyped, HelperRow, RowOf, Update!Honest, Update!Becomes, Update!Open,
     HelperFiles, Helping, Update!HelperStates, Update!Installed
<1>8. QED  BY <1>1, <1>2, <1>5, <1>6, <1>7

LEMMA UpdateLaunchKept ==
  ASSUME UpdateInv, NEW u \in Update!Updates, Update!Launch(u)  PROVE UpdateInv' /\ Update!Honest
<1> USE DEF UpdateInv, Update!Launch, Update!At, Update!Calm, Update!Goto,
   Update!Trouble, Update!files, Update!Rows, Update!Told
<1>1. UpdateTyped'
  BY DEF UpdateTyped, Update!None, UpdateRows, UpdatePoints, Update!Open,
     Update!Handling, Update!HelperStates, HelperRow, RowOf, Helping
<1>2. OneRowOpen'
  BY DEF UpdateTyped, OneRowOpen, HelperRow, RowOf, Update!Open, Update!Indexed, Helping,
     Update!HelperStates
<1>3. HelperRow'
  <2>1. \A v \in Update!Updates \ {u} : steps'[v] = steps[v] /\ updates'[v] = updates[v]
    BY DEF UpdateTyped
  <2>2. RowOf(u)'
    BY DEF UpdateTyped, HelperRow, RowOf, Helping, Update!HelperStates, Update!Open
  <2>3. ASSUME NEW v \in Update!Updates, v # u PROVE RowOf(v)'
    BY <2>1, <2>3 DEF HelperRow, RowOf
  <2> QED BY <2>2, <2>3 DEF HelperRow
<1>4. HelperFiles'
  <2>1. \A v \in Update!Updates \ {u} : steps'[v] = steps[v] /\ updates'[v] = updates[v]
    BY DEF UpdateTyped
  <2>2. steps'[u] \in {"check", "give up", "over"}
    BY DEF UpdateTyped
  <2> QED BY <2>1, <2>2 DEF HelperFiles, Update!Installed
<1>5. Update!Honest
  BY DEF UpdateTyped, HelperRow, RowOf, Update!Honest, Update!Becomes, Update!Open,
     HelperFiles, Helping, Update!HelperStates, Update!Installed
<1>6. QED  BY <1>1, <1>2, <1>3, <1>4, <1>5

LEMMA UpdateGiveUpKept ==
  ASSUME UpdateInv, NEW u \in Update!Updates, Update!GiveUp(u)  PROVE UpdateInv' /\ Update!Honest
<1> USE DEF UpdateInv, Update!GiveUp, Update!FinishOperation, Update!At, Update!Goto,
   Update!Calm, Update!Row, Update!Trouble, Update!files, Update!Told
<1>1. UpdateTyped'
  BY DEF UpdateTyped, Update!None, UpdateRows, UpdatePoints, Update!Open,
     Update!Handling, Update!HelperStates, HelperRow, RowOf, Helping
<1>2. OneRowOpen'
  BY DEF UpdateTyped, OneRowOpen, HelperRow, RowOf, Update!Open, Update!Indexed, Helping,
     Update!HelperStates
<1>3. HelperRow'
  <2>1. \A v \in Update!Updates \ {u} : steps'[v] = steps[v] /\ updates'[v] = updates[v]
    BY DEF UpdateTyped
  <2>2. RowOf(u)'
    BY DEF UpdateTyped, HelperRow, RowOf, Helping, Update!HelperStates, Update!Open
  <2>3. ASSUME NEW v \in Update!Updates, v # u PROVE RowOf(v)'
    BY <2>1, <2>3 DEF HelperRow, RowOf
  <2> QED BY <2>2, <2>3 DEF HelperRow
<1>4. HelperFiles'
  <2>1. \A v \in Update!Updates \ {u} : steps'[v] = steps[v] /\ updates'[v] = updates[v]
    BY DEF UpdateTyped
  <2>2. steps'[u] \in {"check", "give up", "over"}
    BY DEF UpdateTyped
  <2> QED BY <2>1, <2>2 DEF HelperFiles, Update!Installed
<1>5. Update!Honest
  BY DEF UpdateTyped, HelperRow, RowOf, Update!Honest, Update!Becomes, Update!Open,
     HelperFiles, Helping, Update!HelperStates, Update!Installed
<1>6. QED  BY <1>1, <1>2, <1>3, <1>4, <1>5

LEMMA UpdateCheckKept ==
  ASSUME UpdateInv, NEW u \in Update!Updates, Update!Check(u)  PROVE UpdateInv' /\ Update!Honest
<1> USE DEF UpdateInv, Update!Check, Update!At, Update!Goto, Update!files, Update!Rows,
   Update!Told
<1>1. UpdateTyped'
  BY DEF UpdateTyped, Update!None, UpdateRows, UpdatePoints, Update!Open,
     Update!Handling, Update!HelperStates, HelperRow, RowOf, Helping
<1>2. OneRowOpen'
  BY DEF UpdateTyped, OneRowOpen, HelperRow, RowOf, Update!Open, Update!Indexed, Helping,
     Update!HelperStates
<1>3. HelperRow'
  <2>1. \A v \in Update!Updates \ {u} : steps'[v] = steps[v] /\ updates'[v] = updates[v]
    BY DEF UpdateTyped
  <2>2. RowOf(u)'
    BY DEF UpdateTyped, HelperRow, RowOf, Helping, Update!HelperStates, Update!Open
  <2>3. ASSUME NEW v \in Update!Updates, v # u PROVE RowOf(v)'
    BY <2>1, <2>3 DEF HelperRow, RowOf
  <2> QED BY <2>2, <2>3 DEF HelperRow
<1>4. HelperFiles'
  <2>1. \A v \in Update!Updates \ {u} : steps'[v] = steps[v] /\ updates'[v] = updates[v]
    BY DEF UpdateTyped
  <2>2. steps'[u] \in {"fetch", "over"}
    BY DEF UpdateTyped
  <2> QED BY <2>1, <2>2 DEF HelperFiles, Update!Installed
<1>5. Update!Honest
  BY DEF UpdateTyped, HelperRow, RowOf, Update!Honest, Update!Becomes, Update!Open,
     HelperFiles, Helping, Update!HelperStates, Update!Installed
<1>6. QED  BY <1>1, <1>2, <1>3, <1>4, <1>5

LEMMA UpdateFetchKept ==
  ASSUME UpdateInv, NEW u \in Update!Updates, Update!Fetch(u)  PROVE UpdateInv' /\ Update!Honest
<1> USE DEF UpdateInv, Update!Fetch, Update!Do, Update!Untouched, Update!Rows,
   Update!At, Update!Runs, Update!Calm, Update!Goto, Update!Trouble, Update!files
<1>1. UpdateTyped'
  <2>1. UpdateTyped
    OBVIOUS
  <2>2. (running \in Nat /\ binary \in Nat /\ checksum \in Nat /\ previous \in Nat)'
    BY <2>1 DEF UpdateTyped, Update!None
  <2>3. (updates \in [Update!Updates -> UpdateRows])'
    BY <2>1 DEF UpdateTyped, UpdateRows, Update!Open
  <2>4. (steps \in [Update!Updates -> UpdatePoints])'
    BY <2>1 DEF UpdateTyped, UpdatePoints, Update!Handling, Update!HelperStates
  <2>5. (target \in [Update!Updates -> Nat])'
    BY <2>1 DEF UpdateTyped, Update!Versions
  <2>6. (kept \in [Update!Updates -> Nat])'
    BY <2>1 DEF UpdateTyped
  <2>7. (young \subseteq Update!Updates)'
    BY <2>1 DEF UpdateTyped
  <2>8. QED  BY <2>2, <2>3, <2>4, <2>5, <2>6, <2>7 DEF UpdateTyped
<1>2. OneRowOpen'
  BY DEF UpdateTyped, OneRowOpen, HelperRow, RowOf, Update!Open, Update!Indexed, Helping,
     Update!HelperStates
<1>3. HelperRow'
  <2>1. \A v \in Update!Updates \ {u} : steps'[v] = steps[v] /\ updates'[v] = updates[v]
    BY DEF UpdateTyped
  <2>2. RowOf(u)'
    BY DEF UpdateTyped, HelperRow, RowOf, Helping, Update!HelperStates, Update!Open
  <2>3. ASSUME NEW v \in Update!Updates, v # u PROVE RowOf(v)'
    BY <2>1, <2>3 DEF HelperRow, RowOf
  <2> QED BY <2>2, <2>3 DEF HelperRow
<1>4. HelperFiles'
  <2>1. updates[u] \in Update!Open /\ steps[u] \in Helping
    BY DEF HelperRow, RowOf, Update!Open, Helping, Update!HelperStates
  <2>2. ASSUME NEW v \in Update!Updates, v # u
        PROVE  /\ steps'[v] \notin Helping
               /\ ~(steps'[v] = "success" /\ updates'[v] = "health_verified")
    <3>1. steps'[v] = steps[v] /\ updates'[v] = updates[v]
      BY <2>2 DEF UpdateTyped
    <3>2. QED  BY <2>1, <2>2, <3>1, HelperAlone
  <2>3. /\ steps'[u] \in {"replace", "sum", "restart", "verify", "report", "rollback"} => previous' = kept'[u]
        /\ steps'[u] = "sum" => binary' = target'[u]
        /\ steps'[u] = "restart" => binary' = target'[u] /\ checksum' = target'[u]
        /\ steps'[u] \in {"verify", "report"} => Update!Installed(target[u])'
        /\ steps'[u] = "success" /\ updates'[u] = "health_verified" => Update!Installed(target[u])'
        /\ steps'[u] = "resum" => binary' = kept'[u]
        /\ steps'[u] = "restart old" => binary' = kept'[u] /\ checksum' = kept'[u]
        /\ steps'[u] \in {"verify old", "rolled back"} => Update!Installed(kept[u])'
    BY DEF UpdateTyped, HelperFiles, Update!Installed
  <2> HIDE DEF Update!Fetch
  <2>4. QED  BY <2>2, <2>3 DEF HelperFiles, Helping, Update!HelperStates
<1>5. Update!Honest
  BY DEF UpdateTyped, HelperRow, RowOf, Update!Honest, Update!Becomes, Update!Open,
     HelperFiles, Helping, Update!HelperStates, Update!Installed
<1>6. QED  BY <1>1, <1>2, <1>3, <1>4, <1>5

LEMMA UpdateSaveKept ==
  ASSUME UpdateInv, NEW u \in Update!Updates, Update!Save(u)  PROVE UpdateInv' /\ Update!Honest
<1> USE DEF UpdateInv, Update!Save, Update!Do, Update!Rows, Update!Told, Update!At,
   Update!Runs, Update!Calm, Update!Goto, Update!Trouble, Update!files
<1>1. UpdateTyped'
  <2>1. UpdateTyped
    OBVIOUS
  <2>2. (running \in Nat /\ binary \in Nat /\ checksum \in Nat /\ previous \in Nat)'
    BY <2>1 DEF UpdateTyped, Update!None
  <2>3. (updates \in [Update!Updates -> UpdateRows])'
    BY <2>1 DEF UpdateTyped, UpdateRows, Update!Open
  <2>4. (steps \in [Update!Updates -> UpdatePoints])'
    BY <2>1 DEF UpdateTyped, UpdatePoints, Update!Handling, Update!HelperStates
  <2>5. (target \in [Update!Updates -> Nat])'
    BY <2>1 DEF UpdateTyped, Update!Versions
  <2>6. (kept \in [Update!Updates -> Nat])'
    BY <2>1 DEF UpdateTyped
  <2>7. (young \subseteq Update!Updates)'
    BY <2>1 DEF UpdateTyped
  <2>8. QED  BY <2>2, <2>3, <2>4, <2>5, <2>6, <2>7 DEF UpdateTyped
<1>2. OneRowOpen'
  BY DEF UpdateTyped, OneRowOpen, HelperRow, RowOf, Update!Open, Update!Indexed, Helping,
     Update!HelperStates
<1>3. HelperRow'
  <2>1. \A v \in Update!Updates \ {u} : steps'[v] = steps[v] /\ updates'[v] = updates[v]
    BY DEF UpdateTyped
  <2>2. RowOf(u)'
    BY DEF UpdateTyped, HelperRow, RowOf, Helping, Update!HelperStates, Update!Open
  <2>3. ASSUME NEW v \in Update!Updates, v # u PROVE RowOf(v)'
    BY <2>1, <2>3 DEF HelperRow, RowOf
  <2> QED BY <2>2, <2>3 DEF HelperRow
<1>4. HelperFiles'
  <2>1. updates[u] \in Update!Open /\ steps[u] \in Helping
    BY DEF HelperRow, RowOf, Update!Open, Helping, Update!HelperStates
  <2>2. ASSUME NEW v \in Update!Updates, v # u
        PROVE  /\ steps'[v] \notin Helping
               /\ ~(steps'[v] = "success" /\ updates'[v] = "health_verified")
    <3>1. steps'[v] = steps[v] /\ updates'[v] = updates[v]
      BY <2>2 DEF UpdateTyped
    <3>2. QED  BY <2>1, <2>2, <3>1, HelperAlone
  <2>3. /\ steps'[u] \in {"replace", "sum", "restart", "verify", "report", "rollback"} => previous' = kept'[u]
        /\ steps'[u] = "sum" => binary' = target'[u]
        /\ steps'[u] = "restart" => binary' = target'[u] /\ checksum' = target'[u]
        /\ steps'[u] \in {"verify", "report"} => Update!Installed(target[u])'
        /\ steps'[u] = "success" /\ updates'[u] = "health_verified" => Update!Installed(target[u])'
        /\ steps'[u] = "resum" => binary' = kept'[u]
        /\ steps'[u] = "restart old" => binary' = kept'[u] /\ checksum' = kept'[u]
        /\ steps'[u] \in {"verify old", "rolled back"} => Update!Installed(kept[u])'
    BY DEF UpdateTyped, HelperFiles, Update!Installed
  <2> HIDE DEF Update!Save
  <2>4. QED  BY <2>2, <2>3 DEF HelperFiles, Helping, Update!HelperStates
<1>5. Update!Honest
  BY DEF UpdateTyped, HelperRow, RowOf, Update!Honest, Update!Becomes, Update!Open,
     HelperFiles, Helping, Update!HelperStates, Update!Installed
<1>6. QED  BY <1>1, <1>2, <1>3, <1>4, <1>5

LEMMA UpdateReplaceKept ==
  ASSUME UpdateInv, NEW u \in Update!Updates, Update!Replace(u)  PROVE UpdateInv' /\ Update!Honest
<1> USE DEF UpdateInv, Update!Replace, Update!Do, Update!Wrote, Update!MayHaveWritten,
   Update!Rows, Update!Told, Update!At, Update!Runs, Update!Calm, Update!Goto,
   Update!Trouble, Update!files
<1>1. UpdateTyped'
  <2>1. UpdateTyped
    OBVIOUS
  <2>2. (running \in Nat /\ binary \in Nat /\ checksum \in Nat /\ previous \in Nat)'
    BY <2>1 DEF UpdateTyped, Update!None
  <2>3. (updates \in [Update!Updates -> UpdateRows])'
    BY <2>1 DEF UpdateTyped, UpdateRows, Update!Open
  <2>4. (steps \in [Update!Updates -> UpdatePoints])'
    BY <2>1 DEF UpdateTyped, UpdatePoints, Update!Handling, Update!HelperStates
  <2>5. (target \in [Update!Updates -> Nat])'
    BY <2>1 DEF UpdateTyped, Update!Versions
  <2>6. (kept \in [Update!Updates -> Nat])'
    BY <2>1 DEF UpdateTyped
  <2>7. (young \subseteq Update!Updates)'
    BY <2>1 DEF UpdateTyped
  <2>8. QED  BY <2>2, <2>3, <2>4, <2>5, <2>6, <2>7 DEF UpdateTyped
<1>2. OneRowOpen'
  BY DEF UpdateTyped, OneRowOpen, HelperRow, RowOf, Update!Open, Update!Indexed, Helping,
     Update!HelperStates
<1>3. HelperRow'
  <2>1. \A v \in Update!Updates \ {u} : steps'[v] = steps[v] /\ updates'[v] = updates[v]
    BY DEF UpdateTyped
  <2>2. RowOf(u)'
    BY DEF UpdateTyped, HelperRow, RowOf, Helping, Update!HelperStates, Update!Open
  <2>3. ASSUME NEW v \in Update!Updates, v # u PROVE RowOf(v)'
    BY <2>1, <2>3 DEF HelperRow, RowOf
  <2> QED BY <2>2, <2>3 DEF HelperRow
<1>4. HelperFiles'
  <2>1. updates[u] \in Update!Open /\ steps[u] \in Helping
    BY DEF HelperRow, RowOf, Update!Open, Helping, Update!HelperStates
  <2>2. ASSUME NEW v \in Update!Updates, v # u
        PROVE  /\ steps'[v] \notin Helping
               /\ ~(steps'[v] = "success" /\ updates'[v] = "health_verified")
    <3>1. steps'[v] = steps[v] /\ updates'[v] = updates[v]
      BY <2>2 DEF UpdateTyped
    <3>2. QED  BY <2>1, <2>2, <3>1, HelperAlone
  <2>3. /\ steps'[u] \in {"replace", "sum", "restart", "verify", "report", "rollback"} => previous' = kept'[u]
        /\ steps'[u] = "sum" => binary' = target'[u]
        /\ steps'[u] = "restart" => binary' = target'[u] /\ checksum' = target'[u]
        /\ steps'[u] \in {"verify", "report"} => Update!Installed(target[u])'
        /\ steps'[u] = "success" /\ updates'[u] = "health_verified" => Update!Installed(target[u])'
        /\ steps'[u] = "resum" => binary' = kept'[u]
        /\ steps'[u] = "restart old" => binary' = kept'[u] /\ checksum' = kept'[u]
        /\ steps'[u] \in {"verify old", "rolled back"} => Update!Installed(kept[u])'
    BY DEF UpdateTyped, HelperFiles, Update!Installed
  <2> HIDE DEF Update!Replace
  <2>4. QED  BY <2>2, <2>3 DEF HelperFiles, Helping, Update!HelperStates
<1>5. Update!Honest
  BY DEF UpdateTyped, HelperRow, RowOf, Update!Honest, Update!Becomes, Update!Open,
     HelperFiles, Helping, Update!HelperStates, Update!Installed
<1>6. QED  BY <1>1, <1>2, <1>3, <1>4, <1>5

LEMMA UpdateWriteChecksumKept ==
  ASSUME UpdateInv, NEW u \in Update!Updates, Update!WriteChecksum(u)
  PROVE  UpdateInv' /\ Update!Honest
<1> USE DEF UpdateInv, Update!WriteChecksum, Update!Do, Update!Summed,
   Update!MayHaveSummed, Update!Rows, Update!Told, Update!At, Update!Runs, Update!Calm,
   Update!Goto, Update!Trouble, Update!files
<1>1. UpdateTyped'
  <2>1. UpdateTyped
    OBVIOUS
  <2>2. (running \in Nat /\ binary \in Nat /\ checksum \in Nat /\ previous \in Nat)'
    BY <2>1 DEF UpdateTyped, Update!None
  <2>3. (updates \in [Update!Updates -> UpdateRows])'
    BY <2>1 DEF UpdateTyped, UpdateRows, Update!Open
  <2>4. (steps \in [Update!Updates -> UpdatePoints])'
    BY <2>1 DEF UpdateTyped, UpdatePoints, Update!Handling, Update!HelperStates
  <2>5. (target \in [Update!Updates -> Nat])'
    BY <2>1 DEF UpdateTyped, Update!Versions
  <2>6. (kept \in [Update!Updates -> Nat])'
    BY <2>1 DEF UpdateTyped
  <2>7. (young \subseteq Update!Updates)'
    BY <2>1 DEF UpdateTyped
  <2>8. QED  BY <2>2, <2>3, <2>4, <2>5, <2>6, <2>7 DEF UpdateTyped
<1>2. OneRowOpen'
  BY DEF UpdateTyped, OneRowOpen, HelperRow, RowOf, Update!Open, Update!Indexed, Helping,
     Update!HelperStates
<1>3. HelperRow'
  <2>1. \A v \in Update!Updates \ {u} : steps'[v] = steps[v] /\ updates'[v] = updates[v]
    BY DEF UpdateTyped
  <2>2. RowOf(u)'
    BY DEF UpdateTyped, HelperRow, RowOf, Helping, Update!HelperStates, Update!Open
  <2>3. ASSUME NEW v \in Update!Updates, v # u PROVE RowOf(v)'
    BY <2>1, <2>3 DEF HelperRow, RowOf
  <2> QED BY <2>2, <2>3 DEF HelperRow
<1>4. HelperFiles'
  <2>1. updates[u] \in Update!Open /\ steps[u] \in Helping
    BY DEF HelperRow, RowOf, Update!Open, Helping, Update!HelperStates
  <2>2. ASSUME NEW v \in Update!Updates, v # u
        PROVE  /\ steps'[v] \notin Helping
               /\ ~(steps'[v] = "success" /\ updates'[v] = "health_verified")
    <3>1. steps'[v] = steps[v] /\ updates'[v] = updates[v]
      BY <2>2 DEF UpdateTyped
    <3>2. QED  BY <2>1, <2>2, <3>1, HelperAlone
  <2>3. /\ steps'[u] \in {"replace", "sum", "restart", "verify", "report", "rollback"} => previous' = kept'[u]
        /\ steps'[u] = "sum" => binary' = target'[u]
        /\ steps'[u] = "restart" => binary' = target'[u] /\ checksum' = target'[u]
        /\ steps'[u] \in {"verify", "report"} => Update!Installed(target[u])'
        /\ steps'[u] = "success" /\ updates'[u] = "health_verified" => Update!Installed(target[u])'
        /\ steps'[u] = "resum" => binary' = kept'[u]
        /\ steps'[u] = "restart old" => binary' = kept'[u] /\ checksum' = kept'[u]
        /\ steps'[u] \in {"verify old", "rolled back"} => Update!Installed(kept[u])'
    BY DEF UpdateTyped, HelperFiles, Update!Installed
  <2> HIDE DEF Update!WriteChecksum
  <2>4. QED  BY <2>2, <2>3 DEF HelperFiles, Helping, Update!HelperStates
<1>5. Update!Honest
  BY DEF UpdateTyped, HelperRow, RowOf, Update!Honest, Update!Becomes, Update!Open,
     HelperFiles, Helping, Update!HelperStates, Update!Installed
<1>6. QED  BY <1>1, <1>2, <1>3, <1>4, <1>5

LEMMA UpdateRestartKept ==
  ASSUME UpdateInv, NEW u \in Update!Updates, Update!Restart(u)  PROVE UpdateInv' /\ Update!Honest
<1> USE DEF UpdateInv, Update!Restart, Update!Do, Update!Restarted,
   Update!MayHaveRestarted, Update!Rows, Update!Told, Update!At, Update!Runs,
   Update!Calm, Update!Goto, Update!Trouble, Update!files
<1>1. UpdateTyped'
  <2>1. UpdateTyped
    OBVIOUS
  <2>2. (running \in Nat /\ binary \in Nat /\ checksum \in Nat /\ previous \in Nat)'
    BY <2>1 DEF UpdateTyped, Update!None
  <2>3. (updates \in [Update!Updates -> UpdateRows])'
    BY <2>1 DEF UpdateTyped, UpdateRows, Update!Open
  <2>4. (steps \in [Update!Updates -> UpdatePoints])'
    BY <2>1 DEF UpdateTyped, UpdatePoints, Update!Handling, Update!HelperStates
  <2>5. (target \in [Update!Updates -> Nat])'
    BY <2>1 DEF UpdateTyped, Update!Versions
  <2>6. (kept \in [Update!Updates -> Nat])'
    BY <2>1 DEF UpdateTyped
  <2>7. (young \subseteq Update!Updates)'
    BY <2>1 DEF UpdateTyped
  <2>8. QED  BY <2>2, <2>3, <2>4, <2>5, <2>6, <2>7 DEF UpdateTyped
<1>2. OneRowOpen'
  BY DEF UpdateTyped, OneRowOpen, HelperRow, RowOf, Update!Open, Update!Indexed, Helping,
     Update!HelperStates
<1>3. HelperRow'
  <2>1. \A v \in Update!Updates \ {u} : steps'[v] = steps[v] /\ updates'[v] = updates[v]
    BY DEF UpdateTyped
  <2>2. RowOf(u)'
    BY DEF UpdateTyped, HelperRow, RowOf, Helping, Update!HelperStates, Update!Open
  <2>3. ASSUME NEW v \in Update!Updates, v # u PROVE RowOf(v)'
    BY <2>1, <2>3 DEF HelperRow, RowOf
  <2> QED BY <2>2, <2>3 DEF HelperRow
<1>4. HelperFiles'
  <2>1. updates[u] \in Update!Open /\ steps[u] \in Helping
    BY DEF HelperRow, RowOf, Update!Open, Helping, Update!HelperStates
  <2>2. ASSUME NEW v \in Update!Updates, v # u
        PROVE  /\ steps'[v] \notin Helping
               /\ ~(steps'[v] = "success" /\ updates'[v] = "health_verified")
    <3>1. steps'[v] = steps[v] /\ updates'[v] = updates[v]
      BY <2>2 DEF UpdateTyped
    <3>2. QED  BY <2>1, <2>2, <3>1, HelperAlone
  <2>3. /\ steps'[u] \in {"replace", "sum", "restart", "verify", "report", "rollback"} => previous' = kept'[u]
        /\ steps'[u] = "sum" => binary' = target'[u]
        /\ steps'[u] = "restart" => binary' = target'[u] /\ checksum' = target'[u]
        /\ steps'[u] \in {"verify", "report"} => Update!Installed(target[u])'
        /\ steps'[u] = "success" /\ updates'[u] = "health_verified" => Update!Installed(target[u])'
        /\ steps'[u] = "resum" => binary' = kept'[u]
        /\ steps'[u] = "restart old" => binary' = kept'[u] /\ checksum' = kept'[u]
        /\ steps'[u] \in {"verify old", "rolled back"} => Update!Installed(kept[u])'
    BY DEF UpdateTyped, HelperFiles, Update!Installed
  <2> HIDE DEF Update!Restart
  <2>4. QED  BY <2>2, <2>3 DEF HelperFiles, Helping, Update!HelperStates
<1>5. Update!Honest
  BY DEF UpdateTyped, HelperRow, RowOf, Update!Honest, Update!Becomes, Update!Open,
     HelperFiles, Helping, Update!HelperStates, Update!Installed
<1>6. QED  BY <1>1, <1>2, <1>3, <1>4, <1>5

LEMMA UpdateWaitKept ==
  ASSUME UpdateInv, NEW u \in Update!Updates, Update!Wait(u)  PROVE UpdateInv' /\ Update!Honest
<1> USE DEF UpdateInv, Update!Wait, Update!Do, Update!Untouched, Update!Rows,
   Update!Told, Update!At, Update!Runs, Update!Calm, Update!Goto, Update!Trouble,
   Update!files
<1>1. UpdateTyped'
  <2>1. UpdateTyped
    OBVIOUS
  <2>2. (running \in Nat /\ binary \in Nat /\ checksum \in Nat /\ previous \in Nat)'
    BY <2>1 DEF UpdateTyped, Update!None
  <2>3. (updates \in [Update!Updates -> UpdateRows])'
    BY <2>1 DEF UpdateTyped, UpdateRows, Update!Open
  <2>4. (steps \in [Update!Updates -> UpdatePoints])'
    BY <2>1 DEF UpdateTyped, UpdatePoints, Update!Handling, Update!HelperStates
  <2>5. (target \in [Update!Updates -> Nat])'
    BY <2>1 DEF UpdateTyped, Update!Versions
  <2>6. (kept \in [Update!Updates -> Nat])'
    BY <2>1 DEF UpdateTyped
  <2>7. (young \subseteq Update!Updates)'
    BY <2>1 DEF UpdateTyped
  <2>8. QED  BY <2>2, <2>3, <2>4, <2>5, <2>6, <2>7 DEF UpdateTyped
<1>2. OneRowOpen'
  BY DEF UpdateTyped, OneRowOpen, HelperRow, RowOf, Update!Open, Update!Indexed, Helping,
     Update!HelperStates
<1>3. HelperRow'
  <2>1. \A v \in Update!Updates \ {u} : steps'[v] = steps[v] /\ updates'[v] = updates[v]
    BY DEF UpdateTyped
  <2>2. RowOf(u)'
    BY DEF UpdateTyped, HelperRow, RowOf, Helping, Update!HelperStates, Update!Open
  <2>3. ASSUME NEW v \in Update!Updates, v # u PROVE RowOf(v)'
    BY <2>1, <2>3 DEF HelperRow, RowOf
  <2> QED BY <2>2, <2>3 DEF HelperRow
<1>4. HelperFiles'
  <2>1. updates[u] \in Update!Open /\ steps[u] \in Helping
    BY DEF HelperRow, RowOf, Update!Open, Helping, Update!HelperStates
  <2>2. ASSUME NEW v \in Update!Updates, v # u
        PROVE  /\ steps'[v] \notin Helping
               /\ ~(steps'[v] = "success" /\ updates'[v] = "health_verified")
    <3>1. steps'[v] = steps[v] /\ updates'[v] = updates[v]
      BY <2>2 DEF UpdateTyped
    <3>2. QED  BY <2>1, <2>2, <3>1, HelperAlone
  <2>3. /\ steps'[u] \in {"replace", "sum", "restart", "verify", "report", "rollback"} => previous' = kept'[u]
        /\ steps'[u] = "sum" => binary' = target'[u]
        /\ steps'[u] = "restart" => binary' = target'[u] /\ checksum' = target'[u]
        /\ steps'[u] \in {"verify", "report"} => Update!Installed(target[u])'
        /\ steps'[u] = "success" /\ updates'[u] = "health_verified" => Update!Installed(target[u])'
        /\ steps'[u] = "resum" => binary' = kept'[u]
        /\ steps'[u] = "restart old" => binary' = kept'[u] /\ checksum' = kept'[u]
        /\ steps'[u] \in {"verify old", "rolled back"} => Update!Installed(kept[u])'
    BY DEF UpdateTyped, HelperFiles, Update!Installed
  <2> HIDE DEF Update!Wait
  <2>4. QED  BY <2>2, <2>3 DEF HelperFiles, Helping, Update!HelperStates
<1>5. Update!Honest
  BY DEF UpdateTyped, HelperRow, RowOf, Update!Honest, Update!Becomes, Update!Open,
     HelperFiles, Helping, Update!HelperStates, Update!Installed
<1>6. QED  BY <1>1, <1>2, <1>3, <1>4, <1>5

LEMMA UpdateReportHealthKept ==
  ASSUME UpdateInv, NEW u \in Update!Updates, Update!ReportHealth(u)
  PROVE  UpdateInv' /\ Update!Honest
<1> USE DEF UpdateInv, Update!ReportHealth, Update!At, Update!Runs, Update!Calm,
   Update!Row, Update!Goto, Update!Trouble, Update!files, Update!Told
<1>1. UpdateTyped'
  <2>1. UpdateTyped
    OBVIOUS
  <2>2. (running \in Nat /\ binary \in Nat /\ checksum \in Nat /\ previous \in Nat)'
    BY <2>1 DEF UpdateTyped, Update!None
  <2>3. (updates \in [Update!Updates -> UpdateRows])'
    BY <2>1 DEF UpdateTyped, UpdateRows, Update!Open
  <2>4. (steps \in [Update!Updates -> UpdatePoints])'
    BY <2>1 DEF UpdateTyped, UpdatePoints, Update!Handling, Update!HelperStates
  <2>5. (target \in [Update!Updates -> Nat])'
    BY <2>1 DEF UpdateTyped, Update!Versions
  <2>6. (kept \in [Update!Updates -> Nat])'
    BY <2>1 DEF UpdateTyped
  <2>7. (young \subseteq Update!Updates)'
    BY <2>1 DEF UpdateTyped
  <2>8. QED  BY <2>2, <2>3, <2>4, <2>5, <2>6, <2>7 DEF UpdateTyped
<1>2. OneRowOpen'
  BY ZenonT(60) DEF UpdateTyped, OneRowOpen, HelperRow, RowOf, Update!Open, Update!Indexed, Helping,
     Update!HelperStates
<1>3. HelperRow'
  <2>1. \A v \in Update!Updates \ {u} : steps'[v] = steps[v] /\ updates'[v] = updates[v]
    BY DEF UpdateTyped
  <2>2. RowOf(u)'
    BY DEF UpdateTyped, HelperRow, RowOf, Helping, Update!HelperStates, Update!Open
  <2>3. ASSUME NEW v \in Update!Updates, v # u PROVE RowOf(v)'
    BY <2>1, <2>3 DEF HelperRow, RowOf
  <2> QED BY <2>2, <2>3 DEF HelperRow
<1>4. HelperFiles'
  <2>1. updates[u] \in Update!Open /\ steps[u] \in Helping
    BY DEF HelperRow, RowOf, Update!Open, Helping, Update!HelperStates
  <2>2. ASSUME NEW v \in Update!Updates, v # u
        PROVE  /\ steps'[v] \notin Helping
               /\ ~(steps'[v] = "success" /\ updates'[v] = "health_verified")
    <3>1. steps'[v] = steps[v] /\ updates'[v] = updates[v]
      BY <2>2 DEF UpdateTyped
    <3>2. QED  BY <2>1, <2>2, <3>1, HelperAlone
  <2>3. /\ steps'[u] \in {"replace", "sum", "restart", "verify", "report", "rollback"} => previous' = kept'[u]
        /\ steps'[u] = "sum" => binary' = target'[u]
        /\ steps'[u] = "restart" => binary' = target'[u] /\ checksum' = target'[u]
        /\ steps'[u] \in {"verify", "report"} => Update!Installed(target[u])'
        /\ steps'[u] = "success" /\ updates'[u] = "health_verified" => Update!Installed(target[u])'
        /\ steps'[u] = "resum" => binary' = kept'[u]
        /\ steps'[u] = "restart old" => binary' = kept'[u] /\ checksum' = kept'[u]
        /\ steps'[u] \in {"verify old", "rolled back"} => Update!Installed(kept[u])'
    BY DEF UpdateTyped, HelperFiles, Update!Installed
  <2> HIDE DEF Update!ReportHealth
  <2>4. QED  BY <2>2, <2>3 DEF HelperFiles, Helping, Update!HelperStates
<1>5. Update!Honest
  BY DEF UpdateTyped, HelperRow, RowOf, Update!Honest, Update!Becomes, Update!Open,
     HelperFiles, Helping, Update!HelperStates, Update!Installed
<1>6. QED  BY <1>1, <1>2, <1>3, <1>4, <1>5

LEMMA UpdateRollBackKept ==
  ASSUME UpdateInv, NEW u \in Update!Updates, Update!RollBack(u)
  PROVE  UpdateInv' /\ Update!Honest
<1> USE DEF UpdateInv, Update!RollBack, Update!Do, Update!Wrote, Update!MayHaveWritten,
   Update!Attempt, Update!Rows, Update!At, Update!Runs, Update!Calm, Update!Goto,
   Update!Trouble, Update!files
<1>1. UpdateTyped'
  <2>1. UpdateTyped
    OBVIOUS
  <2>2. (running \in Nat /\ binary \in Nat /\ checksum \in Nat /\ previous \in Nat)'
    BY <2>1 DEF UpdateTyped, Update!None
  <2>3. (updates \in [Update!Updates -> UpdateRows])'
    BY <2>1 DEF UpdateTyped, UpdateRows, Update!Open
  <2>4. (steps \in [Update!Updates -> UpdatePoints])'
    BY <2>1 DEF UpdateTyped, UpdatePoints, Update!Handling, Update!HelperStates
  <2>5. (target \in [Update!Updates -> Nat])'
    BY <2>1 DEF UpdateTyped, Update!Versions
  <2>6. (kept \in [Update!Updates -> Nat])'
    BY <2>1 DEF UpdateTyped
  <2>7. (young \subseteq Update!Updates)'
    BY <2>1 DEF UpdateTyped
  <2>8. QED  BY <2>2, <2>3, <2>4, <2>5, <2>6, <2>7 DEF UpdateTyped
<1>2. OneRowOpen'
  BY DEF UpdateTyped, OneRowOpen, HelperRow, RowOf, Update!Open, Update!Indexed, Helping,
     Update!HelperStates
<1>3. HelperRow'
  <2>1. \A v \in Update!Updates \ {u} : steps'[v] = steps[v] /\ updates'[v] = updates[v]
    BY DEF UpdateTyped
  <2>2. RowOf(u)'
    BY DEF UpdateTyped, HelperRow, RowOf, Helping, Update!HelperStates, Update!Open
  <2>3. ASSUME NEW v \in Update!Updates, v # u PROVE RowOf(v)'
    BY <2>1, <2>3 DEF HelperRow, RowOf
  <2> QED BY <2>2, <2>3 DEF HelperRow
<1>4. HelperFiles'
  <2>1. updates[u] \in Update!Open /\ steps[u] \in Helping
    BY DEF HelperRow, RowOf, Update!Open, Helping, Update!HelperStates
  <2>2. ASSUME NEW v \in Update!Updates, v # u
        PROVE  /\ steps'[v] \notin Helping
               /\ ~(steps'[v] = "success" /\ updates'[v] = "health_verified")
    <3>1. steps'[v] = steps[v] /\ updates'[v] = updates[v]
      BY <2>2 DEF UpdateTyped
    <3>2. QED  BY <2>1, <2>2, <3>1, HelperAlone
  <2>3. /\ steps'[u] \in {"replace", "sum", "restart", "verify", "report", "rollback"} => previous' = kept'[u]
        /\ steps'[u] = "sum" => binary' = target'[u]
        /\ steps'[u] = "restart" => binary' = target'[u] /\ checksum' = target'[u]
        /\ steps'[u] \in {"verify", "report"} => Update!Installed(target[u])'
        /\ steps'[u] = "success" /\ updates'[u] = "health_verified" => Update!Installed(target[u])'
        /\ steps'[u] = "resum" => binary' = kept'[u]
        /\ steps'[u] = "restart old" => binary' = kept'[u] /\ checksum' = kept'[u]
        /\ steps'[u] \in {"verify old", "rolled back"} => Update!Installed(kept[u])'
    BY DEF UpdateTyped, HelperFiles, Update!Installed
  <2> HIDE DEF Update!RollBack
  <2>4. QED  BY <2>2, <2>3 DEF HelperFiles, Helping, Update!HelperStates
<1>5. Update!Honest
  BY DEF UpdateTyped, HelperRow, RowOf, Update!Honest, Update!Becomes, Update!Open,
     HelperFiles, Helping, Update!HelperStates, Update!Installed
<1>6. QED  BY <1>1, <1>2, <1>3, <1>4, <1>5

LEMMA UpdateResumKept ==
  ASSUME UpdateInv, NEW u \in Update!Updates, Update!Resum(u)  PROVE UpdateInv' /\ Update!Honest
<1> USE DEF UpdateInv, Update!Resum, Update!Do, Update!Summed, Update!MayHaveSummed,
   Update!Rows, Update!Told, Update!At, Update!Runs, Update!Calm, Update!Goto,
   Update!Trouble, Update!files
<1>1. UpdateTyped'
  <2>1. UpdateTyped
    OBVIOUS
  <2>2. (running \in Nat /\ binary \in Nat /\ checksum \in Nat /\ previous \in Nat)'
    BY <2>1 DEF UpdateTyped, Update!None
  <2>3. (updates \in [Update!Updates -> UpdateRows])'
    BY <2>1 DEF UpdateTyped, UpdateRows, Update!Open
  <2>4. (steps \in [Update!Updates -> UpdatePoints])'
    BY <2>1 DEF UpdateTyped, UpdatePoints, Update!Handling, Update!HelperStates
  <2>5. (target \in [Update!Updates -> Nat])'
    BY <2>1 DEF UpdateTyped, Update!Versions
  <2>6. (kept \in [Update!Updates -> Nat])'
    BY <2>1 DEF UpdateTyped
  <2>7. (young \subseteq Update!Updates)'
    BY <2>1 DEF UpdateTyped
  <2>8. QED  BY <2>2, <2>3, <2>4, <2>5, <2>6, <2>7 DEF UpdateTyped
<1>2. OneRowOpen'
  BY DEF UpdateTyped, OneRowOpen, HelperRow, RowOf, Update!Open, Update!Indexed, Helping,
     Update!HelperStates
<1>3. HelperRow'
  <2>1. \A v \in Update!Updates \ {u} : steps'[v] = steps[v] /\ updates'[v] = updates[v]
    BY DEF UpdateTyped
  <2>2. RowOf(u)'
    BY DEF UpdateTyped, HelperRow, RowOf, Helping, Update!HelperStates, Update!Open
  <2>3. ASSUME NEW v \in Update!Updates, v # u PROVE RowOf(v)'
    BY <2>1, <2>3 DEF HelperRow, RowOf
  <2> QED BY <2>2, <2>3 DEF HelperRow
<1>4. HelperFiles'
  <2>1. updates[u] \in Update!Open /\ steps[u] \in Helping
    BY DEF HelperRow, RowOf, Update!Open, Helping, Update!HelperStates
  <2>2. ASSUME NEW v \in Update!Updates, v # u
        PROVE  /\ steps'[v] \notin Helping
               /\ ~(steps'[v] = "success" /\ updates'[v] = "health_verified")
    <3>1. steps'[v] = steps[v] /\ updates'[v] = updates[v]
      BY <2>2 DEF UpdateTyped
    <3>2. QED  BY <2>1, <2>2, <3>1, HelperAlone
  <2>3. /\ steps'[u] \in {"replace", "sum", "restart", "verify", "report", "rollback"} => previous' = kept'[u]
        /\ steps'[u] = "sum" => binary' = target'[u]
        /\ steps'[u] = "restart" => binary' = target'[u] /\ checksum' = target'[u]
        /\ steps'[u] \in {"verify", "report"} => Update!Installed(target[u])'
        /\ steps'[u] = "success" /\ updates'[u] = "health_verified" => Update!Installed(target[u])'
        /\ steps'[u] = "resum" => binary' = kept'[u]
        /\ steps'[u] = "restart old" => binary' = kept'[u] /\ checksum' = kept'[u]
        /\ steps'[u] \in {"verify old", "rolled back"} => Update!Installed(kept[u])'
    BY DEF UpdateTyped, HelperFiles, Update!Installed
  <2> HIDE DEF Update!Resum
  <2>4. QED  BY <2>2, <2>3 DEF HelperFiles, Helping, Update!HelperStates
<1>5. Update!Honest
  BY DEF UpdateTyped, HelperRow, RowOf, Update!Honest, Update!Becomes, Update!Open,
     HelperFiles, Helping, Update!HelperStates, Update!Installed
<1>6. QED  BY <1>1, <1>2, <1>3, <1>4, <1>5

LEMMA UpdateRestartOldKept ==
  ASSUME UpdateInv, NEW u \in Update!Updates, Update!RestartOld(u)
  PROVE  UpdateInv' /\ Update!Honest
<1> USE DEF UpdateInv, Update!RestartOld, Update!Do, Update!Restarted,
   Update!MayHaveRestarted, Update!Rows, Update!Told, Update!At, Update!Runs,
   Update!Calm, Update!Goto, Update!Trouble, Update!files
<1>1. UpdateTyped'
  <2>1. UpdateTyped
    OBVIOUS
  <2>2. (running \in Nat /\ binary \in Nat /\ checksum \in Nat /\ previous \in Nat)'
    <3>1. running' \in {Update!None, running, binary} /\ UNCHANGED <<binary, checksum, previous>>
      OBVIOUS
    <3> HIDE DEF Update!RestartOld
    <3>2. QED  BY <2>1, <3>1 DEF UpdateTyped, Update!None
  <2>3. (updates \in [Update!Updates -> UpdateRows])'
    BY <2>1 DEF UpdateTyped, UpdateRows, Update!Open
  <2>4. (steps \in [Update!Updates -> UpdatePoints])'
    BY <2>1 DEF UpdateTyped, UpdatePoints, Update!Handling, Update!HelperStates
  <2>5. (target \in [Update!Updates -> Nat])'
    BY <2>1 DEF UpdateTyped, Update!Versions
  <2>6. (kept \in [Update!Updates -> Nat])'
    BY <2>1 DEF UpdateTyped
  <2>7. (young \subseteq Update!Updates)'
    BY <2>1 DEF UpdateTyped
  <2>8. QED  BY <2>2, <2>3, <2>4, <2>5, <2>6, <2>7 DEF UpdateTyped
<1>2. OneRowOpen'
  BY DEF UpdateTyped, OneRowOpen, HelperRow, RowOf, Update!Open, Update!Indexed, Helping,
     Update!HelperStates
<1>3. HelperRow'
  <2>1. \A v \in Update!Updates \ {u} : steps'[v] = steps[v] /\ updates'[v] = updates[v]
    BY DEF UpdateTyped
  <2>2. RowOf(u)'
    BY DEF UpdateTyped, HelperRow, RowOf, Helping, Update!HelperStates, Update!Open
  <2>3. ASSUME NEW v \in Update!Updates, v # u PROVE RowOf(v)'
    BY <2>1, <2>3 DEF HelperRow, RowOf
  <2> QED BY <2>2, <2>3 DEF HelperRow
<1>4. HelperFiles'
  <2>1. updates[u] \in Update!Open /\ steps[u] \in Helping
    BY DEF HelperRow, RowOf, Update!Open, Helping, Update!HelperStates
  <2>2. ASSUME NEW v \in Update!Updates, v # u
        PROVE  /\ steps'[v] \notin Helping
               /\ ~(steps'[v] = "success" /\ updates'[v] = "health_verified")
    <3>1. steps'[v] = steps[v] /\ updates'[v] = updates[v]
      BY <2>2 DEF UpdateTyped
    <3>2. QED  BY <2>1, <2>2, <3>1, HelperAlone
  <2>3. /\ steps'[u] \in {"replace", "sum", "restart", "verify", "report", "rollback"} => previous' = kept'[u]
        /\ steps'[u] = "sum" => binary' = target'[u]
        /\ steps'[u] = "restart" => binary' = target'[u] /\ checksum' = target'[u]
        /\ steps'[u] \in {"verify", "report"} => Update!Installed(target[u])'
        /\ steps'[u] = "success" /\ updates'[u] = "health_verified" => Update!Installed(target[u])'
        /\ steps'[u] = "resum" => binary' = kept'[u]
        /\ steps'[u] = "restart old" => binary' = kept'[u] /\ checksum' = kept'[u]
        /\ steps'[u] \in {"verify old", "rolled back"} => Update!Installed(kept[u])'
    BY DEF UpdateTyped, HelperFiles, Update!Installed
  <2> HIDE DEF Update!RestartOld
  <2>4. QED  BY <2>2, <2>3 DEF HelperFiles, Helping, Update!HelperStates
<1>5. Update!Honest
  BY DEF UpdateTyped, HelperRow, RowOf, Update!Honest, Update!Becomes, Update!Open,
     HelperFiles, Helping, Update!HelperStates, Update!Installed
<1>6. QED  BY <1>1, <1>2, <1>3, <1>4, <1>5

LEMMA UpdateWaitOldKept ==
  ASSUME UpdateInv, NEW u \in Update!Updates, Update!WaitOld(u)  PROVE UpdateInv' /\ Update!Honest
<1> USE DEF UpdateInv, Update!WaitOld, Update!Do, Update!Untouched, Update!Attempt,
   Update!Rows, Update!At, Update!Runs, Update!Calm, Update!Goto, Update!Trouble,
   Update!files
<1>1. UpdateTyped'
  <2>1. UpdateTyped
    OBVIOUS
  <2>2. (running \in Nat /\ binary \in Nat /\ checksum \in Nat /\ previous \in Nat)'
    BY <2>1 DEF UpdateTyped, Update!None
  <2>3. (updates \in [Update!Updates -> UpdateRows])'
    BY <2>1 DEF UpdateTyped, UpdateRows, Update!Open
  <2>4. (steps \in [Update!Updates -> UpdatePoints])'
    BY <2>1 DEF UpdateTyped, UpdatePoints, Update!Handling, Update!HelperStates
  <2>5. (target \in [Update!Updates -> Nat])'
    BY <2>1 DEF UpdateTyped, Update!Versions
  <2>6. (kept \in [Update!Updates -> Nat])'
    BY <2>1 DEF UpdateTyped
  <2>7. (young \subseteq Update!Updates)'
    BY <2>1 DEF UpdateTyped
  <2>8. QED  BY <2>2, <2>3, <2>4, <2>5, <2>6, <2>7 DEF UpdateTyped
<1>2. OneRowOpen'
  BY DEF UpdateTyped, OneRowOpen, HelperRow, RowOf, Update!Open, Update!Indexed, Helping,
     Update!HelperStates
<1>3. HelperRow'
  <2>1. \A v \in Update!Updates \ {u} : steps'[v] = steps[v] /\ updates'[v] = updates[v]
    BY DEF UpdateTyped
  <2>2. RowOf(u)'
    BY DEF UpdateTyped, HelperRow, RowOf, Helping, Update!HelperStates, Update!Open
  <2>3. ASSUME NEW v \in Update!Updates, v # u PROVE RowOf(v)'
    BY <2>1, <2>3 DEF HelperRow, RowOf
  <2> QED BY <2>2, <2>3 DEF HelperRow
<1>4. HelperFiles'
  <2>1. updates[u] \in Update!Open /\ steps[u] \in Helping
    BY DEF HelperRow, RowOf, Update!Open, Helping, Update!HelperStates
  <2>2. ASSUME NEW v \in Update!Updates, v # u
        PROVE  /\ steps'[v] \notin Helping
               /\ ~(steps'[v] = "success" /\ updates'[v] = "health_verified")
    <3>1. steps'[v] = steps[v] /\ updates'[v] = updates[v]
      BY <2>2 DEF UpdateTyped
    <3>2. QED  BY <2>1, <2>2, <3>1, HelperAlone
  <2>3. /\ steps'[u] \in {"replace", "sum", "restart", "verify", "report", "rollback"} => previous' = kept'[u]
        /\ steps'[u] = "sum" => binary' = target'[u]
        /\ steps'[u] = "restart" => binary' = target'[u] /\ checksum' = target'[u]
        /\ steps'[u] \in {"verify", "report"} => Update!Installed(target[u])'
        /\ steps'[u] = "success" /\ updates'[u] = "health_verified" => Update!Installed(target[u])'
        /\ steps'[u] = "resum" => binary' = kept'[u]
        /\ steps'[u] = "restart old" => binary' = kept'[u] /\ checksum' = kept'[u]
        /\ steps'[u] \in {"verify old", "rolled back"} => Update!Installed(kept[u])'
    BY DEF UpdateTyped, HelperFiles, Update!Installed
  <2> HIDE DEF Update!WaitOld
  <2>4. QED  BY <2>2, <2>3 DEF HelperFiles, Helping, Update!HelperStates
<1>5. Update!Honest
  BY DEF UpdateTyped, HelperRow, RowOf, Update!Honest, Update!Becomes, Update!Open,
     HelperFiles, Helping, Update!HelperStates, Update!Installed
<1>6. QED  BY <1>1, <1>2, <1>3, <1>4, <1>5

LEMMA UpdateSucceedKept ==
  ASSUME UpdateInv, NEW u \in Update!Updates, Update!Succeed(u)  PROVE UpdateInv' /\ Update!Honest
<1> USE DEF UpdateInv, Update!Succeed, Update!FinishOperation, Update!At, Update!Goto,
   Update!Calm, Update!Row, Update!Trouble, Update!files, Update!Told
<1>1. UpdateTyped'
  BY DEF UpdateTyped, Update!None, UpdateRows, UpdatePoints, Update!Open,
     Update!Handling, Update!HelperStates, HelperRow, RowOf, Helping
<1>2. OneRowOpen'
  BY DEF UpdateTyped, OneRowOpen, HelperRow, RowOf, Update!Open, Update!Indexed, Helping,
     Update!HelperStates
<1>3. HelperRow'
  <2>1. \A v \in Update!Updates \ {u} : steps'[v] = steps[v] /\ updates'[v] = updates[v]
    BY DEF UpdateTyped
  <2>2. RowOf(u)'
    BY DEF UpdateTyped, HelperRow, RowOf, Helping, Update!HelperStates, Update!Open
  <2>3. ASSUME NEW v \in Update!Updates, v # u PROVE RowOf(v)'
    BY <2>1, <2>3 DEF HelperRow, RowOf
  <2> QED BY <2>2, <2>3 DEF HelperRow
<1>4. HelperFiles'
  BY HelperAlone DEF UpdateTyped, HelperRow, RowOf, Update!Open, HelperFiles, Helping,
     Update!HelperStates, Update!Installed
<1>5. Update!Honest
  BY DEF UpdateTyped, HelperRow, RowOf, Update!Honest, Update!Becomes, Update!Open,
     HelperFiles, Helping, Update!HelperStates, Update!Installed
<1>6. QED  BY <1>1, <1>2, <1>3, <1>4, <1>5

LEMMA UpdateFailKept ==
  ASSUME UpdateInv, NEW u \in Update!Updates, Update!Fail(u)  PROVE UpdateInv' /\ Update!Honest
<1> USE DEF UpdateInv, Update!Fail, Update!FinishOperation, Update!At, Update!Goto,
   Update!Calm, Update!Row, Update!Trouble, Update!files, Update!Told
<1>1. UpdateTyped'
  BY DEF UpdateTyped, Update!None, UpdateRows, UpdatePoints, Update!Open,
     Update!Handling, Update!HelperStates, HelperRow, RowOf, Helping
<1>2. OneRowOpen'
  BY DEF UpdateTyped, OneRowOpen, HelperRow, RowOf, Update!Open, Update!Indexed, Helping,
     Update!HelperStates
<1>3. HelperRow'
  <2>1. \A v \in Update!Updates \ {u} : steps'[v] = steps[v] /\ updates'[v] = updates[v]
    BY DEF UpdateTyped
  <2>2. RowOf(u)'
    BY DEF UpdateTyped, HelperRow, RowOf, Helping, Update!HelperStates, Update!Open
  <2>3. ASSUME NEW v \in Update!Updates, v # u PROVE RowOf(v)'
    BY <2>1, <2>3 DEF HelperRow, RowOf
  <2> QED BY <2>2, <2>3 DEF HelperRow
<1>4. HelperFiles'
  <2>1. updates[u] \in Update!Open /\ steps[u] = "failed"
    BY DEF HelperRow, RowOf, Update!Open, Helping, Update!HelperStates
  <2>2. ASSUME NEW v \in Update!Updates, v # u
        PROVE  /\ steps'[v] \notin Helping
               /\ ~(steps'[v] = "success" /\ updates'[v] = "health_verified")
    <3>1. steps'[v] = steps[v] /\ updates'[v] = updates[v]
      BY <2>2 DEF UpdateTyped
    <3>2. QED  BY <2>1, <2>2, <3>1, HelperAlone
  <2>3. steps'[u] = "over"
    BY DEF UpdateTyped
  <2>4. QED  BY <2>2, <2>3 DEF HelperFiles, Helping, Update!HelperStates
<1>5. Update!Honest
  BY DEF UpdateTyped, HelperRow, RowOf, Update!Honest, Update!Becomes, Update!Open,
     HelperFiles, Helping, Update!HelperStates, Update!Installed
<1>6. QED  BY <1>1, <1>2, <1>3, <1>4, <1>5

LEMMA UpdateRolledBackKept ==
  ASSUME UpdateInv, NEW u \in Update!Updates, Update!RolledBack(u)
  PROVE  UpdateInv' /\ Update!Honest
<1> USE DEF UpdateInv, Update!RolledBack, Update!FinishOperation, Update!At,
   Update!Goto, Update!Calm, Update!Row, Update!Trouble, Update!files, Update!Told
<1>1. UpdateTyped'
  BY DEF UpdateTyped, Update!None, UpdateRows, UpdatePoints, Update!Open,
     Update!Handling, Update!HelperStates, HelperRow, RowOf, Helping
<1>2. OneRowOpen'
  BY DEF UpdateTyped, OneRowOpen, HelperRow, RowOf, Update!Open, Update!Indexed, Helping,
     Update!HelperStates
<1>3. HelperRow'
  <2>1. \A v \in Update!Updates \ {u} : steps'[v] = steps[v] /\ updates'[v] = updates[v]
    BY DEF UpdateTyped
  <2>2. RowOf(u)'
    BY DEF UpdateTyped, HelperRow, RowOf, Helping, Update!HelperStates, Update!Open
  <2>3. ASSUME NEW v \in Update!Updates, v # u PROVE RowOf(v)'
    BY <2>1, <2>3 DEF HelperRow, RowOf
  <2> QED BY <2>2, <2>3 DEF HelperRow
<1>4. HelperFiles'
  <2>1. updates[u] \in Update!Open /\ steps[u] = "rolled back"
    BY DEF HelperRow, RowOf, Update!Open, Helping, Update!HelperStates
  <2>2. ASSUME NEW v \in Update!Updates, v # u
        PROVE  /\ steps'[v] \notin Helping
               /\ ~(steps'[v] = "success" /\ updates'[v] = "health_verified")
    <3>1. steps'[v] = steps[v] /\ updates'[v] = updates[v]
      BY <2>2 DEF UpdateTyped
    <3>2. QED  BY <2>1, <2>2, <3>1, HelperAlone
  <2>3. steps'[u] = "over"
    BY DEF UpdateTyped
  <2>4. QED  BY <2>2, <2>3 DEF HelperFiles, Helping, Update!HelperStates
<1>5. Update!Honest
  BY DEF UpdateTyped, HelperRow, RowOf, Update!Honest, Update!Becomes, Update!Open,
     HelperFiles, Helping, Update!HelperStates, Update!Installed
<1>6. QED  BY <1>1, <1>2, <1>3, <1>4, <1>5

LEMMA UpdateNotRestoredKept ==
  ASSUME UpdateInv, NEW u \in Update!Updates, Update!NotRestored(u)
  PROVE  UpdateInv' /\ Update!Honest
<1> USE DEF UpdateInv, Update!NotRestored, Update!FinishOperation, Update!At,
   Update!Goto, Update!Calm, Update!Row, Update!Trouble, Update!files, Update!Told
<1>1. UpdateTyped'
  BY DEF UpdateTyped, Update!None, UpdateRows, UpdatePoints, Update!Open,
     Update!Handling, Update!HelperStates, HelperRow, RowOf, Helping
<1>2. OneRowOpen'
  BY DEF UpdateTyped, OneRowOpen, HelperRow, RowOf, Update!Open, Update!Indexed, Helping,
     Update!HelperStates
<1>3. HelperRow'
  <2>1. \A v \in Update!Updates \ {u} : steps'[v] = steps[v] /\ updates'[v] = updates[v]
    BY DEF UpdateTyped
  <2>2. RowOf(u)'
    BY DEF UpdateTyped, HelperRow, RowOf, Helping, Update!HelperStates, Update!Open
  <2>3. ASSUME NEW v \in Update!Updates, v # u PROVE RowOf(v)'
    BY <2>1, <2>3 DEF HelperRow, RowOf
  <2> QED BY <2>2, <2>3 DEF HelperRow
<1>4. HelperFiles'
  <2>1. updates[u] \in Update!Open /\ steps[u] = "not restored"
    BY DEF HelperRow, RowOf, Update!Open, Helping, Update!HelperStates
  <2>2. ASSUME NEW v \in Update!Updates, v # u
        PROVE  /\ steps'[v] \notin Helping
               /\ ~(steps'[v] = "success" /\ updates'[v] = "health_verified")
    <3>1. steps'[v] = steps[v] /\ updates'[v] = updates[v]
      BY <2>2 DEF UpdateTyped
    <3>2. QED  BY <2>1, <2>2, <3>1, HelperAlone
  <2>3. steps'[u] = "over"
    BY DEF UpdateTyped
  <2>4. QED  BY <2>2, <2>3 DEF HelperFiles, Helping, Update!HelperStates
<1>5. Update!Honest
  BY DEF UpdateTyped, HelperRow, RowOf, Update!Honest, Update!Becomes, Update!Open,
     HelperFiles, Helping, Update!HelperStates, Update!Installed
<1>6. QED  BY <1>1, <1>2, <1>3, <1>4, <1>5

LEMMA UpdateAgeKept ==
  ASSUME UpdateInv, NEW u \in Update!Updates, Update!Age(u)  PROVE UpdateInv' /\ Update!Honest
<1> USE DEF UpdateInv, Update!Age, Update!files, Update!Told
<1>1. UpdateTyped'
  BY DEF UpdateTyped, Update!None, UpdateRows, UpdatePoints, Update!Open,
     Update!Handling, Update!HelperStates, HelperRow, RowOf, Helping
<1>2. OneRowOpen'
  BY DEF UpdateTyped, OneRowOpen, HelperRow, RowOf, Update!Open, Update!Indexed, Helping,
     Update!HelperStates
<1>3. HelperRow'
  <2>1. \A v \in Update!Updates \ {u} : steps'[v] = steps[v] /\ updates'[v] = updates[v]
    BY DEF UpdateTyped
  <2>2. RowOf(u)'
    BY DEF UpdateTyped, HelperRow, RowOf, Helping, Update!HelperStates, Update!Open
  <2>3. ASSUME NEW v \in Update!Updates, v # u PROVE RowOf(v)'
    BY <2>1, <2>3 DEF HelperRow, RowOf
  <2> QED BY <2>2, <2>3 DEF HelperRow
<1>4. HelperFiles'
  BY HelperAlone DEF UpdateTyped, HelperRow, RowOf, Update!Open, HelperFiles, Helping,
     Update!HelperStates, Update!Installed
<1>5. Update!Honest
  BY DEF UpdateTyped, HelperRow, RowOf, Update!Honest, Update!Becomes, Update!Open,
     HelperFiles, Helping, Update!HelperStates, Update!Installed
<1>6. QED  BY <1>1, <1>2, <1>3, <1>4, <1>5

LEMMA UpdateServiceKept ==
  ASSUME UpdateInv, NEW ended \in {Update!Handling,
         Update!Handling \cup Update!HelperStates}, Update!StartService(ended)
  PROVE  UpdateInv' /\ Update!Honest
<1> USE DEF UpdateInv, Update!StartService, Update!Trouble, Update!files, Update!Told
<1>1. UpdateTyped'
  BY DEF UpdateTyped, UpdateRows, UpdatePoints
<1>2. OneRowOpen'
  BY DEF UpdateTyped, OneRowOpen, Update!Open
<1>3. HelperRow'
  BY DEF UpdateTyped, HelperRow, RowOf, Helping, Update!HelperStates, Update!Open,
     Update!Spared, Update!Handling
<1>4. HelperFiles'
  BY DEF UpdateTyped, HelperRow, RowOf, HelperFiles, Helping, Update!HelperStates,
     Update!Installed, Update!Open, Update!Spared, Update!Handling
<1>5. Update!Honest
  BY DEF UpdateTyped, Update!Honest, Update!Becomes
<1>6. QED  BY <1>1, <1>2, <1>3, <1>4, <1>5

LEMMA UpdateStays == ASSUME UpdateInv, UNCHANGED Update!vars  PROVE UpdateInv'
<1>1. UNCHANGED updateVars
  BY DEF Update!vars, Update!files, updateVars
<1>2. QED
  BY <1>1 DEF updateVars, UpdateInv, UpdateTyped, OneRowOpen, HelperRow, RowOf, HelperFiles,
     Update!Installed

(* managed_update_command.go:144, appinstall/service.go:281: for any       *)
(* number of requests, releases, failures and restarts, a row says success *)
(* only while the new program is the installed, recorded and running one,  *)
(* and rolled back only while the one is that was there before.            *)
THEOREM UpdatesAreHonest == Update!Spec => UpdateIsHonest
<1>1. ASSUME UpdateInv, Update!Next  PROVE UpdateInv' /\ Update!Honest
  <2>1. ASSUME NEW u \in Update!Updates,
               Update!Authorize(u) \/ Update!CreateOperation(u) \/
               Update!StartOperation(u) \/ Update!Launch(u) \/ Update!GiveUp(u) \/
               Update!Check(u) \/ Update!Fetch(u) \/ Update!Save(u) \/ Update!Replace(u) \/
               Update!WriteChecksum(u) \/ Update!Restart(u) \/ Update!Wait(u) \/
               Update!ReportHealth(u) \/ Update!RollBack(u) \/ Update!Resum(u) \/
               Update!RestartOld(u) \/ Update!WaitOld(u) \/ Update!Succeed(u) \/
               Update!Fail(u) \/ Update!RolledBack(u) \/ Update!NotRestored(u) \/
               Update!Age(u)
        PROVE  UpdateInv' /\ Update!Honest
    BY <1>1, <2>1, UpdateAuthorizeKept, UpdateCreateOperationKept,
       UpdateStartOperationKept, UpdateLaunchKept, UpdateGiveUpKept, UpdateCheckKept,
       UpdateFetchKept, UpdateSaveKept, UpdateReplaceKept, UpdateWriteChecksumKept,
       UpdateRestartKept, UpdateWaitKept, UpdateReportHealthKept, UpdateRollBackKept,
       UpdateResumKept, UpdateRestartOldKept, UpdateWaitOldKept, UpdateSucceedKept,
       UpdateFailKept, UpdateRolledBackKept, UpdateNotRestoredKept, UpdateAgeKept
  <2>2. CASE Update!ServiceRestarts \/ Update!Reboot
    BY <1>1, <2>2, UpdateServiceKept DEF Update!ServiceRestarts, Update!Reboot
  <2>3. QED  BY <1>1, <2>1, <2>2 DEF Update!Next
<1>2. UpdateInv /\ [Update!Next]_(Update!vars) => UpdateInv' /\ [Update!Honest]_(Update!vars)
  BY <1>1, UpdateStays
<1>3. QED  BY UpdateBegins, <1>2, PTL DEF Update!Spec, UpdateIsHonest,
   Update!UpdateIsHonest

-----------------------------------------------------------------------------
(* DatabaseUpgrade: what holds from a step of migrate on, until the        *)
(* database is closed.                                                     *)

FromAgents       == {"agents", "certificates", "links", "open"}
FromBind         == {"bind"} \cup FromAgents
FromClear        == {"clear host"} \cup FromBind
FromHost         == {"host"} \cup FromClear
FromManaged      == {"managed"} \cup {"infer"} \cup FromHost
FromScope        == {"scope"} \cup FromManaged
FromVerification == {"verification"} \cup FromScope
FromRetention    == {"retention"} \cup FromVerification
FromSetOwner     == {"set owner"} \cup FromRetention
FromOwner        == {"owner"} \cup FromSetOwner
FromTasks        == {"tasks"} \cup FromOwner
FromMonitor      == {"monitor"} \cup FromTasks
FromBackend      == {"backend"} \cup FromMonitor
FromSSH          == {"ssh"} \cup FromBackend
FromRepositories == {"repositories"} \cup FromSSH
FromStatuses     == {"statuses"} \cup FromRepositories
FromRecords      == {"records"} \cup FromStatuses
FromOccurrences  == {"occurrences"} \cup FromRecords
FromSetAnchor    == {"set anchor"} \cup FromOccurrences
Openings         == {"closed", "anchor"} \cup FromSetAnchor

(* The form of the database: what a step adds stays.                       *)
FormFits ==
  /\ opening \in Openings
  /\ columns \subseteq Upgrade!Columns /\ tables \subseteq Upgrade!Tables
  /\ opening \in FromSetAnchor => "anchor" \in columns
  /\ opening \in FromRecords => "occurrences" \in tables
  /\ opening \in FromStatuses => "records" \in columns
  /\ opening \in FromSSH => "repositories" \in tables
  /\ opening \in FromMonitor => "backend" \in columns
  /\ opening \in FromOwner => "tasks" \in tables
  /\ opening \in FromSetOwner => "owner" \in columns
  /\ opening \in FromVerification => moved
  /\ opening \in FromManaged => "scope" \in columns
  /\ opening \in {"infer"} \cup FromHost => "managed" \in columns
  /\ opening \in FromClear => "host" \in columns
  /\ opening \in FromAgents \ {"agents"} => "agents" \in columns
  /\ opening = "open" => ~linked
  /\ moved \in BOOLEAN

RowFields ==
  {"engine", "kind", "owner", "place", "wish", "retention", "anchor", "status", "monitored",
   "verifies", "hosts", "deployments", "managed", "host", "certified"}

RowsTyped ==
  /\ DOMAIN rows = RowFields /\ DOMAIN intended = RowFields
  /\ rows.hosts \subseteq Hosts
  /\ rows.deployments \in Seq(Agents \X Hosts)
  /\ rows.managed \in [Agents -> BOOLEAN] /\ intended.managed \in [Agents -> BOOLEAN]
  /\ rows.host \in [Agents -> Hosts \cup {"none"}]
  /\ intended.host \in [Agents -> Hosts \cup {"none"}]

(* What the rows say, in the old form or in the new one, is intended.      *)
MeaningFits ==
  /\ intended.hosts = rows.hosts /\ intended.deployments = rows.deployments
  /\ intended.anchor = rows.anchor
  /\ intended.engine = Upgrade!Engine(rows) /\ intended.kind = Upgrade!Kind(rows)
  /\ intended.owner = Upgrade!Owner(rows)
  /\ intended.place = Upgrade!Else(rows.place, "here")
  /\ intended.wish = IF intended.engine = "restic" THEN 0 ELSE rows.wish
  /\ intended.retention =
       IF intended.engine = "restic" /\ ~moved THEN rows.wish ELSE rows.retention
  /\ intended.status = "success" /\ intended.certified = Agents
  /\ opening # "open" => intended.verifies = FALSE /\ intended.monitored = TRUE

(* The form of the rows: what a step writes is not lost again.             *)
RowsFit ==
  /\ intended.engine = "restic" /\ moved => rows.wish = 0
  /\ "repositories" \in tables => rows.engine # "none" /\ rows.kind # "none"
  /\ "repositories" \notin tables => rows.owner = "none"
  /\ "tasks" \in tables => rows.place # "none"
  /\ rows.kind # "local" => rows.owner = "none"
  /\ opening \in FromRepositories => rows.status = "success"
  /\ opening \in FromBackend => ~ (rows.engine = "rsync" /\ rows.kind = "sftp")
  /\ opening \in FromTasks => rows.monitored = intended.monitored
  /\ opening \in FromRetention => rows.owner = Upgrade!Owner(rows)
  /\ opening \in FromScope \ {"open"} => rows.verifies = FALSE
  /\ opening = "open" => rows.verifies = intended.verifies
  /\ opening \in {"links", "open"} => rows.certified = Agents

(* Which Agents are managed is inferred once: until the column is there,   *)
(* and right after, the deployments say it.                                *)
ManagedFits ==
  ~cut =>
    IF "managed" \in columns /\ opening # "infer"
    THEN intended.managed = rows.managed
    ELSE \A a \in Agents : /\ rows.managed[a] = FALSE
                           /\ intended.managed[a] = (a \in Upgrade!Deployed(rows))

(* The host of an Agent once missing hosts are cleared, and that of its    *)
(* last deployment.                                                        *)
Placed(a)   == IF rows.host[a] \in rows.hosts THEN rows.host[a] ELSE "none"
LastHost(a) == rows.deployments[Upgrade!Last(rows, a)][2]

Waits(a) ==
  Placed(a) = "none" /\ intended.managed[a] = TRUE /\ a \in Upgrade!Deployed(rows)

(* An Agent that is still to be given its host is the first that waits for *)
(* it, and no other has it.                                                *)
Pending(a) ==
  /\ Waits(a) /\ LastHost(a) = intended.host[a] /\ intended.host[a] \in rows.hosts
  /\ \A b \in Agents : Placed(b) # intended.host[a]
  /\ \A b \in Agents \ {a} :
       Waits(b) /\ LastHost(b) = intended.host[a]
       => Upgrade!Last(rows, b) < Upgrade!Last(rows, a)

HostFits(a) ==
  Placed(a) # intended.host[a] =>
    \/ /\ intended.host[a] = "none"
       /\ a \in Upgrade!Deployed(rows) /\ Placed(a) = LastHost(a)
    \/ /\ opening \notin FromAgents /\ intended.host[a] # "none"
       /\ Pending(a)

HostsFit ==
  /\ ~cut => \A a \in Agents : HostFits(a)
  /\ \A a, b \in Agents : a # b /\ rows.host[a] # "none" => rows.host[a] # rows.host[b]
  /\ opening \in FromBind => \A a \in Agents : rows.host[a] \in rows.hosts \cup {"none"}

UpgradeInv == FormFits /\ RowsTyped /\ MeaningFits /\ RowsFit /\ ManagedFits /\ HostsFit


(* Every step keeps FormFits.                                             *)
LEMMA FormKept == ASSUME UpgradeInv, Upgrade!Next  PROVE FormFits'
<1> USE DEF UpgradeInv, Upgrade!Step, Upgrade!Shape, Upgrade!Add, Upgrade!Rebuild,
      Upgrade!Write,
   FromAgents, FromBind, FromClear, FromHost, FromManaged, FromScope, FromVerification,
   FromRetention, FromSetOwner, FromOwner, FromTasks, FromMonitor, FromBackend, FromSSH,
   FromRepositories, FromStatuses, FromRecords, FromOccurrences, FromSetAnchor, Openings
<1>1. CASE Upgrade!Begin
  BY <1>1 DEF Upgrade!Begin, FormFits, Upgrade!Columns, Upgrade!Tables, Upgrade!Infers
<1>2. CASE Upgrade!AddAnchor
  BY <1>2 DEF Upgrade!AddAnchor, FormFits, Upgrade!Columns, Upgrade!Tables, Upgrade!Infers
<1>3. CASE Upgrade!SetAnchor
  BY <1>3 DEF Upgrade!SetAnchor, FormFits, Upgrade!Columns, Upgrade!Tables, Upgrade!Infers
<1>4. CASE Upgrade!RebuildOccurrences
  BY <1>4 DEF Upgrade!RebuildOccurrences, FormFits, Upgrade!Columns, Upgrade!Tables,
       Upgrade!Infers
<1>5. CASE Upgrade!AddRecords
  BY <1>5 DEF Upgrade!AddRecords, FormFits, Upgrade!Columns, Upgrade!Tables, Upgrade!Infers
<1>6. CASE Upgrade!RunStatuses
  BY <1>6 DEF Upgrade!RunStatuses, FormFits, Upgrade!Columns, Upgrade!Tables, Upgrade!Infers
<1>7. CASE Upgrade!RepositoryKinds
  BY <1>7 DEF Upgrade!RepositoryKinds, FormFits, Upgrade!Columns, Upgrade!Tables, Upgrade!Infers
<1>8. CASE Upgrade!RsyncToSSH
  BY <1>8 DEF Upgrade!RsyncToSSH, FormFits, Upgrade!Columns, Upgrade!Tables, Upgrade!Infers
<1>9. CASE Upgrade!AddBackend
  BY <1>9 DEF Upgrade!AddBackend, FormFits, Upgrade!Columns, Upgrade!Tables, Upgrade!Infers
<1>10. CASE Upgrade!RepositoryCapacity
  BY <1>10 DEF Upgrade!RepositoryCapacity, FormFits, Upgrade!Columns, Upgrade!Tables,
       Upgrade!Infers
<1>11. CASE Upgrade!TaskExecutions
  BY <1>11 DEF Upgrade!TaskExecutions, FormFits, Upgrade!Columns, Upgrade!Tables, Upgrade!Infers
<1>12. CASE Upgrade!AddOwner
  BY <1>12 DEF Upgrade!AddOwner, FormFits, Upgrade!Columns, Upgrade!Tables, Upgrade!Infers
<1>13. CASE Upgrade!LocalTargets
  BY <1>13 DEF Upgrade!LocalTargets, FormFits, Upgrade!Columns, Upgrade!Tables, Upgrade!Infers
<1>14. CASE Upgrade!RetentionAuthority
  BY <1>14 DEF Upgrade!RetentionAuthority, FormFits, Upgrade!Columns, Upgrade!Tables,
       Upgrade!Infers
<1>15. CASE Upgrade!VerificationRetired
  BY <1>15 DEF Upgrade!VerificationRetired, FormFits, Upgrade!Columns, Upgrade!Tables,
       Upgrade!Infers
<1>16. CASE Upgrade!AddScope
  BY <1>16 DEF Upgrade!AddScope, FormFits, Upgrade!Columns, Upgrade!Tables, Upgrade!Infers
<1>17. CASE Upgrade!AddManaged
  BY <1>17 DEF Upgrade!AddManaged, FormFits, Upgrade!Columns, Upgrade!Tables, Upgrade!Infers
<1>18. CASE Upgrade!InferManaged
  BY <1>18 DEF Upgrade!InferManaged, FormFits, Upgrade!Columns, Upgrade!Tables, Upgrade!Infers
<1>19. CASE Upgrade!AddHost
  BY <1>19 DEF Upgrade!AddHost, FormFits, Upgrade!Columns, Upgrade!Tables, Upgrade!Infers
<1>20. CASE Upgrade!ClearMissingHosts
  BY <1>20 DEF Upgrade!ClearMissingHosts, FormFits, Upgrade!Columns, Upgrade!Tables,
       Upgrade!Infers
<1>21. CASE Upgrade!BindDeployed
  BY <1>21 DEF Upgrade!BindDeployed, FormFits, Upgrade!Columns, Upgrade!Tables, Upgrade!Infers
<1>22. CASE Upgrade!AddMetadata
  BY <1>22 DEF Upgrade!AddMetadata, FormFits, Upgrade!Columns, Upgrade!Tables, Upgrade!Infers
<1>23. CASE Upgrade!BackfillCertificates
  BY <1>23 DEF Upgrade!BackfillCertificates, FormFits, Upgrade!Columns, Upgrade!Tables,
       Upgrade!Infers
<1>24. CASE Upgrade!LogicalReferencesOnly
  BY <1>24 DEF Upgrade!LogicalReferencesOnly, FormFits, Upgrade!Columns, Upgrade!Tables,
       Upgrade!Infers
<1>25. CASE Upgrade!SaveMaintenancePolicy
  BY <1>25 DEF Upgrade!SaveMaintenancePolicy, FormFits, Upgrade!Columns, Upgrade!Tables,
       Upgrade!Infers
<1>26. CASE Upgrade!UpdatePlan
  BY <1>26 DEF Upgrade!UpdatePlan, FormFits, Upgrade!Columns, Upgrade!Tables, Upgrade!Infers
<1>27. CASE Upgrade!SaveVerificationPolicy
  BY <1>27 DEF Upgrade!SaveVerificationPolicy, FormFits, Upgrade!Columns, Upgrade!Tables,
       Upgrade!Infers
<1>28. CASE Upgrade!BindAgentRemoteHost
  BY <1>28 DEF Upgrade!BindAgentRemoteHost, FormFits, Upgrade!Columns, Upgrade!Tables,
       Upgrade!Infers
<1>29. CASE Upgrade!BindManagedAgentRemoteHost
  BY <1>29 DEF Upgrade!BindManagedAgentRemoteHost, FormFits, Upgrade!Columns, Upgrade!Tables,
       Upgrade!Infers
<1>30. CASE Upgrade!EnrollAgent
  BY <1>30 DEF Upgrade!EnrollAgent, FormFits, Upgrade!Columns, Upgrade!Tables, Upgrade!Infers
<1>31. CASE Upgrade!DeleteHost
  BY <1>31 DEF Upgrade!DeleteHost, FormFits, Upgrade!Columns, Upgrade!Tables, Upgrade!Infers
<1>32. CASE Upgrade!Stop
  BY <1>32 DEF Upgrade!Stop, Upgrade!Undone, FormFits, Upgrade!Columns, Upgrade!Tables, Upgrade!Infers
<1>33. CASE Upgrade!SaveRepositoryCapacityPolicy
  BY <1>33 DEF Upgrade!SaveRepositoryCapacityPolicy, FormFits, Upgrade!Columns, Upgrade!Tables,
       Upgrade!Infers
<1> QED BY <1>1, <1>2, <1>3, <1>4, <1>5, <1>6, <1>7, <1>8, <1>9, <1>10, <1>11, <1>12, <1>13,
      <1>14, <1>15, <1>16, <1>17, <1>18, <1>19, <1>20, <1>21, <1>22, <1>23, <1>24, <1>25,
      <1>26, <1>27, <1>28, <1>29, <1>30, <1>31, <1>32, <1>33
  DEF Upgrade!Next, Upgrade!Migrate

(* The rows keep their types.                                             *)
LEMMA RowsTypedKept == ASSUME UpgradeInv, Upgrade!Next  PROVE RowsTyped'
<1> USE DEF UpgradeInv, Upgrade!Step, Upgrade!Shape, Upgrade!Add, Upgrade!Rebuild,
      Upgrade!Write,
   FromAgents, FromBind, FromClear, FromHost, FromManaged, FromScope, FromVerification,
   FromRetention, FromSetOwner, FromOwner, FromTasks, FromMonitor, FromBackend, FromSSH,
   FromRepositories, FromStatuses, FromRecords, FromOccurrences, FromSetAnchor, Openings
<1>1. CASE Upgrade!Begin
  BY <1>1 DEF Upgrade!Begin, RowsTyped, RowFields, FormFits, Upgrade!Infers, Upgrade!Bound
<1>2. CASE Upgrade!AddAnchor
  BY <1>2 DEF Upgrade!AddAnchor, RowsTyped, RowFields, FormFits, Upgrade!Infers, Upgrade!Bound
<1>3. CASE Upgrade!SetAnchor
  BY <1>3 DEF Upgrade!SetAnchor, RowsTyped, RowFields, FormFits, Upgrade!Infers, Upgrade!Bound
<1>4. CASE Upgrade!RebuildOccurrences
  BY <1>4 DEF Upgrade!RebuildOccurrences, RowsTyped, RowFields, FormFits, Upgrade!Infers,
       Upgrade!Bound
<1>5. CASE Upgrade!AddRecords
  BY <1>5 DEF Upgrade!AddRecords, RowsTyped, RowFields, FormFits, Upgrade!Infers, Upgrade!Bound
<1>6. CASE Upgrade!RunStatuses
  BY <1>6 DEF Upgrade!RunStatuses, RowsTyped, RowFields, FormFits, Upgrade!Infers, Upgrade!Bound
<1>7. CASE Upgrade!RepositoryKinds
  BY <1>7 DEF Upgrade!RepositoryKinds, RowsTyped, RowFields, FormFits, Upgrade!Infers,
       Upgrade!Bound
<1>8. CASE Upgrade!RsyncToSSH
  BY <1>8 DEF Upgrade!RsyncToSSH, RowsTyped, RowFields, FormFits, Upgrade!Infers, Upgrade!Bound
<1>9. CASE Upgrade!AddBackend
  BY <1>9 DEF Upgrade!AddBackend, RowsTyped, RowFields, FormFits, Upgrade!Infers, Upgrade!Bound
<1>10. CASE Upgrade!RepositoryCapacity
  BY <1>10 DEF Upgrade!RepositoryCapacity, RowsTyped, RowFields, FormFits, Upgrade!Infers,
       Upgrade!Bound
<1>11. CASE Upgrade!TaskExecutions
  BY <1>11 DEF Upgrade!TaskExecutions, RowsTyped, RowFields, FormFits, Upgrade!Infers,
       Upgrade!Bound
<1>12. CASE Upgrade!AddOwner
  BY <1>12 DEF Upgrade!AddOwner, RowsTyped, RowFields, FormFits, Upgrade!Infers, Upgrade!Bound
<1>13. CASE Upgrade!LocalTargets
  BY <1>13 DEF Upgrade!LocalTargets, RowsTyped, RowFields, FormFits, Upgrade!Infers,
       Upgrade!Bound
<1>14. CASE Upgrade!RetentionAuthority
  <2>1. rows' = rows \/ rows' = [rows EXCEPT !.retention = rows.wish, !.wish = 0]
    BY <1>14 DEF Upgrade!RetentionAuthority
  <2> QED BY <1>14, <2>1 DEF Upgrade!RetentionAuthority, RowsTyped, RowFields
<1>15. CASE Upgrade!VerificationRetired
  BY <1>15 DEF Upgrade!VerificationRetired, RowsTyped, RowFields, FormFits, Upgrade!Infers,
       Upgrade!Bound
<1>16. CASE Upgrade!AddScope
  BY <1>16 DEF Upgrade!AddScope, RowsTyped, RowFields, FormFits, Upgrade!Infers, Upgrade!Bound
<1>17. CASE Upgrade!AddManaged
  BY <1>17 DEF Upgrade!AddManaged, RowsTyped, RowFields, FormFits, Upgrade!Infers, Upgrade!Bound
<1>18. CASE Upgrade!InferManaged
  BY <1>18 DEF Upgrade!InferManaged, RowsTyped, RowFields, FormFits, Upgrade!Infers,
       Upgrade!Bound
<1>19. CASE Upgrade!AddHost
  BY <1>19 DEF Upgrade!AddHost, RowsTyped, RowFields, FormFits, Upgrade!Infers, Upgrade!Bound
<1>20. CASE Upgrade!ClearMissingHosts
  <2>1. /\ rows' = [rows EXCEPT !.host = [a \in Agents |->
                                IF rows.host[a] \in rows.hosts THEN rows.host[a] ELSE "none"]]
        /\ intended' = intended
    BY <1>20 DEF Upgrade!ClearMissingHosts, Upgrade!None
  <2> QED BY <2>1 DEF RowsTyped, RowFields
<1>21. CASE Upgrade!BindDeployed
  <2>1. CASE rows' = rows
    BY <1>21, <2>1 DEF Upgrade!BindDeployed, RowsTyped, RowFields
  <2>2. ASSUME NEW a \in Agents, NEW h \in Upgrade!Claims(rows, a),
               rows' = [rows EXCEPT !.host[a] = h]
        PROVE  RowsTyped'
    <3>1. h \in Hosts
      BY <2>2 DEF Upgrade!Claims, RowsTyped
    <3>2. rows.host \in [Agents -> Hosts \cup {"none"}]
      BY DEF RowsTyped
    <3>3. [rows.host EXCEPT ![a] = h] \in [Agents -> Hosts \cup {"none"}]
      BY <3>1, <3>2
    <3>4. rows' = [rows EXCEPT !.host = [rows.host EXCEPT ![a] = h]] /\ intended' = intended
      BY <1>21, <2>2 DEF Upgrade!BindDeployed
    <3> QED BY <3>3, <3>4 DEF RowsTyped, RowFields
  <2> QED BY <1>21, <2>1, <2>2 DEF Upgrade!BindDeployed, Upgrade!Candidates
<1>22. CASE Upgrade!AddMetadata
  BY <1>22 DEF Upgrade!AddMetadata, RowsTyped, RowFields, FormFits, Upgrade!Infers,
       Upgrade!Bound
<1>23. CASE Upgrade!BackfillCertificates
  BY <1>23 DEF Upgrade!BackfillCertificates, RowsTyped, RowFields, FormFits, Upgrade!Infers,
       Upgrade!Bound
<1>24. CASE Upgrade!LogicalReferencesOnly
  BY <1>24 DEF Upgrade!LogicalReferencesOnly, RowsTyped, RowFields, FormFits, Upgrade!Infers,
       Upgrade!Bound
<1>25. CASE Upgrade!SaveMaintenancePolicy
  BY <1>25 DEF Upgrade!SaveMaintenancePolicy, RowsTyped, RowFields, FormFits, Upgrade!Infers,
       Upgrade!Bound
<1>26. CASE Upgrade!UpdatePlan
  BY <1>26 DEF Upgrade!UpdatePlan, RowsTyped, RowFields, FormFits, Upgrade!Infers, Upgrade!Bound
<1>27. CASE Upgrade!SaveVerificationPolicy
  BY <1>27 DEF Upgrade!SaveVerificationPolicy, RowsTyped, RowFields, FormFits, Upgrade!Infers,
       Upgrade!Bound
<1>28. CASE Upgrade!BindAgentRemoteHost
  <2>1. PICK a \in Agents, h \in rows.hosts :
          /\ rows' = [rows EXCEPT !.host = Upgrade!Bound(rows, a, h)]
          /\ intended' = [intended EXCEPT !.host = Upgrade!Bound(intended, a, h)]
    BY <1>28 DEF Upgrade!BindAgentRemoteHost
  <2>2. h \in Hosts
    BY DEF RowsTyped
  <2>3. /\ Upgrade!Bound(rows, a, h) \in [Agents -> Hosts \cup {"none"}]
        /\ Upgrade!Bound(intended, a, h) \in [Agents -> Hosts \cup {"none"}]
    BY <2>2 DEF RowsTyped, Upgrade!Bound, Upgrade!None
  <2> QED BY <2>1, <2>3 DEF RowsTyped, RowFields
<1>29. CASE Upgrade!BindManagedAgentRemoteHost
  <2>1. PICK a \in Agents, h \in rows.hosts :
          /\ rows' = [rows EXCEPT !.host = Upgrade!Bound(rows, a, h), !.managed[a] = TRUE,
                                  !.deployments = Append(rows.deployments, <<a, h>>)]
          /\ intended' = [intended EXCEPT
                            !.host = Upgrade!Bound(intended, a, h), !.managed[a] = TRUE,
                            !.deployments = Append(intended.deployments, <<a, h>>)]
    BY <1>29 DEF Upgrade!BindManagedAgentRemoteHost
  <2>2. h \in Hosts
    BY DEF RowsTyped
  <2>3. /\ Upgrade!Bound(rows, a, h) \in [Agents -> Hosts \cup {"none"}]
        /\ Upgrade!Bound(intended, a, h) \in [Agents -> Hosts \cup {"none"}]
    BY <2>2 DEF RowsTyped, Upgrade!Bound, Upgrade!None
  <2>4. Append(rows.deployments, <<a, h>>) \in Seq(Agents \X Hosts)
    BY <2>2 DEF RowsTyped
  <2>5. /\ [rows.managed EXCEPT ![a] = TRUE] \in [Agents -> BOOLEAN]
        /\ [intended.managed EXCEPT ![a] = TRUE] \in [Agents -> BOOLEAN]
    BY DEF RowsTyped
  <2>6. /\ DOMAIN rows' = RowFields /\ DOMAIN intended' = RowFields
        /\ rows'.hosts = rows.hosts /\ rows'.host = Upgrade!Bound(rows, a, h)
        /\ rows'.deployments = Append(rows.deployments, <<a, h>>)
        /\ rows'.managed = [rows.managed EXCEPT ![a] = TRUE]
        /\ intended'.host = Upgrade!Bound(intended, a, h)
        /\ intended'.managed = [intended.managed EXCEPT ![a] = TRUE]
    BY <2>1 DEF RowsTyped, RowFields
  <2> QED BY <2>3, <2>4, <2>5, <2>6 DEF RowsTyped
<1>30. CASE Upgrade!EnrollAgent
  <2>1. PICK a \in Agents :
          /\ rows' = [rows EXCEPT !.host[a] = "none", !.managed[a] = FALSE]
          /\ intended' = [intended EXCEPT !.host[a] = "none", !.managed[a] = FALSE]
    BY <1>30 DEF Upgrade!EnrollAgent, Upgrade!None
  <2>2. /\ [rows.managed EXCEPT ![a] = FALSE] \in [Agents -> BOOLEAN]
        /\ [intended.managed EXCEPT ![a] = FALSE] \in [Agents -> BOOLEAN]
        /\ [rows.host EXCEPT ![a] = "none"] \in [Agents -> Hosts \cup {"none"}]
        /\ [intended.host EXCEPT ![a] = "none"] \in [Agents -> Hosts \cup {"none"}]
    BY DEF RowsTyped
  <2>3. /\ DOMAIN rows' = RowFields /\ DOMAIN intended' = RowFields
        /\ rows'.hosts = rows.hosts /\ rows'.deployments = rows.deployments
        /\ rows'.host = [rows.host EXCEPT ![a] = "none"]
        /\ rows'.managed = [rows.managed EXCEPT ![a] = FALSE]
        /\ intended'.host = [intended.host EXCEPT ![a] = "none"]
        /\ intended'.managed = [intended.managed EXCEPT ![a] = FALSE]
    BY <2>1 DEF RowsTyped, RowFields
  <2> QED BY <2>2, <2>3 DEF RowsTyped
<1>31. CASE Upgrade!DeleteHost
  <2> DEFINE Kept(r, h) == [a \in Agents |-> IF r.host[a] = h THEN "none" ELSE r.host[a]]
  <2>1. PICK h \in rows.hosts :
          /\ rows' = [rows EXCEPT !.hosts = rows.hosts \ {h}, !.host = Kept(rows, h)]
          /\ intended' = [intended EXCEPT !.hosts = intended.hosts \ {h},
                                          !.host = Kept(intended, h)]
    BY <1>31 DEF Upgrade!DeleteHost, Upgrade!None
  <2>2. /\ Kept(rows, h) \in [Agents -> Hosts \cup {"none"}]
        /\ Kept(intended, h) \in [Agents -> Hosts \cup {"none"}]
    BY DEF RowsTyped
  <2> HIDE DEF Kept
  <2> QED BY <2>1, <2>2 DEF RowsTyped, RowFields
<1>32. CASE Upgrade!Stop
  BY <1>32 DEF Upgrade!Stop, Upgrade!Undone, RowsTyped, RowFields, FormFits, Upgrade!Infers, Upgrade!Bound
<1>33. CASE Upgrade!SaveRepositoryCapacityPolicy
  BY <1>33 DEF Upgrade!SaveRepositoryCapacityPolicy, RowsTyped, RowFields, FormFits, Upgrade!Infers,
       Upgrade!Bound
<1> QED BY <1>1, <1>2, <1>3, <1>4, <1>5, <1>6, <1>7, <1>8, <1>9, <1>10, <1>11, <1>12, <1>13,
      <1>14, <1>15, <1>16, <1>17, <1>18, <1>19, <1>20, <1>21, <1>22, <1>23, <1>24, <1>25,
      <1>26, <1>27, <1>28, <1>29, <1>30, <1>31, <1>32, <1>33
  DEF Upgrade!Next, Upgrade!Migrate

(* No step changes what the rows mean.                                    *)
LEMMA MeaningKept == ASSUME UpgradeInv, Upgrade!Next  PROVE MeaningFits'
<1> USE DEF UpgradeInv, Upgrade!Step, Upgrade!Shape, Upgrade!Add, Upgrade!Rebuild,
      Upgrade!Write,
   FromAgents, FromBind, FromClear, FromHost, FromManaged, FromScope, FromVerification,
   FromRetention, FromSetOwner, FromOwner, FromTasks, FromMonitor, FromBackend, FromSSH,
   FromRepositories, FromStatuses, FromRecords, FromOccurrences, FromSetAnchor, Openings
<1>1. CASE Upgrade!Begin
  BY <1>1 DEF Upgrade!Begin, MeaningFits, RowsFit, RowsTyped, FormFits, RowFields,
       Upgrade!Engine, Upgrade!Kind, Upgrade!Owner, Upgrade!Else, Upgrade!None, Upgrade!Infers
<1>2. CASE Upgrade!AddAnchor
  BY ZenonT(60), <1>2 DEF Upgrade!AddAnchor, MeaningFits, RowsFit, RowsTyped, FormFits, RowFields,
       Upgrade!Engine, Upgrade!Kind, Upgrade!Owner, Upgrade!Else, Upgrade!None, Upgrade!Infers
<1>3. CASE Upgrade!SetAnchor
  BY ZenonT(60), <1>3 DEF Upgrade!SetAnchor, MeaningFits, RowsFit, RowsTyped, FormFits, RowFields,
       Upgrade!Engine, Upgrade!Kind, Upgrade!Owner, Upgrade!Else, Upgrade!None, Upgrade!Infers
<1>4. CASE Upgrade!RebuildOccurrences
  BY <1>4 DEF Upgrade!RebuildOccurrences, MeaningFits, RowsFit, RowsTyped, FormFits, RowFields,
       Upgrade!Engine, Upgrade!Kind, Upgrade!Owner, Upgrade!Else, Upgrade!None, Upgrade!Infers
<1>5. CASE Upgrade!AddRecords
  BY <1>5 DEF Upgrade!AddRecords, MeaningFits, RowsFit, RowsTyped, FormFits, RowFields,
       Upgrade!Engine, Upgrade!Kind, Upgrade!Owner, Upgrade!Else, Upgrade!None, Upgrade!Infers
<1>6. CASE Upgrade!RunStatuses
  BY <1>6 DEF Upgrade!RunStatuses, MeaningFits, RowsFit, RowsTyped, FormFits, RowFields,
       Upgrade!Engine, Upgrade!Kind, Upgrade!Owner, Upgrade!Else, Upgrade!None, Upgrade!Infers
<1>7. CASE Upgrade!RepositoryKinds
  BY <1>7 DEF Upgrade!RepositoryKinds, MeaningFits, RowsFit, RowsTyped, FormFits, RowFields,
       Upgrade!Engine, Upgrade!Kind, Upgrade!Owner, Upgrade!Else, Upgrade!None, Upgrade!Infers
<1>8. CASE Upgrade!RsyncToSSH
  BY <1>8 DEF Upgrade!RsyncToSSH, MeaningFits, RowsFit, RowsTyped, FormFits, RowFields,
       Upgrade!Engine, Upgrade!Kind, Upgrade!Owner, Upgrade!Else, Upgrade!None, Upgrade!Infers
<1>9. CASE Upgrade!AddBackend
  BY <1>9 DEF Upgrade!AddBackend, MeaningFits, RowsFit, RowsTyped, FormFits, RowFields,
       Upgrade!Engine, Upgrade!Kind, Upgrade!Owner, Upgrade!Else, Upgrade!None, Upgrade!Infers
<1>10. CASE Upgrade!RepositoryCapacity
  BY <1>10 DEF Upgrade!RepositoryCapacity, MeaningFits, RowsFit, RowsTyped, FormFits,
       RowFields, Upgrade!Engine, Upgrade!Kind, Upgrade!Owner, Upgrade!Else, Upgrade!None,
       Upgrade!Infers
<1>11. CASE Upgrade!TaskExecutions
  BY <1>11 DEF Upgrade!TaskExecutions, MeaningFits, RowsFit, RowsTyped, FormFits, RowFields,
       Upgrade!Engine, Upgrade!Kind, Upgrade!Owner, Upgrade!Else, Upgrade!None, Upgrade!Infers
<1>12. CASE Upgrade!AddOwner
  BY <1>12 DEF Upgrade!AddOwner, MeaningFits, RowsFit, RowsTyped, FormFits, RowFields,
       Upgrade!Engine, Upgrade!Kind, Upgrade!Owner, Upgrade!Else, Upgrade!None, Upgrade!Infers
<1>13. CASE Upgrade!LocalTargets
  BY ZenonT(60), <1>13 DEF Upgrade!LocalTargets, MeaningFits, RowsFit, RowsTyped, FormFits, RowFields,
       Upgrade!Engine, Upgrade!Kind, Upgrade!Owner, Upgrade!Else, Upgrade!None, Upgrade!Infers
<1>14. CASE Upgrade!RetentionAuthority
  <2> USE DEF Upgrade!RetentionAuthority, MeaningFits, RowsFit, RowsTyped, FormFits, RowFields,
     Upgrade!Engine, Upgrade!Kind, Upgrade!Owner, Upgrade!Else, Upgrade!None
  <2>1. CASE moved \/ rows.engine # "restic"
    BY <1>14, <2>1
  <2>2. CASE ~ (moved \/ rows.engine # "restic")
    <3>1. rows' = [rows EXCEPT !.retention = rows.wish, !.wish = 0] /\ intended' = intended
      BY <1>14, <2>2
    <3>2. DOMAIN rows = RowFields
      OBVIOUS
    <3>3. rows'.retention = rows.wish /\ rows'.wish = 0
      BY <3>1, <3>2
    <3>4. /\ rows'.engine = rows.engine /\ rows'.kind = rows.kind /\ rows'.owner = rows.owner
          /\ rows'.place = rows.place /\ rows'.anchor = rows.anchor
          /\ rows'.status = rows.status /\ rows'.monitored = rows.monitored
          /\ rows'.verifies = rows.verifies /\ rows'.certified = rows.certified
          /\ rows'.hosts = rows.hosts /\ rows'.deployments = rows.deployments
      BY <3>1
    <3>5. intended.engine = "restic" /\ moved' = TRUE /\ ~moved
      BY <1>14, <2>2
    <3> QED BY <1>14, <3>1, <3>3, <3>4, <3>5
  <2> QED BY <2>1, <2>2
<1>15. CASE Upgrade!VerificationRetired
  BY <1>15 DEF Upgrade!VerificationRetired, MeaningFits, RowsFit, RowsTyped, FormFits,
       RowFields, Upgrade!Engine, Upgrade!Kind, Upgrade!Owner, Upgrade!Else, Upgrade!None,
       Upgrade!Infers
<1>16. CASE Upgrade!AddScope
  BY <1>16 DEF Upgrade!AddScope, MeaningFits, RowsFit, RowsTyped, FormFits, RowFields,
       Upgrade!Engine, Upgrade!Kind, Upgrade!Owner, Upgrade!Else, Upgrade!None, Upgrade!Infers
<1>17. CASE Upgrade!AddManaged
  BY <1>17 DEF Upgrade!AddManaged, MeaningFits, RowsFit, RowsTyped, FormFits, RowFields,
       Upgrade!Engine, Upgrade!Kind, Upgrade!Owner, Upgrade!Else, Upgrade!None, Upgrade!Infers
<1>18. CASE Upgrade!InferManaged
  BY <1>18 DEF Upgrade!InferManaged, MeaningFits, RowsFit, RowsTyped, FormFits, RowFields,
       Upgrade!Engine, Upgrade!Kind, Upgrade!Owner, Upgrade!Else, Upgrade!None, Upgrade!Infers
<1>19. CASE Upgrade!AddHost
  BY <1>19 DEF Upgrade!AddHost, MeaningFits, RowsFit, RowsTyped, FormFits, RowFields,
       Upgrade!Engine, Upgrade!Kind, Upgrade!Owner, Upgrade!Else, Upgrade!None, Upgrade!Infers
<1>20. CASE Upgrade!ClearMissingHosts
  BY <1>20 DEF Upgrade!ClearMissingHosts, MeaningFits, RowsFit, RowsTyped, FormFits, RowFields,
       Upgrade!Engine, Upgrade!Kind, Upgrade!Owner, Upgrade!Else, Upgrade!None, Upgrade!Infers
<1>21. CASE Upgrade!BindDeployed
  BY <1>21 DEF Upgrade!BindDeployed, MeaningFits, RowsFit, RowsTyped, FormFits, RowFields,
       Upgrade!Engine, Upgrade!Kind, Upgrade!Owner, Upgrade!Else, Upgrade!None, Upgrade!Infers
<1>22. CASE Upgrade!AddMetadata
  BY <1>22 DEF Upgrade!AddMetadata, MeaningFits, RowsFit, RowsTyped, FormFits, RowFields,
       Upgrade!Engine, Upgrade!Kind, Upgrade!Owner, Upgrade!Else, Upgrade!None, Upgrade!Infers
<1>23. CASE Upgrade!BackfillCertificates
  BY <1>23 DEF Upgrade!BackfillCertificates, MeaningFits, RowsFit, RowsTyped, FormFits,
       RowFields, Upgrade!Engine, Upgrade!Kind, Upgrade!Owner, Upgrade!Else, Upgrade!None,
       Upgrade!Infers
<1>24. CASE Upgrade!LogicalReferencesOnly
  BY <1>24 DEF Upgrade!LogicalReferencesOnly, MeaningFits, RowsFit, RowsTyped, FormFits,
       RowFields, Upgrade!Engine, Upgrade!Kind, Upgrade!Owner, Upgrade!Else, Upgrade!None,
       Upgrade!Infers
<1>25. CASE Upgrade!SaveMaintenancePolicy
  BY <1>25 DEF Upgrade!SaveMaintenancePolicy, MeaningFits, RowsFit, RowsTyped, FormFits,
       RowFields, Upgrade!Engine, Upgrade!Kind, Upgrade!Owner, Upgrade!Else, Upgrade!None,
       Upgrade!Infers
<1>26. CASE Upgrade!UpdatePlan
  BY <1>26 DEF Upgrade!UpdatePlan, MeaningFits, RowsFit, RowsTyped, FormFits, RowFields,
       Upgrade!Engine, Upgrade!Kind, Upgrade!Owner, Upgrade!Else, Upgrade!None, Upgrade!Infers
<1>27. CASE Upgrade!SaveVerificationPolicy
  BY <1>27 DEF Upgrade!SaveVerificationPolicy, MeaningFits, RowsFit, RowsTyped, FormFits,
       RowFields, Upgrade!Engine, Upgrade!Kind, Upgrade!Owner, Upgrade!Else, Upgrade!None,
       Upgrade!Infers
<1>28. CASE Upgrade!BindAgentRemoteHost
  BY <1>28 DEF Upgrade!BindAgentRemoteHost, MeaningFits, RowsFit, RowsTyped, FormFits,
       RowFields, Upgrade!Engine, Upgrade!Kind, Upgrade!Owner, Upgrade!Else, Upgrade!None,
       Upgrade!Infers
<1>29. CASE Upgrade!BindManagedAgentRemoteHost
  BY <1>29 DEF Upgrade!BindManagedAgentRemoteHost, MeaningFits, RowsFit, RowsTyped, FormFits,
       RowFields, Upgrade!Engine, Upgrade!Kind, Upgrade!Owner, Upgrade!Else, Upgrade!None,
       Upgrade!Infers
<1>30. CASE Upgrade!EnrollAgent
  BY <1>30 DEF Upgrade!EnrollAgent, MeaningFits, RowsFit, RowsTyped, FormFits, RowFields,
       Upgrade!Engine, Upgrade!Kind, Upgrade!Owner, Upgrade!Else, Upgrade!None, Upgrade!Infers
<1>31. CASE Upgrade!DeleteHost
  BY <1>31 DEF Upgrade!DeleteHost, MeaningFits, RowsFit, RowsTyped, FormFits, RowFields,
       Upgrade!Engine, Upgrade!Kind, Upgrade!Owner, Upgrade!Else, Upgrade!None, Upgrade!Infers
<1>32. CASE Upgrade!Stop
  BY ZenonT(60), <1>32 DEF Upgrade!Stop, Upgrade!Undone, MeaningFits, RowsFit, RowsTyped, FormFits, RowFields,
       Upgrade!Engine, Upgrade!Kind, Upgrade!Owner, Upgrade!Else, Upgrade!None, Upgrade!Infers
<1>33. CASE Upgrade!SaveRepositoryCapacityPolicy
  BY <1>33 DEF Upgrade!SaveRepositoryCapacityPolicy, MeaningFits, RowsFit, RowsTyped, FormFits,
       RowFields, Upgrade!Engine, Upgrade!Kind, Upgrade!Owner, Upgrade!Else, Upgrade!None,
       Upgrade!Infers
<1> QED BY <1>1, <1>2, <1>3, <1>4, <1>5, <1>6, <1>7, <1>8, <1>9, <1>10, <1>11, <1>12, <1>13,
      <1>14, <1>15, <1>16, <1>17, <1>18, <1>19, <1>20, <1>21, <1>22, <1>23, <1>24, <1>25,
      <1>26, <1>27, <1>28, <1>29, <1>30, <1>31, <1>32, <1>33
  DEF Upgrade!Next, Upgrade!Migrate

(* What a step has written stays.                                         *)
LEMMA RowsFitKept == ASSUME UpgradeInv, Upgrade!Next  PROVE RowsFit'
<1> USE DEF UpgradeInv, Upgrade!Step, Upgrade!Shape, Upgrade!Add, Upgrade!Rebuild,
      Upgrade!Write,
   FromAgents, FromBind, FromClear, FromHost, FromManaged, FromScope, FromVerification,
   FromRetention, FromSetOwner, FromOwner, FromTasks, FromMonitor, FromBackend, FromSSH,
   FromRepositories, FromStatuses, FromRecords, FromOccurrences, FromSetAnchor, Openings
<1>1. CASE Upgrade!Begin
  BY <1>1 DEF Upgrade!Begin, MeaningFits, RowsFit, RowsTyped, FormFits, RowFields,
       Upgrade!Engine, Upgrade!Kind, Upgrade!Owner, Upgrade!Else, Upgrade!None, Upgrade!Infers
<1>2. CASE Upgrade!AddAnchor
  BY <1>2 DEF Upgrade!AddAnchor, MeaningFits, RowsFit, RowsTyped, FormFits, RowFields,
       Upgrade!Engine, Upgrade!Kind, Upgrade!Owner, Upgrade!Else, Upgrade!None, Upgrade!Infers
<1>3. CASE Upgrade!SetAnchor
  BY <1>3 DEF Upgrade!SetAnchor, MeaningFits, RowsFit, RowsTyped, FormFits, RowFields,
       Upgrade!Engine, Upgrade!Kind, Upgrade!Owner, Upgrade!Else, Upgrade!None, Upgrade!Infers
<1>4. CASE Upgrade!RebuildOccurrences
  BY <1>4 DEF Upgrade!RebuildOccurrences, MeaningFits, RowsFit, RowsTyped, FormFits, RowFields,
       Upgrade!Engine, Upgrade!Kind, Upgrade!Owner, Upgrade!Else, Upgrade!None, Upgrade!Infers
<1>5. CASE Upgrade!AddRecords
  BY <1>5 DEF Upgrade!AddRecords, MeaningFits, RowsFit, RowsTyped, FormFits, RowFields,
       Upgrade!Engine, Upgrade!Kind, Upgrade!Owner, Upgrade!Else, Upgrade!None, Upgrade!Infers
<1>6. CASE Upgrade!RunStatuses
  BY <1>6 DEF Upgrade!RunStatuses, MeaningFits, RowsFit, RowsTyped, FormFits, RowFields,
       Upgrade!Engine, Upgrade!Kind, Upgrade!Owner, Upgrade!Else, Upgrade!None, Upgrade!Infers
<1>7. CASE Upgrade!RepositoryKinds
  BY <1>7 DEF Upgrade!RepositoryKinds, MeaningFits, RowsFit, RowsTyped, FormFits, RowFields,
       Upgrade!Engine, Upgrade!Kind, Upgrade!Owner, Upgrade!Else, Upgrade!None, Upgrade!Infers
<1>8. CASE Upgrade!RsyncToSSH
  BY <1>8 DEF Upgrade!RsyncToSSH, MeaningFits, RowsFit, RowsTyped, FormFits, RowFields,
       Upgrade!Engine, Upgrade!Kind, Upgrade!Owner, Upgrade!Else, Upgrade!None, Upgrade!Infers
<1>9. CASE Upgrade!AddBackend
  BY <1>9 DEF Upgrade!AddBackend, MeaningFits, RowsFit, RowsTyped, FormFits, RowFields,
       Upgrade!Engine, Upgrade!Kind, Upgrade!Owner, Upgrade!Else, Upgrade!None, Upgrade!Infers
<1>10. CASE Upgrade!RepositoryCapacity
  BY <1>10 DEF Upgrade!RepositoryCapacity, MeaningFits, RowsFit, RowsTyped, FormFits,
       RowFields, Upgrade!Engine, Upgrade!Kind, Upgrade!Owner, Upgrade!Else, Upgrade!None,
       Upgrade!Infers
<1>11. CASE Upgrade!TaskExecutions
  BY <1>11 DEF Upgrade!TaskExecutions, MeaningFits, RowsFit, RowsTyped, FormFits, RowFields,
       Upgrade!Engine, Upgrade!Kind, Upgrade!Owner, Upgrade!Else, Upgrade!None, Upgrade!Infers
<1>12. CASE Upgrade!AddOwner
  BY <1>12 DEF Upgrade!AddOwner, MeaningFits, RowsFit, RowsTyped, FormFits, RowFields,
       Upgrade!Engine, Upgrade!Kind, Upgrade!Owner, Upgrade!Else, Upgrade!None, Upgrade!Infers
<1>13. CASE Upgrade!LocalTargets
  BY ZenonT(60), <1>13 DEF Upgrade!LocalTargets, MeaningFits, RowsFit, RowsTyped, FormFits, RowFields,
       Upgrade!Engine, Upgrade!Kind, Upgrade!Owner, Upgrade!Else, Upgrade!None, Upgrade!Infers
<1>14. CASE Upgrade!RetentionAuthority
  <2> USE DEF Upgrade!RetentionAuthority, MeaningFits, RowsFit, RowsTyped, FormFits, RowFields,
     Upgrade!Engine, Upgrade!Kind, Upgrade!Owner, Upgrade!Else, Upgrade!None
  <2>1. CASE moved \/ rows.engine # "restic"
    BY <1>14, <2>1
  <2>2. CASE ~ (moved \/ rows.engine # "restic")
    <3>1. rows' = [rows EXCEPT !.retention = rows.wish, !.wish = 0] /\ intended' = intended
      BY <1>14, <2>2
    <3>2. DOMAIN rows = RowFields
      OBVIOUS
    <3>3. rows'.retention = rows.wish /\ rows'.wish = 0
      BY <3>1, <3>2
    <3>4. /\ rows'.engine = rows.engine /\ rows'.kind = rows.kind /\ rows'.owner = rows.owner
          /\ rows'.place = rows.place /\ rows'.anchor = rows.anchor
          /\ rows'.status = rows.status /\ rows'.monitored = rows.monitored
          /\ rows'.verifies = rows.verifies /\ rows'.certified = rows.certified
          /\ rows'.hosts = rows.hosts /\ rows'.deployments = rows.deployments
      BY <3>1
    <3>5. intended.engine = "restic" /\ moved' = TRUE /\ ~moved
      BY <1>14, <2>2
    <3> QED BY <1>14, <3>1, <3>3, <3>4, <3>5
  <2> QED BY <2>1, <2>2
<1>15. CASE Upgrade!VerificationRetired
  BY <1>15 DEF Upgrade!VerificationRetired, MeaningFits, RowsFit, RowsTyped, FormFits,
       RowFields, Upgrade!Engine, Upgrade!Kind, Upgrade!Owner, Upgrade!Else, Upgrade!None,
       Upgrade!Infers
<1>16. CASE Upgrade!AddScope
  BY <1>16 DEF Upgrade!AddScope, MeaningFits, RowsFit, RowsTyped, FormFits, RowFields,
       Upgrade!Engine, Upgrade!Kind, Upgrade!Owner, Upgrade!Else, Upgrade!None, Upgrade!Infers
<1>17. CASE Upgrade!AddManaged
  BY <1>17 DEF Upgrade!AddManaged, MeaningFits, RowsFit, RowsTyped, FormFits, RowFields,
       Upgrade!Engine, Upgrade!Kind, Upgrade!Owner, Upgrade!Else, Upgrade!None, Upgrade!Infers
<1>18. CASE Upgrade!InferManaged
  BY <1>18 DEF Upgrade!InferManaged, MeaningFits, RowsFit, RowsTyped, FormFits, RowFields,
       Upgrade!Engine, Upgrade!Kind, Upgrade!Owner, Upgrade!Else, Upgrade!None, Upgrade!Infers
<1>19. CASE Upgrade!AddHost
  BY <1>19 DEF Upgrade!AddHost, MeaningFits, RowsFit, RowsTyped, FormFits, RowFields,
       Upgrade!Engine, Upgrade!Kind, Upgrade!Owner, Upgrade!Else, Upgrade!None, Upgrade!Infers
<1>20. CASE Upgrade!ClearMissingHosts
  BY <1>20 DEF Upgrade!ClearMissingHosts, MeaningFits, RowsFit, RowsTyped, FormFits, RowFields,
       Upgrade!Engine, Upgrade!Kind, Upgrade!Owner, Upgrade!Else, Upgrade!None, Upgrade!Infers
<1>21. CASE Upgrade!BindDeployed
  <2>1. rows' = rows \/ \E h : rows' = [rows EXCEPT !.host = h]
    BY <1>21 DEF Upgrade!BindDeployed
  <2> QED BY ZenonT(60), <1>21, <2>1 DEF Upgrade!BindDeployed, RowsFit, RowsTyped, RowFields, Upgrade!Owner,
        Upgrade!Kind, Upgrade!Engine, Upgrade!Else, Upgrade!None
<1>22. CASE Upgrade!AddMetadata
  BY <1>22 DEF Upgrade!AddMetadata, MeaningFits, RowsFit, RowsTyped, FormFits, RowFields,
       Upgrade!Engine, Upgrade!Kind, Upgrade!Owner, Upgrade!Else, Upgrade!None, Upgrade!Infers
<1>23. CASE Upgrade!BackfillCertificates
  BY <1>23 DEF Upgrade!BackfillCertificates, MeaningFits, RowsFit, RowsTyped, FormFits,
       RowFields, Upgrade!Engine, Upgrade!Kind, Upgrade!Owner, Upgrade!Else, Upgrade!None,
       Upgrade!Infers
<1>24. CASE Upgrade!LogicalReferencesOnly
  BY <1>24 DEF Upgrade!LogicalReferencesOnly, MeaningFits, RowsFit, RowsTyped, FormFits,
       RowFields, Upgrade!Engine, Upgrade!Kind, Upgrade!Owner, Upgrade!Else, Upgrade!None,
       Upgrade!Infers
<1>25. CASE Upgrade!SaveMaintenancePolicy
  BY <1>25 DEF Upgrade!SaveMaintenancePolicy, MeaningFits, RowsFit, RowsTyped, FormFits,
       RowFields, Upgrade!Engine, Upgrade!Kind, Upgrade!Owner, Upgrade!Else, Upgrade!None,
       Upgrade!Infers
<1>26. CASE Upgrade!UpdatePlan
  BY <1>26 DEF Upgrade!UpdatePlan, MeaningFits, RowsFit, RowsTyped, FormFits, RowFields,
       Upgrade!Engine, Upgrade!Kind, Upgrade!Owner, Upgrade!Else, Upgrade!None, Upgrade!Infers
<1>27. CASE Upgrade!SaveVerificationPolicy
  BY <1>27 DEF Upgrade!SaveVerificationPolicy, MeaningFits, RowsFit, RowsTyped, FormFits,
       RowFields, Upgrade!Engine, Upgrade!Kind, Upgrade!Owner, Upgrade!Else, Upgrade!None,
       Upgrade!Infers
<1>28. CASE Upgrade!BindAgentRemoteHost
  BY <1>28 DEF Upgrade!BindAgentRemoteHost, MeaningFits, RowsFit, RowsTyped, FormFits,
       RowFields, Upgrade!Engine, Upgrade!Kind, Upgrade!Owner, Upgrade!Else, Upgrade!None,
       Upgrade!Infers
<1>29. CASE Upgrade!BindManagedAgentRemoteHost
  BY <1>29 DEF Upgrade!BindManagedAgentRemoteHost, MeaningFits, RowsFit, RowsTyped, FormFits,
       RowFields, Upgrade!Engine, Upgrade!Kind, Upgrade!Owner, Upgrade!Else, Upgrade!None,
       Upgrade!Infers
<1>30. CASE Upgrade!EnrollAgent
  BY <1>30 DEF Upgrade!EnrollAgent, MeaningFits, RowsFit, RowsTyped, FormFits, RowFields,
       Upgrade!Engine, Upgrade!Kind, Upgrade!Owner, Upgrade!Else, Upgrade!None, Upgrade!Infers
<1>31. CASE Upgrade!DeleteHost
  BY <1>31 DEF Upgrade!DeleteHost, MeaningFits, RowsFit, RowsTyped, FormFits, RowFields,
       Upgrade!Engine, Upgrade!Kind, Upgrade!Owner, Upgrade!Else, Upgrade!None, Upgrade!Infers
<1>32. CASE Upgrade!Stop
  BY <1>32 DEF Upgrade!Stop, Upgrade!Undone, MeaningFits, RowsFit, RowsTyped, FormFits, RowFields,
       Upgrade!Engine, Upgrade!Kind, Upgrade!Owner, Upgrade!Else, Upgrade!None, Upgrade!Infers
<1>33. CASE Upgrade!SaveRepositoryCapacityPolicy
  BY <1>33 DEF Upgrade!SaveRepositoryCapacityPolicy, MeaningFits, RowsFit, RowsTyped, FormFits,
       RowFields, Upgrade!Engine, Upgrade!Kind, Upgrade!Owner, Upgrade!Else, Upgrade!None,
       Upgrade!Infers
<1> QED BY <1>1, <1>2, <1>3, <1>4, <1>5, <1>6, <1>7, <1>8, <1>9, <1>10, <1>11, <1>12, <1>13,
      <1>14, <1>15, <1>16, <1>17, <1>18, <1>19, <1>20, <1>21, <1>22, <1>23, <1>24, <1>25,
      <1>26, <1>27, <1>28, <1>29, <1>30, <1>31, <1>32, <1>33
  DEF Upgrade!Next, Upgrade!Migrate

(* What the two parts below are about, and the steps that leave it alone.  *)
HostingSame ==
  /\ rows'.hosts = rows.hosts /\ rows'.deployments = rows.deployments
  /\ rows'.managed = rows.managed /\ rows'.host = rows.host
  /\ intended'.managed = intended.managed /\ intended'.host = intended.host

Inferred == "managed" \in columns /\ opening # "infer"

QuietUpgrade ==
  \/ Upgrade!Begin \/ Upgrade!AddAnchor \/ Upgrade!SetAnchor
  \/ Upgrade!RebuildOccurrences \/ Upgrade!AddRecords \/ Upgrade!RunStatuses
  \/ Upgrade!RepositoryKinds \/ Upgrade!RsyncToSSH \/ Upgrade!AddBackend
  \/ Upgrade!RepositoryCapacity \/ Upgrade!TaskExecutions \/ Upgrade!AddOwner
  \/ Upgrade!LocalTargets \/ Upgrade!RetentionAuthority \/ Upgrade!VerificationRetired
  \/ Upgrade!AddScope \/ Upgrade!AddManaged \/ Upgrade!AddHost \/ Upgrade!AddMetadata
  \/ Upgrade!BackfillCertificates \/ Upgrade!LogicalReferencesOnly
  \/ Upgrade!SaveMaintenancePolicy \/ Upgrade!UpdatePlan
  \/ Upgrade!SaveVerificationPolicy \/ Upgrade!SaveRepositoryCapacityPolicy \/ Upgrade!Stop

LEMMA QuietSteps ==
  ASSUME UpgradeInv, QuietUpgrade
  PROVE  /\ HostingSame /\ (~cut' => ~cut /\ (Inferred' <=> Inferred))
         /\ opening' \in FromAgents => opening \in FromAgents
         /\ opening' \in FromBind => opening \in FromBind
<1> USE DEF UpgradeInv, FormFits, HostingSame, Inferred, Upgrade!Step, Upgrade!Shape,
   Upgrade!Add, Upgrade!Rebuild, Upgrade!Write, Upgrade!Infers,
   FromAgents, FromBind, FromClear, FromHost, FromManaged, FromScope, FromVerification,
   FromRetention, FromSetOwner, FromOwner, FromTasks, FromMonitor, FromBackend, FromSSH,
   FromRepositories, FromStatuses, FromRecords, FromOccurrences, FromSetAnchor, Openings
<1>1. CASE Upgrade!Begin
  BY <1>1 DEF Upgrade!Begin
<1>2. CASE Upgrade!AddAnchor
  BY <1>2 DEF Upgrade!AddAnchor
<1>3. CASE Upgrade!SetAnchor
  <2>1. /\ \E v : rows' = [rows EXCEPT !.anchor = v]
        /\ \E v : intended' = [intended EXCEPT !.anchor = v]
    BY <1>3 DEF Upgrade!SetAnchor
  <2>2. HostingSame
    BY <2>1 DEF RowsTyped, RowFields
  <2> QED BY <1>3, <2>2 DEF Upgrade!SetAnchor
<1>4. CASE Upgrade!RebuildOccurrences
  BY <1>4 DEF Upgrade!RebuildOccurrences
<1>5. CASE Upgrade!AddRecords
  BY <1>5 DEF Upgrade!AddRecords
<1>6. CASE Upgrade!RunStatuses
  BY <1>6 DEF Upgrade!RunStatuses
<1>7. CASE Upgrade!RepositoryKinds
  BY <1>7 DEF Upgrade!RepositoryKinds
<1>8. CASE Upgrade!RsyncToSSH
  BY <1>8 DEF Upgrade!RsyncToSSH
<1>9. CASE Upgrade!AddBackend
  BY <1>9 DEF Upgrade!AddBackend
<1>10. CASE Upgrade!RepositoryCapacity
  BY <1>10 DEF Upgrade!RepositoryCapacity
<1>11. CASE Upgrade!TaskExecutions
  BY <1>11 DEF Upgrade!TaskExecutions
<1>12. CASE Upgrade!AddOwner
  BY <1>12 DEF Upgrade!AddOwner
<1>13. CASE Upgrade!LocalTargets
  <2>1. rows' = rows \/ \E v : rows' = [rows EXCEPT !.owner = v]
    BY <1>13 DEF Upgrade!LocalTargets
  <2>2. HostingSame
    BY <1>13, <2>1 DEF Upgrade!LocalTargets, RowsTyped, RowFields
  <2> QED BY <1>13, <2>2 DEF Upgrade!LocalTargets
<1>14. CASE Upgrade!RetentionAuthority
  <2>1. rows' = rows \/ rows' = [rows EXCEPT !.retention = rows.wish, !.wish = 0]
    BY <1>14 DEF Upgrade!RetentionAuthority
  <2>2. HostingSame
    BY ZenonT(60), <1>14, <2>1 DEF Upgrade!RetentionAuthority, RowsTyped, RowFields
  <2> QED BY <2>2, <1>14, <2>1 DEF Upgrade!RetentionAuthority
<1>15. CASE Upgrade!VerificationRetired
  BY <1>15 DEF Upgrade!VerificationRetired
<1>16. CASE Upgrade!AddScope
  BY <1>16 DEF Upgrade!AddScope
<1>17. CASE Upgrade!AddManaged
  BY <1>17 DEF Upgrade!AddManaged
<1>18. CASE Upgrade!AddHost
  BY <1>18 DEF Upgrade!AddHost
<1>19. CASE Upgrade!AddMetadata
  BY <1>19 DEF Upgrade!AddMetadata
<1>20. CASE Upgrade!BackfillCertificates
  BY <1>20 DEF Upgrade!BackfillCertificates
<1>21. CASE Upgrade!LogicalReferencesOnly
  BY <1>21 DEF Upgrade!LogicalReferencesOnly
<1>22. CASE Upgrade!SaveMaintenancePolicy
  BY <1>22 DEF Upgrade!SaveMaintenancePolicy
<1>23. CASE Upgrade!UpdatePlan
  BY <1>23 DEF Upgrade!UpdatePlan
<1>24. CASE Upgrade!SaveVerificationPolicy
  BY <1>24 DEF Upgrade!SaveVerificationPolicy
<1>25. CASE Upgrade!Stop
  <2>1. HostingSame
    BY <1>25 DEF Upgrade!Stop, Upgrade!Undone, RowsTyped, RowFields
  <2>2. ~cut' => ~cut /\ (Inferred' <=> Inferred)
    BY <1>25 DEF Upgrade!Stop
  <2> QED BY <1>25, <2>1, <2>2 DEF Upgrade!Stop
<1>26. CASE Upgrade!SaveRepositoryCapacityPolicy
  BY <1>26 DEF Upgrade!SaveRepositoryCapacityPolicy, RowsTyped, RowFields
<1> QED BY <1>1, <1>2, <1>3, <1>4, <1>5, <1>6, <1>7, <1>8, <1>9, <1>10, <1>11, <1>12, <1>13,
      <1>14, <1>15, <1>16, <1>17, <1>18, <1>19, <1>20, <1>21, <1>22, <1>23, <1>24,
      <1>25, <1>26 DEF QuietUpgrade

LEMMA QuietKeepsManaged == ASSUME UpgradeInv, QuietUpgrade PROVE ManagedFits'
<1>1. Upgrade!Deployed(rows)' = Upgrade!Deployed(rows)
  BY QuietSteps DEF HostingSame, Upgrade!Deployed
<1>2. /\ rows'.managed = rows.managed /\ intended'.managed = intended.managed
      /\ ~cut' => ~cut /\ (Inferred' <=> Inferred)
  BY QuietSteps DEF HostingSame
<1>3. ~cut => IF Inferred THEN intended.managed = rows.managed
              ELSE \A a \in Agents : /\ rows.managed[a] = FALSE
                                     /\ intended.managed[a] = (a \in Upgrade!Deployed(rows))
  BY DEF UpgradeInv, ManagedFits, Inferred
<1>4. ~cut' => IF Inferred' THEN intended'.managed = rows'.managed
              ELSE \A a \in Agents : /\ rows'.managed[a] = FALSE
                                     /\ intended'.managed[a] = (a \in Upgrade!Deployed(rows)')
  BY <1>1, <1>2, <1>3
<1> QED BY <1>4 DEF ManagedFits, Inferred

(* The inference is made once, and then what is written to the rows is     *)
(* what is intended.                                                       *)
LEMMA ManagedKept == ASSUME UpgradeInv, Upgrade!Next PROVE ManagedFits'
<1> USE DEF UpgradeInv
<1>1. CASE QuietUpgrade
  BY <1>1, QuietKeepsManaged
<1>2. CASE Upgrade!InferManaged
  <2>1. /\ rows' = [rows EXCEPT !.managed =
                     [a \in Agents |-> rows.managed[a] \/ a \in Upgrade!Deployed(rows)]]
        /\ intended' = intended /\ opening = "infer" /\ cut' = cut
    BY <1>2 DEF Upgrade!InferManaged, Upgrade!Step, Upgrade!Shape
  <2>2. rows'.managed = [a \in Agents |-> rows.managed[a] \/ a \in Upgrade!Deployed(rows)]
    BY <2>1 DEF RowsTyped, RowFields
  <2>3. ASSUME ~cut, NEW a \in Agents PROVE rows'.managed[a] = intended.managed[a]
    <3>1. rows.managed[a] = FALSE /\ intended.managed[a] = (a \in Upgrade!Deployed(rows))
      BY <2>1, <2>3 DEF ManagedFits
    <3>2. rows'.managed[a] = (rows.managed[a] \/ a \in Upgrade!Deployed(rows))
      BY <2>2
    <3> QED BY <3>1, <3>2
  <2>4. rows'.managed \in [Agents -> BOOLEAN] /\ intended.managed \in [Agents -> BOOLEAN]
    BY <1>2, RowsTypedKept, <2>1 DEF RowsTyped, Upgrade!Next, Upgrade!Migrate
  <2>5. ~cut => rows'.managed = intended.managed
    BY <2>3, <2>4
  <2>6. opening' = "host" /\ columns' = columns /\ "managed" \in columns
    BY <1>2 DEF Upgrade!InferManaged, Upgrade!Step, Upgrade!Shape, FormFits
  <2> QED BY <2>1, <2>5, <2>6 DEF ManagedFits
<1>3. CASE Upgrade!ClearMissingHosts
  <2>1. /\ rows'.managed = rows.managed /\ intended' = intended /\ columns' = columns
        /\ opening = "clear host" /\ opening' = "bind" /\ cut' = cut
    BY <1>3 DEF Upgrade!ClearMissingHosts, Upgrade!Step, Upgrade!Shape, RowsTyped, RowFields
  <2>2. "managed" \in columns
    BY <2>1 DEF FormFits, FromHost, FromClear
  <2> QED BY <2>1, <2>2 DEF ManagedFits
<1>4. CASE Upgrade!BindDeployed
  <2>1. rows' = rows \/ \E h : rows' = [rows EXCEPT !.host = h]
    BY <1>4 DEF Upgrade!BindDeployed
  <2>2. /\ rows'.managed = rows.managed /\ intended' = intended /\ columns' = columns
        /\ opening = "bind" /\ opening' # "infer" /\ cut' = cut
    BY <1>4, <2>1 DEF Upgrade!BindDeployed, Upgrade!Shape, RowsTyped, RowFields
  <2>3. "managed" \in columns
    BY <2>2 DEF FormFits, FromHost, FromClear, FromBind
  <2> QED BY <2>2, <2>3 DEF ManagedFits
<1>5. ASSUME opening = "open", opening' = opening, columns' = columns, cut' = cut,
             ~cut => rows'.managed = intended'.managed
      PROVE  ManagedFits'
  BY <1>5 DEF ManagedFits, FormFits, FromHost, FromClear, FromBind, FromAgents
<1>6. ASSUME opening = "open", ~cut PROVE rows.managed = intended.managed
  BY <1>6 DEF ManagedFits, FormFits, FromHost, FromClear, FromBind, FromAgents
<1>7. CASE Upgrade!BindAgentRemoteHost \/ Upgrade!DeleteHost
  <2>1. rows'.managed = rows.managed /\ intended'.managed = intended.managed
    BY <1>7 DEF Upgrade!BindAgentRemoteHost, Upgrade!DeleteHost, Upgrade!Write, RowsTyped,
       RowFields
  <2> QED BY <1>5, <1>6, <1>7, <2>1
        DEF Upgrade!BindAgentRemoteHost, Upgrade!DeleteHost, Upgrade!Write
<1>8. CASE Upgrade!BindManagedAgentRemoteHost
  <2>1. PICK a \in Agents :
          /\ rows'.managed = [rows.managed EXCEPT ![a] = TRUE]
          /\ intended'.managed = [intended.managed EXCEPT ![a] = TRUE]
    BY <1>8 DEF Upgrade!BindManagedAgentRemoteHost, Upgrade!Write, RowsTyped, RowFields
  <2> QED BY <1>5, <1>6, <1>8, <2>1 DEF Upgrade!BindManagedAgentRemoteHost, Upgrade!Write
<1>9. CASE Upgrade!EnrollAgent
  <2>1. PICK a \in Agents :
          /\ rows'.managed = [rows.managed EXCEPT ![a] = FALSE]
          /\ intended'.managed = [intended.managed EXCEPT ![a] = FALSE]
    BY <1>9 DEF Upgrade!EnrollAgent, Upgrade!Write, RowsTyped, RowFields
  <2> QED BY <1>5, <1>6, <1>9, <2>1 DEF Upgrade!EnrollAgent, Upgrade!Write
<1> QED BY <1>1, <1>2, <1>3, <1>4, <1>7, <1>8, <1>9 DEF Upgrade!Next, Upgrade!Migrate,
      QuietUpgrade

-----------------------------------------------------------------------------
(* The last deployment of an Agent: of the deployments there are, it is    *)
(* one of this Agent's and none of the Agent's is later.                   *)

Earlier == {ss \in Nat \X Nat : ss[1] < ss[2]}

LEMMA LastOne ==
  ASSUME NEW n \in Nat, NEW S \in SUBSET (1..n), S # {}
  PROVE  \E m \in S : \A k \in S : k <= m
<1> DEFINE T == {n - k : k \in S}
<1>1. T \subseteq Nat /\ T # {}
  <2>1. PICK k \in S : TRUE
    OBVIOUS
  <2>2. n - k \in T
    BY <2>1
  <2> QED BY <2>2
<1>2. IsWellFoundedOn(Earlier, Nat)
  BY NatLessThanWellFounded DEF OpToRel, Earlier
<1>3. PICK l \in T : \A y \in T : ~ (<<y, l>> \in Earlier)
  BY <1>1, <1>2, WFMin, Zenon
<1>4. PICK m \in S : l = n - m
  BY <1>3
<1>5. ASSUME NEW k \in S PROVE k <= m
  <2>1. k \in 1..n /\ m \in 1..n /\ n - k \in T /\ n - k \in Nat /\ l \in Nat
    BY <1>1, <1>3
  <2>2. ~ (n - k < l)
    BY <1>3, <2>1 DEF Earlier
  <2> QED BY <1>4, <2>1, <2>2
<1> QED BY <1>5

LEMMA LastFacts ==
  ASSUME NEW r, r.deployments \in Seq(Agents \X Hosts), NEW a \in Upgrade!Deployed(r)
  PROVE  LET l == Upgrade!Last(r, a) IN
         /\ l \in DOMAIN r.deployments /\ l \in Nat
         /\ r.deployments[l][1] = a /\ r.deployments[l][2] \in Hosts
         /\ \A j \in DOMAIN r.deployments : r.deployments[j][1] = a => j <= l
<1> DEFINE s == r.deployments
           S == {i \in DOMAIN s : s[i][1] = a}
<1>1. DOMAIN s = 1..Len(s) /\ Len(s) \in Nat /\ \A i \in 1..Len(s) : s[i] \in Agents \X Hosts
  OBVIOUS
<1>2. S \in SUBSET (1..Len(s)) /\ S # {}
  BY <1>1 DEF Upgrade!Deployed
<1>3. PICK m \in S : \A k \in S : k <= m
  BY <1>1, <1>2, LastOne
<1>4. /\ m \in DOMAIN s /\ s[m][1] = a
      /\ \A j \in DOMAIN s : s[j][1] = a => j <= m
  BY <1>3
<1>5. LET l == Upgrade!Last(r, a) IN
      /\ l \in DOMAIN s /\ s[l][1] = a
      /\ \A j \in DOMAIN s : s[j][1] = a => j <= l
  BY <1>4 DEF Upgrade!Last
<1>6. s[Upgrade!Last(r, a)] \in Agents \X Hosts
  BY <1>1, <1>5
<1> QED BY <1>1, <1>5, <1>6

(* A deployment of another Agent leaves an Agent's last one what it was.   *)
LEMMA LastStays ==
  ASSUME NEW r, r.deployments \in Seq(Agents \X Hosts), NEW a \in Agents, NEW h \in Hosts,
         NEW q, q.deployments = Append(r.deployments, <<a, h>>),
         NEW b \in Upgrade!Deployed(r), b # a
  PROVE  /\ b \in Upgrade!Deployed(q)
         /\ q.deployments[Upgrade!Last(q, b)] = r.deployments[Upgrade!Last(r, b)]
<1> DEFINE s == r.deployments
           t == q.deployments
           l == Upgrade!Last(r, b)
           m == Upgrade!Last(q, b)
<1>1. /\ DOMAIN s = 1..Len(s) /\ Len(s) \in Nat /\ DOMAIN t = 1..(Len(s) + 1)
      /\ t \in Seq(Agents \X Hosts)
      /\ \A i \in 1..Len(s) : t[i] = s[i]
      /\ t[Len(s) + 1] = <<a, h>>
  OBVIOUS
<1>2. /\ l \in DOMAIN s /\ s[l][1] = b /\ l \in Nat
      /\ \A j \in DOMAIN s : s[j][1] = b => j <= l
  BY LastFacts
<1>3. l \in DOMAIN t /\ t[l] = s[l]
  BY <1>1, <1>2
<1>4. b \in Upgrade!Deployed(q)
  BY <1>2, <1>3 DEF Upgrade!Deployed
<1>5. /\ m \in DOMAIN t /\ t[m][1] = b /\ m \in Nat
      /\ \A j \in DOMAIN t : t[j][1] = b => j <= m
  BY <1>1, <1>4, LastFacts
<1> HIDE DEF l, m, s, t
<1>6. m # Len(s) + 1
  BY <1>1, <1>5
<1>7. m \in DOMAIN s /\ t[m] = s[m]
  BY <1>1, <1>5, <1>6
<1>8. l <= m
  BY <1>2, <1>3, <1>5
<1>9. m <= l
  BY <1>2, <1>5, <1>7
<1>10. l = m
  BY <1>2, <1>5, <1>8, <1>9
<1>11. t[m] = s[l]
  BY <1>7, <1>10
<1> QED BY <1>4, <1>11 DEF s, t, l, m

-----------------------------------------------------------------------------
(* The hosts of Agents.                                                    *)

LEMMA QuietKeepsHosts == ASSUME UpgradeInv, QuietUpgrade PROVE HostsFit'
<1>1. /\ HostingSame /\ (~cut' => ~cut)
      /\ opening' \in FromAgents => opening \in FromAgents
      /\ opening' \in FromBind => opening \in FromBind
  BY QuietSteps
<1>2. /\ Upgrade!Deployed(rows)' = Upgrade!Deployed(rows)
      /\ \A a : Placed(a)' = Placed(a)
      /\ \A a : Upgrade!Last(rows, a)' = Upgrade!Last(rows, a)
      /\ \A a : LastHost(a)' = LastHost(a)
      /\ \A a : Waits(a)' = Waits(a)
  BY <1>1 DEF HostingSame, Upgrade!Deployed, Upgrade!Last, Placed, LastHost, Waits
<1>3. \A a \in Agents : Pending(a) => Pending(a)'
  BY <1>1, <1>2 DEF HostingSame, Pending
<1>4. ASSUME ~cut', NEW a \in Agents PROVE HostFits(a)'
  <2>1. HostFits(a) /\ intended'.host = intended.host
    BY <1>1, <1>4 DEF UpgradeInv, HostsFit, HostingSame
  <2> QED BY <1>1, <1>2, <1>3, <2>1 DEF HostFits
<1>5. rows'.host = rows.host /\ rows'.hosts = rows.hosts
  BY <1>1 DEF HostingSame
<1> QED BY <1>1, <1>4, <1>5 DEF UpgradeInv, HostsFit

LEMMA InferKeepsHosts == ASSUME UpgradeInv, Upgrade!InferManaged PROVE HostsFit'
<1>1. /\ \E v : rows' = [rows EXCEPT !.managed = v]
      /\ intended' = intended /\ cut' = cut /\ opening' = "host"
  BY DEF Upgrade!InferManaged, Upgrade!Step, Upgrade!Shape
<1>2. /\ rows'.host = rows.host /\ rows'.hosts = rows.hosts
      /\ rows'.deployments = rows.deployments
  BY <1>1 DEF UpgradeInv, RowsTyped, RowFields
<1>3. opening' \notin FromBind /\ opening' \notin FromAgents
  BY <1>1 DEF FromBind, FromAgents
<1>4. /\ Upgrade!Deployed(rows)' = Upgrade!Deployed(rows)
      /\ \A a : Placed(a)' = Placed(a)
      /\ \A a : Upgrade!Last(rows, a)' = Upgrade!Last(rows, a)
      /\ \A a : LastHost(a)' = LastHost(a)
      /\ \A a : Waits(a)' = Waits(a)
  BY <1>1, <1>2 DEF Upgrade!Deployed, Upgrade!Last, Placed, LastHost, Waits
<1>5. \A a \in Agents : Pending(a) => Pending(a)'
  BY <1>1, <1>2, <1>4 DEF Pending
<1>6. ASSUME ~cut', NEW a \in Agents PROVE HostFits(a)'
  <2>1. HostFits(a)
    BY <1>1, <1>6 DEF UpgradeInv, HostsFit
  <2> QED BY <1>1, <1>3, <1>4, <1>5, <2>1 DEF HostFits
<1> QED BY <1>1, <1>2, <1>3, <1>6 DEF UpgradeInv, HostsFit

(* Clearing the missing hosts leaves every Agent where it is placed.       *)
LEMMA ClearKeepsHosts == ASSUME UpgradeInv, Upgrade!ClearMissingHosts PROVE HostsFit'
<1>1. /\ rows' = [rows EXCEPT !.host = [a \in Agents |-> Placed(a)]]
      /\ intended' = intended /\ cut' = cut /\ opening' = "bind"
  BY DEF Upgrade!ClearMissingHosts, Upgrade!Step, Upgrade!Shape, Placed, Upgrade!None
<1>2. /\ rows'.host = [a \in Agents |-> Placed(a)] /\ rows'.hosts = rows.hosts
      /\ rows'.deployments = rows.deployments
  BY <1>1 DEF UpgradeInv, RowsTyped, RowFields
<1>3. "none" \notin rows.hosts
  BY DeploymentsAssumption DEF UpgradeInv, RowsTyped, Upgrade!None
<1>4. \A a \in Agents : Placed(a)' = Placed(a) /\ rows'.host[a] = Placed(a)
  BY <1>2, <1>3 DEF Placed
<1>5. /\ Upgrade!Deployed(rows)' = Upgrade!Deployed(rows)
      /\ \A a : Upgrade!Last(rows, a)' = Upgrade!Last(rows, a)
      /\ \A a : LastHost(a)' = LastHost(a)
      /\ \A a \in Agents : Waits(a)' = Waits(a)
  BY <1>1, <1>2, <1>4 DEF Upgrade!Deployed, Upgrade!Last, LastHost, Waits
<1>6. \A a \in Agents : Pending(a) => Pending(a)'
  BY <1>1, <1>2, <1>4, <1>5 DEF Pending
<1>7. opening' \notin FromAgents
  BY <1>1 DEF FromAgents
<1>8. ASSUME ~cut', NEW a \in Agents PROVE HostFits(a)'
  <2>1. HostFits(a)
    BY <1>1, <1>8 DEF UpgradeInv, HostsFit
  <2> QED BY <1>1, <1>4, <1>5, <1>6, <1>7, <2>1 DEF HostFits
<1>9. ASSUME NEW a \in Agents, NEW b \in Agents, a # b, rows'.host[a] # "none"
      PROVE  rows'.host[a] # rows'.host[b]
  <2>1. rows.host[a] # rows.host[b] \/ rows.host[a] = "none"
    BY <1>9 DEF UpgradeInv, HostsFit
  <2> QED BY <1>4, <1>9, <2>1 DEF Placed
<1>10. \A a \in Agents : rows'.host[a] \in rows'.hosts \cup {"none"}
  BY <1>2, <1>4 DEF Placed
<1> QED BY <1>8, <1>9, <1>10 DEF HostsFit

(* From the step bind on, every Agent has the host it is placed at.        *)
LEMMA PlacedIsHost ==
  ASSUME UpgradeInv, opening \in FromBind
  PROVE  /\ "none" \notin rows.hosts
         /\ \A a \in Agents : Placed(a) = rows.host[a]
<1>1. "none" \notin rows.hosts
  BY DeploymentsAssumption DEF UpgradeInv, RowsTyped, Upgrade!None
<1> QED BY <1>1 DEF UpgradeInv, HostsFit, Placed

(* An Agent that waits claims the host of its last deployment, if there is *)
(* such a host.                                                            *)
LEMMA ClaimFacts ==
  ASSUME UpgradeInv, opening = "bind", NEW a \in Agents
  PROVE  /\ \A h \in Upgrade!Claims(rows, a) : h = LastHost(a) /\ h \in rows.hosts
         /\ ~cut => \A h \in Upgrade!Claims(rows, a) : Waits(a)
         /\ ~cut /\ Waits(a) /\ LastHost(a) \in rows.hosts
            => LastHost(a) \in Upgrade!Claims(rows, a)
         /\ \A h \in Upgrade!Claims(rows, a) : a \in Upgrade!Deployed(rows)
<1>1. Placed(a) = rows.host[a]
  BY PlacedIsHost DEF FromBind
<1>2. "managed" \in columns
  BY DEF UpgradeInv, FormFits, FromBind, FromClear, FromHost
<1>3. ~cut => rows.managed = intended.managed
  BY <1>2 DEF UpgradeInv, ManagedFits
<1>4. rows.managed[a] \in BOOLEAN
  BY DEF UpgradeInv, RowsTyped
<1> QED BY <1>1, <1>3, <1>4 DEF Upgrade!Claims, Waits, LastHost, Upgrade!None

(* When no Agent is left to be bound, none is pending.                     *)
LEMMA NoneIsPending ==
  ASSUME UpgradeInv, opening = "bind", Upgrade!Candidates = {}, ~cut, NEW a \in Agents
  PROVE  ~ Pending(a)
<1> SUFFICES ASSUME Pending(a) PROVE FALSE
  OBVIOUS
<1>1. LastHost(a) \in Upgrade!Claims(rows, a)
  BY ClaimFacts DEF Pending
<1>2. \A b \in Agents : rows.host[b] # LastHost(a)
  BY PlacedIsHost DEF Pending, FromBind
<1>3. LastHost(a) \in Upgrade!FreeHosts(rows)
  BY <1>2 DEF Pending, Upgrade!FreeHosts
<1> QED BY <1>1, <1>3 DEF Upgrade!Candidates

(* The Agent with the latest deployment is bound first; one that is        *)
(* pending is not passed over, and loses its host to no other.             *)
LEMMA BindKeepsHosts == ASSUME UpgradeInv, Upgrade!BindDeployed PROVE HostsFit'
<1>0. /\ opening = "bind" /\ opening \in FromBind /\ intended' = intended /\ cut' = cut
      /\ RowsTyped
  BY DEF Upgrade!BindDeployed, Upgrade!Shape, FromBind, UpgradeInv
<1>1. CASE Upgrade!Candidates = {}
  <2>1. rows' = rows
    BY <1>1 DEF Upgrade!BindDeployed
  <2>2. /\ Upgrade!Deployed(rows)' = Upgrade!Deployed(rows)
        /\ \A a : Placed(a)' = Placed(a) /\ LastHost(a)' = LastHost(a)
    BY <2>1 DEF Upgrade!Deployed, Placed, LastHost, Upgrade!Last
  <2>3. ASSUME ~cut, NEW a \in Agents PROVE HostFits(a)'
    <3>1. HostFits(a) /\ ~ Pending(a)
      BY <1>0, <1>1, <2>3, NoneIsPending DEF UpgradeInv, HostsFit
    <3> QED BY <1>0, <2>2, <3>1 DEF HostFits
  <2> QED BY <1>0, <2>1, <2>3 DEF UpgradeInv, HostsFit
<1>2. CASE Upgrade!Candidates # {}
  <2>1. PICK a \in Upgrade!Candidates :
          /\ \A b \in Upgrade!Candidates : Upgrade!Last(rows, b) <= Upgrade!Last(rows, a)
          /\ \E h \in Upgrade!Claims(rows, a) : rows' = [rows EXCEPT !.host[a] = h]
    BY <1>2 DEF Upgrade!BindDeployed
  <2>2. PICK h \in Upgrade!Claims(rows, a) : rows' = [rows EXCEPT !.host[a] = h]
    BY <2>1
  <2>3. /\ a \in Agents /\ h = LastHost(a) /\ h \in rows.hosts /\ (~cut => Waits(a))
        /\ a \in Upgrade!Deployed(rows)
    BY <1>0, <2>1, ClaimFacts DEF Upgrade!Candidates
  <2>4. \A b \in Agents : rows.host[b] # h
    <3>1. PICK g \in Upgrade!Claims(rows, a) : g \in Upgrade!FreeHosts(rows)
      BY <2>1 DEF Upgrade!Candidates
    <3>2. g = h
      BY <1>0, <2>3, <3>1, ClaimFacts
    <3> QED BY <3>1, <3>2 DEF Upgrade!FreeHosts
  <2>5. /\ rows'.host = [rows.host EXCEPT ![a] = h] /\ rows'.hosts = rows.hosts
        /\ rows'.deployments = rows.deployments /\ opening' = opening
    BY <1>0, <1>2, <2>2 DEF RowsTyped, RowFields, Upgrade!BindDeployed
  <2>6. rows.host \in [Agents -> Hosts \cup {"none"}] /\ h # "none"
    BY <1>0, <2>3, PlacedIsHost DEF RowsTyped
  <2>7. /\ "none" \notin rows.hosts /\ \A b \in Agents : Placed(b) = rows.host[b]
    BY <1>0, PlacedIsHost
  <2>8. /\ Upgrade!Deployed(rows)' = Upgrade!Deployed(rows)
        /\ \A b : Upgrade!Last(rows, b)' = Upgrade!Last(rows, b)
        /\ \A b : LastHost(b)' = LastHost(b)
    BY <2>5 DEF Upgrade!Deployed, Upgrade!Last, LastHost
  <2>9. /\ Placed(a)' = h
        /\ \A b \in Agents \ {a} : Placed(b)' = Placed(b)
        /\ \A b \in Agents : Waits(b)' => Waits(b)
    BY <1>0, <2>3, <2>5, <2>6, <2>7, <2>8 DEF Placed, Waits
  <2>10. ASSUME ~cut, NEW b \in Agents, b # a, Pending(b) PROVE Pending(b)'
    <3>1. intended.host[b] # h
      <4> SUFFICES ASSUME intended.host[b] = h PROVE FALSE
        OBVIOUS
      <4>1. Upgrade!Last(rows, a) < Upgrade!Last(rows, b)
        BY <2>3, <2>10 DEF Pending
      <4>2. b \in Upgrade!Candidates
        <5>1. LastHost(b) \in Upgrade!Claims(rows, b)
          BY <1>0, <2>10, ClaimFacts DEF Pending
        <5>2. LastHost(b) \in Upgrade!FreeHosts(rows)
          BY <2>7, <2>10 DEF Pending, Upgrade!FreeHosts
        <5> QED BY <5>1, <5>2 DEF Upgrade!Candidates
      <4>3. Upgrade!Last(rows, b) <= Upgrade!Last(rows, a)
        BY <2>1, <4>2
      <4>4. Upgrade!Last(rows, a) \in Nat /\ Upgrade!Last(rows, b) \in Nat
        BY <1>0, <2>3, <2>10, LastFacts DEF RowsTyped, Pending, Waits
      <4> QED BY <4>1, <4>3, <4>4
    <3> QED BY <1>0, <2>3, <2>5, <2>8, <2>9, <2>10, <3>1 DEF Pending, Waits
  <2>11. ASSUME ~cut, NEW b \in Agents PROVE HostFits(b)'
    <3>1. HostFits(b)
      BY <2>11 DEF UpgradeInv, HostsFit
    <3>2. CASE b # a
      BY <1>0, <2>5, <2>8, <2>9, <2>10, <2>11, <3>1, <3>2 DEF HostFits
    <3>3. CASE b = a
      <4>1. Placed(a) = "none"
        BY <2>3, <2>11 DEF Waits
      <4>2. intended.host[a] = "none" \/ intended.host[a] = LastHost(a)
        BY <3>1, <3>3, <4>1 DEF HostFits, Pending
      <4> QED BY <1>0, <2>3, <2>8, <2>9, <3>3, <4>2 DEF HostFits
    <3> QED BY <3>2, <3>3
  <2>12. ASSUME NEW b \in Agents, NEW c \in Agents, b # c, rows'.host[b] # "none"
         PROVE  rows'.host[b] # rows'.host[c]
    BY <2>3, <2>4, <2>5, <2>6, <2>12 DEF UpgradeInv, HostsFit
  <2>13. \A b \in Agents : rows'.host[b] \in rows'.hosts \cup {"none"}
    BY <1>0, <2>3, <2>5, <2>6 DEF UpgradeInv, HostsFit
  <2> QED BY <1>0, <2>11, <2>12, <2>13 DEF HostsFit
<1> QED BY <1>1, <1>2

(* An open database: what a change by the service starts from, and what it *)
(* has to leave.                                                           *)
OpenFits(a) ==
  rows.host[a] # intended.host[a] =>
    intended.host[a] = "none" /\ a \in Upgrade!Deployed(rows) /\ rows.host[a] = LastHost(a)

LEMMA WhileOpen ==
  ASSUME UpgradeInv, opening = "open"
  PROVE  ~cut => \A a \in Agents : OpenFits(a)
BY PlacedIsHost DEF UpgradeInv, HostsFit, HostFits, OpenFits, FromBind, FromAgents

LEMMA StillOpen ==
  ASSUME RowsTyped', opening' = "open", ~cut' => \A a \in Agents : OpenFits(a)',
         \A a, b \in Agents : a # b /\ rows'.host[a] # "none" => rows'.host[a] # rows'.host[b],
         \A a \in Agents : rows'.host[a] \in rows'.hosts \cup {"none"}
  PROVE  HostsFit'
<1>1. "none" \notin rows'.hosts
  BY DeploymentsAssumption DEF RowsTyped, Upgrade!None
<1>2. \A a \in Agents : Placed(a)' = rows'.host[a]
  BY <1>1 DEF Placed
<1>3. ASSUME ~cut', NEW a \in Agents PROVE HostFits(a)'
  BY <1>2, <1>3 DEF HostFits, OpenFits
<1> QED BY <1>3 DEF HostsFit

LEMMA ServiceKeepsHosts ==
  ASSUME UpgradeInv,
         \/ Upgrade!BindAgentRemoteHost \/ Upgrade!BindManagedAgentRemoteHost
         \/ Upgrade!EnrollAgent \/ Upgrade!DeleteHost
  PROVE  HostsFit'
<1>0. /\ opening = "open" /\ opening' = "open" /\ cut' = cut /\ RowsTyped /\ RowsTyped'
      /\ rows.host \in [Agents -> Hosts \cup {"none"}]
      /\ intended.host \in [Agents -> Hosts \cup {"none"}]
  <2>1. opening = "open" /\ opening' = "open" /\ cut' = cut
    BY DEF Upgrade!BindAgentRemoteHost, Upgrade!BindManagedAgentRemoteHost,
       Upgrade!EnrollAgent, Upgrade!DeleteHost, Upgrade!Write
  <2> QED BY <2>1, RowsTypedKept DEF UpgradeInv, RowsTyped, Upgrade!Next
<1>1. /\ ~cut => \A a \in Agents : OpenFits(a)
      /\ \A a, b \in Agents : a # b /\ rows.host[a] # "none" => rows.host[a] # rows.host[b]
      /\ \A a \in Agents : rows.host[a] \in rows.hosts \cup {"none"}
      /\ "none" \notin rows.hosts
  BY <1>0, WhileOpen, PlacedIsHost DEF UpgradeInv, HostsFit, FromBind, FromAgents
<1>2. ASSUME NEW a \in Agents, NEW h \in rows.hosts, rows'.hosts = rows.hosts,
             rows'.host = Upgrade!Bound(rows, a, h),
             intended'.host = Upgrade!Bound(intended, a, h),
             \A b \in Agents \ {a} : b \in Upgrade!Deployed(rows) =>
               b \in Upgrade!Deployed(rows') /\ LastHost(b)' = LastHost(b)
      PROVE  HostsFit'
  <2>1. \A b \in Agents :
          /\ rows'.host[b] = IF b = a THEN h ELSE IF rows.host[b] = h THEN "none" ELSE rows.host[b]
          /\ intended'.host[b] =
               IF b = a THEN h ELSE IF intended.host[b] = h THEN "none" ELSE intended.host[b]
    BY <1>2 DEF Upgrade!Bound, Upgrade!None
  <2>2. ASSUME ~cut, NEW b \in Agents PROVE OpenFits(b)'
    <3>1. OpenFits(b)
      BY <1>1, <2>2
    <3> QED BY <1>1, <1>2, <2>1, <3>1 DEF OpenFits
  <2>3. \A b, c \in Agents : b # c /\ rows'.host[b] # "none" => rows'.host[b] # rows'.host[c]
    BY <1>1, <2>1
  <2>4. \A b \in Agents : rows'.host[b] \in rows'.hosts \cup {"none"}
    BY <1>1, <1>2, <2>1
  <2> QED BY <1>0, <2>2, <2>3, <2>4, StillOpen
<1>3. CASE Upgrade!BindAgentRemoteHost
  <2>1. PICK a \in Agents, h \in rows.hosts :
          /\ rows' = [rows EXCEPT !.host = Upgrade!Bound(rows, a, h)]
          /\ intended' = [intended EXCEPT !.host = Upgrade!Bound(intended, a, h)]
    BY <1>3 DEF Upgrade!BindAgentRemoteHost, Upgrade!Write
  <2>2. /\ rows'.host = Upgrade!Bound(rows, a, h) /\ rows'.hosts = rows.hosts
        /\ intended'.host = Upgrade!Bound(intended, a, h)
        /\ rows'.deployments = rows.deployments
    BY <1>0, <2>1 DEF RowsTyped, RowFields
  <2>3. /\ Upgrade!Deployed(rows') = Upgrade!Deployed(rows)
        /\ \A b : LastHost(b)' = LastHost(b)
    BY <2>2 DEF Upgrade!Deployed, LastHost, Upgrade!Last
  <2> QED BY <1>2, <2>2, <2>3
<1>4. CASE Upgrade!BindManagedAgentRemoteHost
  <2>1. PICK a \in Agents, h \in rows.hosts :
          /\ rows' = [rows EXCEPT !.host = Upgrade!Bound(rows, a, h), !.managed[a] = TRUE,
                                  !.deployments = Append(rows.deployments, <<a, h>>)]
          /\ intended' = [intended EXCEPT
                            !.host = Upgrade!Bound(intended, a, h), !.managed[a] = TRUE,
                            !.deployments = Append(intended.deployments, <<a, h>>)]
    BY <1>4 DEF Upgrade!BindManagedAgentRemoteHost, Upgrade!Write
  <2>2. /\ rows'.host = Upgrade!Bound(rows, a, h) /\ rows'.hosts = rows.hosts
        /\ intended'.host = Upgrade!Bound(intended, a, h)
        /\ rows'.deployments = Append(rows.deployments, <<a, h>>)
    BY <1>0, <2>1 DEF RowsTyped, RowFields
  <2>3. ASSUME NEW b \in Agents \ {a}, b \in Upgrade!Deployed(rows)
        PROVE  b \in Upgrade!Deployed(rows') /\ LastHost(b)' = LastHost(b)
    <3>1. /\ b \in Upgrade!Deployed(rows')
          /\ rows'.deployments[Upgrade!Last(rows', b)] = rows.deployments[Upgrade!Last(rows, b)]
      <4>1. rows.deployments \in Seq(Agents \X Hosts) /\ h \in Hosts
        BY <1>0 DEF RowsTyped
      <4> QED BY <2>2, <2>3, <4>1, LastStays
    <3> QED BY <3>1 DEF LastHost
  <2> QED BY <1>2, <2>2, <2>3
<1>5. CASE Upgrade!EnrollAgent
  <2>1. PICK a \in Agents :
          /\ rows' = [rows EXCEPT !.host[a] = "none", !.managed[a] = FALSE]
          /\ intended' = [intended EXCEPT !.host[a] = "none", !.managed[a] = FALSE]
    BY <1>5 DEF Upgrade!EnrollAgent, Upgrade!Write, Upgrade!None
  <2>2. /\ rows'.host = [rows.host EXCEPT ![a] = "none"] /\ rows'.hosts = rows.hosts
        /\ intended'.host = [intended.host EXCEPT ![a] = "none"]
        /\ rows'.deployments = rows.deployments
    BY <1>0, <2>1 DEF RowsTyped, RowFields
  <2>3. /\ Upgrade!Deployed(rows') = Upgrade!Deployed(rows)
        /\ \A b : LastHost(b)' = LastHost(b)
    BY <2>2 DEF Upgrade!Deployed, LastHost, Upgrade!Last
  <2>4. ASSUME ~cut, NEW b \in Agents PROVE OpenFits(b)'
    <3>1. OpenFits(b)
      BY <1>1, <2>4
    <3> QED BY <1>0, <2>2, <2>3, <3>1 DEF OpenFits
  <2>5. \A b, c \in Agents : b # c /\ rows'.host[b] # "none" => rows'.host[b] # rows'.host[c]
    BY <1>0, <1>1, <2>2
  <2>6. \A b \in Agents : rows'.host[b] \in rows'.hosts \cup {"none"}
    BY <1>0, <1>1, <2>2
  <2> QED BY <1>0, <2>4, <2>5, <2>6, StillOpen
<1>6. CASE Upgrade!DeleteHost
  <2> DEFINE Kept(r, h) == [a \in Agents |-> IF r.host[a] = h THEN "none" ELSE r.host[a]]
  <2>1. PICK h \in rows.hosts :
          /\ rows' = [rows EXCEPT !.hosts = rows.hosts \ {h}, !.host = Kept(rows, h)]
          /\ intended' = [intended EXCEPT !.hosts = intended.hosts \ {h},
                                          !.host = Kept(intended, h)]
    BY <1>6 DEF Upgrade!DeleteHost, Upgrade!Write, Upgrade!None
  <2>2. /\ rows'.host = Kept(rows, h) /\ rows'.hosts = rows.hosts \ {h}
        /\ intended'.host = Kept(intended, h)
        /\ rows'.deployments = rows.deployments
    BY <1>0, <2>1 DEF RowsTyped, RowFields
  <2>3. /\ Upgrade!Deployed(rows') = Upgrade!Deployed(rows)
        /\ \A b : LastHost(b)' = LastHost(b)
    BY <2>2 DEF Upgrade!Deployed, LastHost, Upgrade!Last
  <2>4. ASSUME ~cut, NEW b \in Agents PROVE OpenFits(b)'
    <3>1. OpenFits(b)
      BY <1>1, <2>4
    <3> QED BY <1>0, <2>2, <2>3, <3>1 DEF OpenFits
  <2>5. \A b, c \in Agents : b # c /\ rows'.host[b] # "none" => rows'.host[b] # rows'.host[c]
    BY <1>0, <1>1, <2>2
  <2>6. \A b \in Agents : rows'.host[b] \in rows'.hosts \cup {"none"}
    BY <1>0, <1>1, <2>2
  <2> QED BY <1>0, <2>4, <2>5, <2>6, StillOpen
<1> QED BY <1>3, <1>4, <1>5, <1>6

LEMMA HostsKept == ASSUME UpgradeInv, Upgrade!Next PROVE HostsFit'
BY QuietKeepsHosts, InferKeepsHosts, ClearKeepsHosts, BindKeepsHosts, ServiceKeepsHosts
   DEF Upgrade!Next, Upgrade!Migrate, QuietUpgrade

-----------------------------------------------------------------------------
(* The databases of earlier releases.                                      *)

(* What the rows of an earlier release mean: an Agent that is given a host *)
(* is the first that waits for it.                                         *)
LEMMA MeaningFacts ==
  ASSUME DOMAIN rows = RowFields, rows.managed \in [Agents -> BOOLEAN],
         NEW known \in BOOLEAN, moved \in BOOLEAN,
         intended = Upgrade!Meaning(rows, known, moved)
  PROVE  /\ DOMAIN intended = RowFields
         /\ intended.hosts = rows.hosts /\ intended.deployments = rows.deployments
         /\ intended.anchor = rows.anchor
         /\ intended.engine = Upgrade!Engine(rows) /\ intended.kind = Upgrade!Kind(rows)
         /\ intended.owner = Upgrade!Owner(rows)
         /\ intended.place = Upgrade!Else(rows.place, "here")
         /\ intended.wish = (IF Upgrade!Engine(rows) = "restic" THEN 0 ELSE rows.wish)
         /\ intended.retention =
              (IF Upgrade!Engine(rows) = "restic" /\ ~moved THEN rows.wish ELSE rows.retention)
         /\ intended.status = "success" /\ intended.monitored = TRUE
         /\ intended.certified = Agents /\ intended.verifies = FALSE
         /\ intended.managed \in [Agents -> BOOLEAN]
         /\ known => intended.managed = rows.managed
         /\ ~known => \A a \in Agents : intended.managed[a] = (a \in Upgrade!Deployed(rows))
         /\ intended.host = [a \in Agents |-> intended.host[a]]
         /\ \A a \in Agents : intended.host[a] # Placed(a) => Pending(a)
<1> DEFINE managed == IF known THEN rows.managed
                      ELSE [a \in Agents |-> a \in Upgrade!Deployed(rows)]
           there == [a \in Agents |-> IF rows.host[a] \in rows.hosts THEN rows.host[a] ELSE "none"]
           g == [rows EXCEPT !.managed = managed, !.host = there]
           First(a, h) == \A b \in Agents \ {a} :
             h \in Upgrade!Claims(g, b) => Upgrade!Last(rows, b) < Upgrade!Last(rows, a)
           Gets(a) == \E h \in Upgrade!Claims(g, a) \cap Upgrade!FreeHosts(g) : First(a, h)
           host == [a \in Agents |-> IF Gets(a) THEN CHOOSE h \in Upgrade!Claims(g, a) : TRUE
                                     ELSE g.host[a]]
           engine == Upgrade!Engine(rows)
<1>1. intended = [g EXCEPT
        !.engine = engine, !.kind = Upgrade!Kind(rows), !.owner = Upgrade!Owner(rows),
        !.place = Upgrade!Else(g.place, "here"),
        !.wish = IF engine = "restic" THEN 0 ELSE g.wish,
        !.retention = IF engine = "restic" /\ ~moved THEN rows.wish ELSE g.retention,
        !.status = "success", !.monitored = TRUE, !.verifies = FALSE, !.certified = Agents,
        !.host = host]
  BY DEF Upgrade!Meaning, Upgrade!None
<1> HIDE DEF managed, there
<1>2. /\ DOMAIN g = RowFields /\ g.managed = managed /\ g.host = there
      /\ g.hosts = rows.hosts /\ g.deployments = rows.deployments /\ g.anchor = rows.anchor
      /\ g.place = rows.place /\ g.wish = rows.wish /\ g.retention = rows.retention
  BY DEF RowFields
<1> HIDE DEF g, host, Gets
<1> DEFINE kind == Upgrade!Kind(rows)
           owner == Upgrade!Owner(rows)
           place == Upgrade!Else(rows.place, "here")
           wish == IF engine = "restic" THEN 0 ELSE rows.wish
           retention == IF engine = "restic" /\ ~moved THEN rows.wish ELSE rows.retention
<1>3. /\ DOMAIN intended = RowFields
      /\ intended.hosts = rows.hosts /\ intended.deployments = rows.deployments
      /\ intended.anchor = rows.anchor
      /\ intended.engine = engine /\ intended.kind = kind /\ intended.owner = owner
      /\ intended.place = place /\ intended.wish = wish /\ intended.retention = retention
      /\ intended.status = "success" /\ intended.monitored = TRUE
      /\ intended.certified = Agents /\ intended.verifies = FALSE
      /\ intended.managed = managed
      /\ intended.host = host
  <2>1. intended = [g EXCEPT
          !.engine = engine, !.kind = kind, !.owner = owner, !.place = place, !.wish = wish,
          !.retention = retention, !.status = "success", !.monitored = TRUE,
          !.verifies = FALSE, !.certified = Agents, !.host = host]
    BY <1>1, <1>2
  <2> HIDE DEF engine, kind, owner, place, wish, retention
  <2>2. DOMAIN intended = RowFields
    BY <1>2, <2>1
  <2>3. /\ intended.hosts = g.hosts /\ intended.deployments = g.deployments
        /\ intended.anchor = g.anchor /\ intended.managed = g.managed
    BY <1>2, <2>1 DEF RowFields
  <2>4. /\ intended.engine = engine /\ intended.kind = kind /\ intended.owner = owner
        /\ intended.place = place /\ intended.wish = wish
        /\ intended.retention = retention
    BY <1>2, <2>1 DEF RowFields
  <2>5. /\ intended.status = "success" /\ intended.monitored = TRUE
        /\ intended.certified = Agents /\ intended.verifies = FALSE
        /\ intended.host = host
    BY <1>2, <2>1 DEF RowFields
  <2> QED BY <1>2, <2>2, <2>3, <2>4, <2>5
<1>4. managed \in [Agents -> BOOLEAN]
  <2>1. CASE known
    BY <2>1 DEF managed
  <2>2. CASE ~known
    BY <2>2 DEF managed
  <2> QED BY <2>1, <2>2
<1>5. /\ Upgrade!Deployed(g) = Upgrade!Deployed(rows)
      /\ \A a : Upgrade!Last(g, a) = Upgrade!Last(rows, a)
  BY <1>2 DEF Upgrade!Deployed, Upgrade!Last
<1>6. \A a \in Agents : Upgrade!Claims(g, a) =
        IF managed[a] /\ there[a] = "none" /\ a \in Upgrade!Deployed(rows)
        THEN {LastHost(a)} \cap rows.hosts ELSE {}
  BY <1>2, <1>5 DEF Upgrade!Claims, Upgrade!None, LastHost
<1>7. Upgrade!FreeHosts(g) = rows.hosts \ {there[a] : a \in Agents}
  BY <1>2 DEF Upgrade!FreeHosts
<1>8. \A a \in Agents : there[a] = Placed(a)
  BY DEF there, Placed
<1>9. \A a \in Agents :
        Waits(a) <=> there[a] = "none" /\ managed[a] = TRUE /\ a \in Upgrade!Deployed(rows)
  BY <1>3, <1>8 DEF Waits
<1>10. ASSUME NEW a \in Agents, intended.host[a] # Placed(a) PROVE Pending(a)
  <2>1. Gets(a) /\ host[a] = CHOOSE h \in Upgrade!Claims(g, a) : TRUE
    BY <1>2, <1>3, <1>8, <1>10 DEF host
  <2>2. PICK h \in Upgrade!Claims(g, a) \cap Upgrade!FreeHosts(g) : First(a, h)
    BY <2>1 DEF Gets
  <2>3. Waits(a) /\ h = LastHost(a) /\ h \in rows.hosts /\ Upgrade!Claims(g, a) = {h}
    BY <1>4, <1>6, <1>9, <2>2
  <2>4. intended.host[a] = h
    BY <1>3, <2>1, <2>3
  <2>5. \A b \in Agents : Placed(b) # h
    BY <1>7, <1>8, <2>2
  <2>6. ASSUME NEW b \in Agents \ {a}, Waits(b), LastHost(b) = h
        PROVE  Upgrade!Last(rows, b) < Upgrade!Last(rows, a)
    <3>1. h \in Upgrade!Claims(g, b)
      BY <1>6, <1>9, <2>3, <2>6
    <3> QED BY <2>2, <3>1
  <2> QED BY <2>3, <2>4, <2>5, <2>6 DEF Pending
<1>11. known => managed = rows.managed
  BY DEF managed
<1>12. ~known => \A a \in Agents : managed[a] = (a \in Upgrade!Deployed(rows))
  BY DEF managed
<1>13. host = [a \in Agents |-> host[a]]
  BY DEF host
<1> QED BY <1>3, <1>4, <1>10, <1>11, <1>12, <1>13

(* What both kinds of databases have in common.                            *)
LEMMA OldRows ==
  ASSUME Upgrade!Init
  PROVE  /\ DOMAIN rows = RowFields /\ rows.hosts \subseteq Hosts
         /\ rows.deployments \in Seq(Agents \X Hosts)
         /\ rows.managed \in [Agents -> BOOLEAN]
         /\ rows.host \in [Agents -> Hosts \cup {"none"}]
         /\ moved \in BOOLEAN /\ opening = "closed"
         /\ columns \subseteq Upgrade!Columns /\ tables \subseteq Upgrade!Tables
         /\ \A a, b \in Agents : a # b /\ rows.host[a] # "none" => rows.host[a] # rows.host[b]
         /\ "managed" \notin columns => \A a \in Agents : rows.managed[a] = FALSE
         /\ moved => rows.wish = 0
         /\ "repositories" \in tables => rows.engine # "none" /\ rows.kind # "none"
         /\ "repositories" \notin tables => rows.owner = "none"
         /\ "tasks" \in tables => rows.place # "none"
         /\ rows.kind # "local" => rows.owner = "none"
<1> USE DEF Upgrade!None, RowFields
<1>0. opening = "closed" /\ (Upgrade!OldConfiguration \/ Upgrade!OldAgents)
  BY DEF Upgrade!Init
<1>1. CASE Upgrade!OldConfiguration
  <2>0. PICK t \in SUBSET Upgrade!Tables, c \in SUBSET (Upgrade!Columns \ {"managed", "host", "agents"}),
             m \in BOOLEAN :
          /\ "repositories" \notin t => c \cap {"backend", "owner"} = {}
          /\ "owner" \in c => "backend" \in c
          /\ "tasks" \notin t => "scope" \notin c /\ ~m
          /\ tables = t /\ columns = c \cup {"managed", "host", "agents"} /\ moved = m
          /\ \E e \in {"restic", "rsync"} \cup Upgrade!OldRepository(t),
             k \in {"sftp", "ssh", "local"} \cup Upgrade!OldRepository(t),
             p \in {"here", "agent"} \cup Upgrade!OldTask(t), w \in 0..1, v \in {0, Upgrade!Edited},
             d \in {0, 1}, s \in {"succeeded", "success"} :
             /\ k = "ssh" => e = "rsync"
             /\ m => w = 0
             /\ d = 0 <=> "anchor" \notin c
             /\ \E o \in IF k # "local" \/ "owner" \notin c THEN {Upgrade!None}
                         ELSE IF p = "agent" THEN {"agent"} ELSE {"here"} :
                  rows = [Upgrade!Plain EXCEPT !.engine = e, !.kind = k, !.owner = o,
                       !.place = p,
                            !.wish = w, !.retention = v, !.anchor = d, !.status = s,
                            !.certified = Agents]
    BY <1>1 DEF Upgrade!OldConfiguration
  <2>1. /\ tables = t /\ moved = m /\ columns = c \cup {"managed", "host", "agents"}
        /\ "repositories" \notin t => c \cap {"backend", "owner"} = {}
    BY <2>0
  <2>2. PICK e \in {"restic", "rsync"} \cup Upgrade!OldRepository(t),
             k \in {"sftp", "ssh", "local"} \cup Upgrade!OldRepository(t),
             p \in {"here", "agent"} \cup Upgrade!OldTask(t), w \in 0..1, v \in {0, Upgrade!Edited},
             d \in {0, 1}, s \in {"succeeded", "success"} :
          /\ k = "ssh" => e = "rsync"
          /\ m => w = 0
          /\ d = 0 <=> "anchor" \notin c
          /\ \E o \in IF k # "local" \/ "owner" \notin c THEN {Upgrade!None}
                      ELSE IF p = "agent" THEN {"agent"} ELSE {"here"} :
               rows = [Upgrade!Plain EXCEPT !.engine = e, !.kind = k, !.owner = o, !.place = p,
                         !.wish = w, !.retention = v, !.anchor = d, !.status = s,
                         !.certified = Agents]
    BY <2>0
  <2>3. PICK o \in IF k # "local" \/ "owner" \notin c THEN {Upgrade!None}
                      ELSE IF p = "agent" THEN {"agent"} ELSE {"here"} :
          rows = [Upgrade!Plain EXCEPT !.engine = e, !.kind = k, !.owner = o, !.place = p,
                         !.wish = w, !.retention = v, !.anchor = d, !.status = s,
                         !.certified = Agents]
    BY <2>2
  <2>4. /\ DOMAIN rows = RowFields /\ rows.engine = e /\ rows.kind = k /\ rows.owner = o
        /\ rows.place = p /\ rows.wish = w /\ rows.hosts = {} /\ rows.deployments = << >>
        /\ rows.managed = [a \in Agents |-> FALSE] /\ rows.host = [a \in Agents |-> "none"]
    BY <2>3 DEF Upgrade!Plain, Upgrade!Unassigned, Upgrade!Unbound
  <2>5. /\ "repositories" \in tables => e # "none" /\ k # "none"
        /\ "tasks" \in tables => p # "none"
    BY <2>1, <2>2 DEF Upgrade!OldRepository, Upgrade!OldTask
  <2>6. "repositories" \notin tables \/ k # "local" => o = "none"
    BY <2>1, <2>3
  <2>7. columns \subseteq Upgrade!Columns /\ "managed" \in columns
    BY <2>1 DEF Upgrade!Columns
  <2>8. /\ rows.deployments \in Seq(Agents \X Hosts) /\ rows.hosts \subseteq Hosts
        /\ rows.managed \in [Agents -> BOOLEAN] /\ rows.host \in [Agents -> Hosts \cup {"none"}]
    BY <2>4
  <2> QED BY <1>0, <2>1, <2>2, <2>4, <2>5, <2>6, <2>7, <2>8
<1>2. CASE Upgrade!OldAgents
  <2>1. /\ tables = Upgrade!Tables /\ moved = TRUE
    BY <1>2 DEF Upgrade!OldAgents
  <2>2. PICK c \in SUBSET {"managed", "host", "agents"},
             s \in UNION {[1..n -> Agents \X Hosts] : n \in 0..MaxDeployments},
             m \in [Agents -> BOOLEAN], b \in [Agents -> Hosts \cup {Upgrade!None}],
             hs \in SUBSET Hosts :
          /\ columns = c \cup (Upgrade!Columns \ {"managed", "host", "agents"})
          /\ "managed" \notin c => m = Upgrade!Unassigned
          /\ "host" \notin c => b = Upgrade!Unbound
          /\ \A x, y \in Agents : x # y /\ b[x] # Upgrade!None => b[x] # b[y]
          /\ rows = [Upgrade!Plain EXCEPT !.anchor = Upgrade!Edited,
               !.retention = Upgrade!Edited,
                       !.hosts = hs, !.deployments = s, !.managed = m, !.host = b,
                       !.certified = IF "agents" \in c THEN Agents ELSE {}]
    BY <1>2 DEF Upgrade!OldAgents
  <2>3. /\ DOMAIN rows = RowFields /\ rows.engine = "restic" /\ rows.kind = "sftp"
        /\ rows.owner = "none" /\ rows.place = "here" /\ rows.wish = 0 /\ rows.hosts = hs
        /\ rows.deployments = s /\ rows.managed = m /\ rows.host = b
    BY <2>2 DEF Upgrade!Plain
  <2>4. s \in Seq(Agents \X Hosts)
    <3>1. PICK n \in 0..MaxDeployments : s \in [1..n -> Agents \X Hosts]
      BY <2>2
    <3>2. n \in Nat
      BY DeploymentsAssumption
    <3> QED BY <3>1, <3>2
  <2>5. /\ columns \subseteq Upgrade!Columns /\ ("managed" \notin columns => "managed" \notin c)
        /\ "repositories" \in tables /\ "tasks" \in tables
    BY <2>1, <2>2 DEF Upgrade!Columns, Upgrade!Tables
  <2>6. "managed" \notin columns => \A a \in Agents : rows.managed[a] = FALSE
    BY <2>2, <2>3, <2>5 DEF Upgrade!Unassigned
  <2> QED BY <1>0, <2>1, <2>2, <2>3, <2>4, <2>5, <2>6
<1> QED BY <1>0, <1>1, <1>2

LEMMA UpgradeBegins == Upgrade!Init => UpgradeInv
<1> SUFFICES ASSUME Upgrade!Init PROVE UpgradeInv
  OBVIOUS
<1>1. /\ intended = Upgrade!Meaning(rows, "managed" \in columns, moved)
      /\ opening = "closed" /\ cut = FALSE
  BY DEF Upgrade!Init
<1>2. FormFits
  BY <1>1, OldRows DEF FormFits, FromAgents, FromBind, FromClear, FromHost, FromManaged,
       FromScope, FromVerification,
   FromRetention, FromSetOwner, FromOwner, FromTasks, FromMonitor, FromBackend, FromSSH,
   FromRepositories, FromStatuses, FromRecords, FromOccurrences, FromSetAnchor, Openings
<1>3. DOMAIN rows = RowFields /\ rows.managed \in [Agents -> BOOLEAN] /\ moved \in BOOLEAN
  BY OldRows
<1> DEFINE known == "managed" \in columns
<1>4. known \in BOOLEAN
  OBVIOUS
<1> HIDE DEF known
<1>5. intended = Upgrade!Meaning(rows, known, moved)
  BY <1>1 DEF known
<1>6. /\ DOMAIN intended = RowFields
      /\ intended.hosts = rows.hosts /\ intended.deployments = rows.deployments
      /\ intended.anchor = rows.anchor
      /\ intended.engine = Upgrade!Engine(rows) /\ intended.kind = Upgrade!Kind(rows)
      /\ intended.owner = Upgrade!Owner(rows)
      /\ intended.place = Upgrade!Else(rows.place, "here")
      /\ intended.wish = (IF Upgrade!Engine(rows) = "restic" THEN 0 ELSE rows.wish)
      /\ intended.retention =
           (IF Upgrade!Engine(rows) = "restic" /\ ~moved THEN rows.wish ELSE rows.retention)
      /\ intended.status = "success" /\ intended.monitored = TRUE
      /\ intended.certified = Agents /\ intended.verifies = FALSE
      /\ intended.managed \in [Agents -> BOOLEAN]
      /\ known => intended.managed = rows.managed
      /\ ~known => \A a \in Agents : intended.managed[a] = (a \in Upgrade!Deployed(rows))
      /\ intended.host = [a \in Agents |-> intended.host[a]]
      /\ \A a \in Agents : intended.host[a] # Placed(a) => Pending(a)
  BY <1>3, <1>4, <1>5, MeaningFacts, Zenon
<1>7. intended.host \in [Agents -> Hosts \cup {"none"}]
  <2>1. \A a \in Agents : intended.host[a] = Placed(a) \/ intended.host[a] \in rows.hosts
    BY <1>6 DEF Pending
  <2>2. \A a \in Agents : Placed(a) \in Hosts \cup {"none"}
    BY OldRows DEF Placed
  <2> QED BY <1>6, <2>1, <2>2, OldRows
<1>8. RowsTyped
  BY <1>6, <1>7, OldRows DEF RowsTyped
<1>9. MeaningFits
  BY <1>6 DEF MeaningFits
<1>10. RowsFit
  BY <1>1, <1>6, OldRows DEF RowsFit, FromAgents, FromBind, FromClear, FromHost, FromManaged,
       FromScope, FromVerification,
   FromRetention, FromSetOwner, FromOwner, FromTasks, FromMonitor, FromBackend, FromSSH,
   FromRepositories, FromStatuses, FromRecords, FromOccurrences, FromSetAnchor, Openings
<1>11. ManagedFits
  BY ZenonT(60), <1>1, <1>6, OldRows DEF ManagedFits, known
<1>12. HostsFit
  <2>1. ASSUME NEW a \in Agents PROVE HostFits(a)
    <3>1. opening \notin FromAgents
      BY <1>1 DEF FromAgents
    <3>2. "none" \notin rows.hosts
      BY OldRows, DeploymentsAssumption DEF Upgrade!None
    <3> QED BY <1>6, <3>1, <3>2 DEF HostFits, Pending
  <2> QED BY <1>1, <2>1, OldRows DEF HostsFit, FromAgents, FromBind, FromClear, FromHost,
        FromManaged, FromScope, FromVerification,
   FromRetention, FromSetOwner, FromOwner, FromTasks, FromMonitor, FromBackend, FromSSH,
   FromRepositories, FromStatuses, FromRecords, FromOccurrences, FromSetAnchor, Openings
<1> QED BY <1>2, <1>8, <1>9, <1>10, <1>11, <1>12 DEF UpgradeInv

LEMMA UpgradeStays == ASSUME UpgradeInv, UNCHANGED Upgrade!vars PROVE UpgradeInv'
<1> USE DEF UpgradeInv, Upgrade!vars
<1>1. FormFits' /\ RowsTyped'
  BY DEF FormFits, RowsTyped
<1>2. MeaningFits' /\ RowsFit'
  BY DEF MeaningFits, RowsFit, Upgrade!Engine, Upgrade!Kind, Upgrade!Owner
<1>3. ManagedFits'
  BY DEF ManagedFits, Upgrade!Deployed
<1>4. \A a \in Agents : HostFits(a)' = HostFits(a)
  BY DEF HostFits, Pending, Waits, Placed, LastHost, Upgrade!Last, Upgrade!Deployed
<1>5. HostsFit'
  BY <1>4 DEF HostsFit
<1> QED BY <1>1, <1>2, <1>3, <1>5

(* store.go:643 migrate: whatever the release the database is of, and      *)
(* however often the upgrade is cut off, fails and is made again, an open  *)
(* database has the form of this release and holds what its rows meant,    *)
(* with every change made since.                                           *)
THEOREM UpgradesKeep == Upgrade!Spec => []UpgradeKeeps
<1>1. UpgradeInv /\ [Upgrade!Next]_(Upgrade!vars) => UpgradeInv'
  BY FormKept, RowsTypedKept, MeaningKept, RowsFitKept, ManagedKept, HostsKept, UpgradeStays
     DEF UpgradeInv
<1>2. UpgradeInv => UpgradeKeeps
  <2> SUFFICES ASSUME UpgradeInv, opening = "open"
               PROVE  /\ Upgrade!Complete
                      /\ \A f \in Upgrade!Same : rows[f] = intended[f]
                      /\ ~cut => rows.managed = intended.managed /\ Upgrade!HostsKept
    BY DEF UpgradeKeeps, Upgrade!UpgradeKeeps
  <2> USE DEF UpgradeInv, FromAgents, FromBind, FromClear, FromHost, FromManaged, FromScope,
        FromVerification,
   FromRetention, FromSetOwner, FromOwner, FromTasks, FromMonitor, FromBackend, FromSSH,
   FromRepositories, FromStatuses, FromRecords, FromOccurrences, FromSetAnchor, Openings
  <2>1. Upgrade!Complete
    BY DEF Upgrade!Complete, FormFits, Upgrade!Columns, Upgrade!Tables
  <2>2. "repositories" \in tables /\ "tasks" \in tables /\ moved = TRUE
    BY <2>1 DEF Upgrade!Complete, Upgrade!Tables
  <2>3. \A f \in Upgrade!Same : rows[f] = intended[f]
    BY <2>2 DEF MeaningFits, RowsFit, Upgrade!Same, Upgrade!Engine, Upgrade!Kind, Upgrade!Owner,
       Upgrade!Else, Upgrade!None
  <2>4. "managed" \in columns
    BY <2>1 DEF Upgrade!Complete, Upgrade!Columns
  <2>5. ASSUME ~cut PROVE rows.managed = intended.managed /\ Upgrade!HostsKept
    <3>1. \A a \in Agents : OpenFits(a)
      BY <2>5, WhileOpen
    <3> QED BY <2>4, <2>5, <3>1 DEF ManagedFits, OpenFits, HostsFit, LastHost,
          Upgrade!HostsKept,
            Upgrade!None
  <2> QED BY <2>1, <2>3, <2>5
<1> QED BY UpgradeBegins, <1>1, <1>2, PTL DEF Upgrade!Spec
=============================================================================
