--------------------------- MODULE VaultKeyProofs ---------------------------
(***************************************************************************)
(* Proofs about the key file of the vault, for any handlers, passphrases,  *)
(* number of keys, failures, stops and losses of power.                    *)
(***************************************************************************)
EXTENDS Recovery, TLAPS

Contents == {Vault!None, Vault!Cut} \cup [key : Nat, wrap : Vault!Protections]

(* What a loss of power may leave there holds the same key, or none while  *)
(* no directory has been synced for it.                                    *)
OneKey ==
  /\ file \in durable /\ durable \subseteq Contents
  /\ \A c \in durable : c.key = file.key \/ (c.key = 0 /\ file.key \notin named)
  /\ gate # Vault!Locked => gate = file.key
  /\ sealing \subseteq {file.key} \cup lost /\ 0 \notin sealing

(* A key is generated once, and is kept or lost afterwards, never both.    *)
KeptOrLost ==
  /\ file.key \in 0..made /\ file.key \notin lost
  /\ named \subseteq 1..made /\ lost \subseteq 1..made
  /\ lost \cap named = {}

(* Handlers work in a service that is up, and change an open vault only.   *)
HandlersFit ==
  /\ service = "up" => Vault!Whole
  /\ service = "down" => gate = Vault!Locked
  /\ \A h \in Handlers :
       /\ place[h] # "idle" => service = "up"
       /\ place[h] \in {"writing", "renamed", "changed"} => gate # Vault!Locked

(* What the file, the disk and the handlers hold may be expected.          *)
Expected ==
  /\ (\E c \in durable : c.key = 0) => Vault!Plain \in expected
  /\ \A c \in durable : c.key # 0 => c.wrap \in expected
  /\ \A h \in Handlers : place[h] # "idle" => wrap[h] \in expected
  /\ service = "up" => \E w \in expected : mode = Vault!ModeOf(w)

(* A handler nobody has overlapped with is the last to have changed the    *)
(* file.                                                                   *)
Alone ==
  \A h \in alone :
    /\ \A g \in Handlers : g # h => place[g] = "idle"
    /\ place[h] \in {"renamed", "changed"} => file.wrap = wrap[h]
    /\ place[h] = "changed" => durable = {file}

IInv == Vault!TypeOK /\ OneKey /\ KeptOrLost /\ HandlersFit /\ Expected /\ Alone

-----------------------------------------------------------------------------
(* At first there is no key, and no one is at work.                        *)
LEMMA InitIInv == Vault!Init => IInv
<1> SUFFICES ASSUME Vault!Init PROVE IInv  OBVIOUS
<1> USE DEF Vault!Init, Vault!None, Vault!Cut, Vault!Content, Vault!Protections,
            Vault!Locked, Vault!Whole
<1>1. Vault!TypeOK  BY DEF Vault!TypeOK
<1>2. OneKey /\ KeptOrLost  BY DEF OneKey, Contents, KeptOrLost
<1>3. HandlersFit /\ Expected /\ Alone  BY DEF HandlersFit, Expected, Alone
<1>4. QED  BY <1>1, <1>2, <1>3 DEF IInv

(* The steps of the start: a key is made where there is none.              *)
LEMMA StartStep ==
  ASSUME IInv, Vault!CreateKey \/ Vault!CreationStops \/ Vault!Start
  PROVE  IInv'
<1> USE DEF IInv, Vault!disk, Vault!shown, Vault!Whole, Vault!Content,
            Vault!None, Vault!Cut, Vault!Locked
<1> USE DEF Vault!NewKey
<1>1. CASE Vault!CreateKey
  <2> USE <1>1 DEF Vault!CreateKey, Vault!MustCreate
  <2>1. /\ file' = [key |-> made + 1, wrap |-> Vault!Plain] /\ made' = made + 1 /\ made + 1 # 0
        /\ durable' = {[key |-> 0, wrap |-> "none"], file'}
        /\ file.key = 0 /\ made \in Nat /\ made + 1 \in Nat
        /\ made + 1 \notin named /\ made + 1 \notin lost
    BY DEF Vault!TypeOK, KeptOrLost
  <2>2. Vault!TypeOK'  BY <2>1 DEF Vault!TypeOK, Vault!Protections
  <2>3. OneKey'  BY <2>1 DEF OneKey, Contents, Vault!Protections, HandlersFit
  <2>4. KeptOrLost'  BY <2>1 DEF KeptOrLost
  <2>5. HandlersFit'  BY <2>1 DEF HandlersFit
  <2>6. Expected'  BY <2>1 DEF Expected, HandlersFit, OneKey
  <2>7. Alone'  BY <2>1 DEF Alone, HandlersFit, Vault!TypeOK
  <2>8. QED  BY <2>2, <2>3, <2>4, <2>5, <2>6, <2>7
<1>2. CASE Vault!CreationStops
  <2> USE <1>2 DEF Vault!CreationStops, Vault!MustCreate
  <2>1. /\ \/ file' = [key |-> 0, wrap |-> "cut"]
           \/ file' = [key |-> made + 1, wrap |-> Vault!Plain]
        /\ durable' = {[key |-> 0, wrap |-> "none"], [key |-> 0, wrap |-> "cut"], file'}
        /\ file.key = 0 /\ made' = made + 1 /\ made \in Nat /\ made + 1 \in Nat
        /\ made + 1 \notin named /\ made + 1 \notin lost /\ made + 1 # 0
    BY DEF Vault!TypeOK, KeptOrLost
  <2>2. Vault!TypeOK'  BY <2>1 DEF Vault!TypeOK, Vault!Protections
  <2>3. OneKey'  BY <2>1 DEF OneKey, Contents, Vault!Protections, HandlersFit
  <2>4. KeptOrLost'  BY <2>1 DEF KeptOrLost
  <2>5. HandlersFit'  BY <2>1 DEF HandlersFit
  <2>6. Expected'  BY <2>1 DEF Expected, HandlersFit, OneKey
  <2>7. Alone'  BY <2>1 DEF Alone, HandlersFit, Vault!TypeOK
  <2>8. QED  BY <2>2, <2>3, <2>4, <2>5, <2>6, <2>7
<1>3. CASE Vault!Start
  <2> USE <1>3 DEF Vault!Start
  <2>1. file \in [key : Nat, wrap : Vault!Protections]
    BY DEF Vault!TypeOK
  <2>2. Vault!TypeOK'  BY <2>1 DEF Vault!TypeOK, Vault!ModeOf
  <2>3. OneKey' /\ KeptOrLost'  BY <2>1 DEF OneKey, KeptOrLost
  <2>4. HandlersFit'  BY <2>1 DEF HandlersFit
  <2>5. Expected'  BY <2>1 DEF Expected, OneKey
  <2>6. Alone'  BY <2>1 DEF Alone
  <2>7. QED  BY <2>2, <2>3, <2>4, <2>5, <2>6
<1>4. QED  BY <1>1, <1>2, <1>3

(* A change writes the key of the gate, which is the key of the file.      *)
LEMMA ChangeStep ==
  ASSUME IInv, NEW h \in Handlers, NEW w \in Vault!Protections,
         \/ Vault!BeginChange(h, w) \/ Vault!Rename(h) \/ Vault!SyncDirectory(h)
         \/ Vault!ChangeFails(h) \/ Vault!EndChange(h)
  PROVE  IInv'
<1> USE DEF IInv, Vault!disk, Vault!shown, Vault!Whole, Vault!Go, Vault!Leave, Vault!Protections
<1>1. CASE Vault!BeginChange(h, w)
  <2> USE <1>1 DEF Vault!BeginChange
  <2>1. Vault!TypeOK'  BY DEF Vault!TypeOK, Vault!Join
  <2>2. OneKey' /\ KeptOrLost'  BY DEF OneKey, KeptOrLost
  <2>3. HandlersFit'  BY DEF HandlersFit, Vault!TypeOK
  <2>4. Expected'  BY DEF Expected, Vault!TypeOK
  <2>5. Alone'
    <3>1. \A g \in alone' : g = h /\ \A q \in Handlers : place[q] = "idle"
      BY DEF Vault!Join, Vault!Busy
    <3>2. QED  BY <3>1 DEF Alone, Vault!TypeOK
  <2>6. QED  BY <2>1, <2>2, <2>3, <2>4, <2>5
<1>2. CASE Vault!Rename(h)
  <2> USE <1>2 DEF Vault!Rename, Vault!Content
  <2>1. /\ gate = file.key /\ gate # 0 /\ gate \in Nat /\ wrap[h] \in Vault!Protections
        /\ file' = [key |-> gate, wrap |-> wrap[h]] /\ file'.key = file.key
        /\ file' \in [key : Nat, wrap : Vault!Protections] /\ file'.wrap = wrap[h]
        /\ wrap[h] \in expected
    BY DEF OneKey, HandlersFit, Vault!TypeOK, Vault!Locked, Expected
  <2>2. Vault!TypeOK'  BY <2>1 DEF Vault!TypeOK
  <2>3. OneKey' /\ KeptOrLost'  BY <2>1 DEF OneKey, KeptOrLost, Contents
  <2>4. HandlersFit'  BY <2>1 DEF HandlersFit, Vault!TypeOK
  <2>5. Expected'  BY <2>1 DEF Expected, Vault!TypeOK
  <2>6. Alone'  BY <2>1 DEF Alone, Vault!TypeOK
  <2>7. QED  BY <2>2, <2>3, <2>4, <2>5, <2>6
<1>3. CASE Vault!SyncDirectory(h)
  <2> USE <1>3 DEF Vault!SyncDirectory, Vault!Synced
  <2>1. file.key \in 1..made /\ file.key \notin lost /\ file.key \in Nat
    BY DEF HandlersFit, KeptOrLost, Vault!TypeOK
  <2>2. Vault!TypeOK'  BY <2>1 DEF Vault!TypeOK
  <2>3. OneKey' /\ KeptOrLost'  BY <2>1 DEF OneKey, KeptOrLost
  <2>4. HandlersFit'  BY DEF HandlersFit, Vault!TypeOK
  <2>5. Expected'  BY DEF Expected, OneKey, Vault!TypeOK
  <2>6. Alone'  BY DEF Alone, Vault!TypeOK
  <2>7. QED  BY <2>2, <2>3, <2>4, <2>5, <2>6
<1>4. CASE Vault!ChangeFails(h)
  <2> USE <1>4 DEF Vault!ChangeFails
  <2>1. Vault!TypeOK'  BY DEF Vault!TypeOK
  <2>2. OneKey' /\ KeptOrLost'  BY DEF OneKey, KeptOrLost
  <2>3. HandlersFit'  BY DEF HandlersFit, Vault!TypeOK
  <2>4. Expected'  BY DEF Expected, Vault!TypeOK
  <2>5. Alone'  BY DEF Alone, Vault!TypeOK
  <2>6. QED  BY <2>1, <2>2, <2>3, <2>4, <2>5
<1>5. CASE Vault!EndChange(h)
  <2> USE <1>5 DEF Vault!EndChange, Vault!Show
  <2>1. wrap[h] \in Vault!Protections /\ wrap[h] \in expected /\ service = "up"
    BY DEF Vault!TypeOK, Expected, HandlersFit
  <2>2. Vault!TypeOK'  BY <2>1 DEF Vault!TypeOK, Vault!ModeOf
  <2>3. OneKey' /\ KeptOrLost'  BY DEF OneKey, KeptOrLost
  <2>4. HandlersFit'  BY DEF HandlersFit, Vault!TypeOK
  <2>5. Expected'
    <3>1. CASE h \in alone
      <4>1. durable = {file} /\ file.wrap = wrap[h] /\ expected' = {wrap[h]}
            /\ \A g \in Handlers : place'[g] = "idle"
        BY <3>1 DEF Alone, Vault!TypeOK
      <4>2. QED  BY <2>1, <4>1 DEF Expected, HandlersFit
    <3>2. CASE h \notin alone
      BY <2>1, <3>2 DEF Expected, Vault!TypeOK
    <3>3. QED  BY <3>1, <3>2
  <2>6. Alone'  BY DEF Alone, Vault!TypeOK
  <2>7. QED  BY <2>2, <2>3, <2>4, <2>5, <2>6
<1>6. QED  BY <1>1, <1>2, <1>3, <1>4, <1>5

(* Unlocking reads the file, and leaves it alone.                          *)
LEMMA LoadStep ==
  ASSUME IInv, NEW h \in Handlers, NEW w \in Passphrases,
         Vault!Load(h, w)
  PROVE  IInv'
<1> USE DEF IInv, Vault!disk, Vault!shown, Vault!Whole, Vault!Go, Vault!Leave, Vault!Protections
<1> USE DEF Vault!Load
<1>1. file.wrap \in Vault!Protections /\ file.wrap \in expected
  BY DEF HandlersFit, Vault!TypeOK, Expected, OneKey, Vault!None, Vault!Cut, Vault!Content
<1>2. Vault!TypeOK'  BY <1>1 DEF Vault!TypeOK, Vault!Join
<1>3. OneKey' /\ KeptOrLost'  BY DEF OneKey, KeptOrLost
<1>4. HandlersFit'  BY DEF HandlersFit, Vault!TypeOK
<1>5. Expected'  BY <1>1 DEF Expected, Vault!TypeOK
<1>6. Alone'
  <2>1. \A g \in alone' : g = h /\ \A q \in Handlers : place[q] = "idle"
    BY DEF Vault!Join, Vault!Busy
  <2>2. QED  BY <2>1 DEF Alone, Vault!TypeOK
<1>7. QED  BY <1>2, <1>3, <1>4, <1>5, <1>6

LEMMA ReadStep ==
  ASSUME IInv, NEW h \in Handlers, Vault!OpenGate(h) \/ Vault!EndUnlock(h)
  PROVE  IInv'
<1> USE DEF IInv, Vault!disk, Vault!shown, Vault!Whole, Vault!Go, Vault!Leave, Vault!Protections
<1>1. CASE Vault!OpenGate(h)
  <2> USE <1>1 DEF Vault!OpenGate
  <2>1. file.key \in Nat /\ file.key # 0
    BY DEF HandlersFit, Vault!TypeOK, Vault!None, Vault!Cut, Vault!Content
  <2>2. Vault!TypeOK'  BY <2>1 DEF Vault!TypeOK
  <2>3. OneKey' /\ KeptOrLost'  BY DEF OneKey, KeptOrLost
  <2>4. HandlersFit'  BY <2>1 DEF HandlersFit, Vault!TypeOK, Vault!Locked
  <2>5. Expected'  BY DEF Expected, Vault!TypeOK
  <2>6. Alone'  BY DEF Alone, Vault!TypeOK
  <2>7. QED  BY <2>2, <2>3, <2>4, <2>5, <2>6
<1>2. CASE Vault!EndUnlock(h)
  <2> USE <1>2 DEF Vault!EndUnlock, Vault!Show
  <2>1. wrap[h] \in expected
    BY DEF Expected
  <2>2. Vault!TypeOK'  BY DEF Vault!TypeOK, Vault!ModeOf
  <2>3. OneKey' /\ KeptOrLost'  BY DEF OneKey, KeptOrLost
  <2>4. HandlersFit'  BY DEF HandlersFit, Vault!TypeOK
  <2>5. Expected'  BY <2>1 DEF Expected, Vault!TypeOK
  <2>6. Alone'  BY DEF Alone, Vault!TypeOK
  <2>7. QED  BY <2>2, <2>3, <2>4, <2>5, <2>6
<1>3. QED  BY <1>1, <1>2

LEMMA LimitStep ==
  ASSUME IInv, NEW w, Vault!WrongPassphrase(w) \/ Vault!RetryAfter
  PROVE  IInv'
BY DEF Vault!WrongPassphrase, Vault!RetryAfter, IInv, Vault!TypeOK, OneKey, KeptOrLost,
       HandlersFit, Expected, Alone, Vault!disk, Vault!shown, Vault!Whole

(* A secret is sealed with the key of the file; a loss of power leaves     *)
(* that key, or takes one whose directory was never synced.                *)
LEMMA OtherStep == ASSUME IInv, Vault!Put \/ Vault!Stop \/ Vault!LosePower PROVE IInv'
<1> USE DEF IInv, Vault!disk, Vault!shown, Vault!Whole
<1>1. CASE Vault!Put
  <2> USE <1>1 DEF Vault!Put
  <2>1. gate = file.key /\ file.key # 0
    BY DEF OneKey, Vault!Locked
  <2>2. Vault!TypeOK'  BY DEF Vault!TypeOK
  <2>3. OneKey' /\ KeptOrLost'  BY <2>1 DEF OneKey, KeptOrLost
  <2>4. HandlersFit' /\ Expected' /\ Alone'  BY DEF HandlersFit, Expected, Alone
  <2>5. QED  BY <2>2, <2>3, <2>4
<1>2. CASE Vault!Stop
  <2> USE <1>2 DEF Vault!Stop, Vault!Down, Vault!Locked, Vault!Protections
  <2>1. Vault!TypeOK'  BY DEF Vault!TypeOK
  <2>2. OneKey' /\ KeptOrLost'  BY DEF OneKey, KeptOrLost
  <2>3. HandlersFit' /\ Expected' /\ Alone'  BY DEF HandlersFit, Expected, Alone
  <2>4. QED  BY <2>1, <2>2, <2>3
<1>3. CASE Vault!LosePower
  <2> USE <1>3 DEF Vault!LosePower, Vault!Down, Vault!Locked, Vault!Protections
  <2>1. /\ file' \in durable /\ durable' = {file'} /\ file' \in Contents
        /\ file.key \in 0..made /\ file.key \in Nat /\ made' = made /\ made \in Nat
        /\ \/ file'.key = file.key /\ lost' = lost
           \/ /\ file'.key = 0 /\ file.key # 0 /\ file.key \notin named
              /\ lost' = lost \cup {file.key}
    BY DEF OneKey, KeptOrLost, Vault!TypeOK
  <2>2. lost' \subseteq Nat /\ file' \in Contents  BY <2>1 DEF Vault!TypeOK
  <2>3. Vault!TypeOK'  BY <2>1, <2>2 DEF Vault!TypeOK, Contents
  <2>4. KeptOrLost'
    <3>1. lost' \subseteq 1..made /\ lost' \cap named = {}
      <4>1. CASE lost' = lost
        BY <4>1 DEF KeptOrLost
      <4>2. CASE /\ file.key # 0 /\ file.key \notin named
                 /\ lost' = lost \cup {file.key}
        <5>1. file.key \in 1..made  BY <2>1, <4>2
        <5>2. QED  BY <4>2, <5>1 DEF KeptOrLost
      <4>3. QED  BY <2>1, <4>1, <4>2
    <3>2. file'.key \in 0..made /\ file'.key \notin lost'  BY <2>1 DEF KeptOrLost
    <3>3. named' = named  OBVIOUS
    <3>4. QED  BY <2>1, <3>1, <3>2, <3>3 DEF KeptOrLost
  <2>5. OneKey'
    <3>1. sealing' \subseteq {file'.key} \cup lost' /\ 0 \notin sealing'  BY <2>1 DEF OneKey
    <3>2. QED  BY <2>1, <3>1 DEF OneKey
  <2>6. HandlersFit' /\ Expected' /\ Alone'  BY <2>1 DEF HandlersFit, Expected, Alone
  <2>7. QED  BY <2>3, <2>4, <2>5, <2>6
<1>4. QED  BY <1>1, <1>2, <1>3

LEMMA Invariance == Vault!Spec => []IInv
<1>1. IInv /\ [Vault!Next]_(Vault!vars) => IInv'
  <2> SUFFICES ASSUME IInv, [Vault!Next]_(Vault!vars) PROVE IInv'  OBVIOUS
  <2>1. CASE Vault!Next
    <3>1. CASE Vault!CreateKey \/ Vault!CreationStops \/ Vault!Start
      BY <3>1, StartStep
    <3>2. CASE Vault!Put \/ Vault!Stop \/ Vault!LosePower
      BY <3>2, OtherStep
    <3>3. CASE Vault!RetryAfter \/ \E w \in Passphrases : Vault!WrongPassphrase(w)
      BY <3>3, LimitStep
    <3>4. CASE \E h \in Handlers : \E w \in Vault!Protections : Vault!BeginChange(h, w)
      BY <3>4, ChangeStep
    <3>5. CASE \E h \in Handlers :
                 \/ Vault!Rename(h) \/ Vault!SyncDirectory(h)
                 \/ Vault!ChangeFails(h) \/ Vault!EndChange(h)
      <4>1. Vault!Plain \in Vault!Protections  BY DEF Vault!Protections
      <4>2. QED  BY <3>5, <4>1, ChangeStep
    <3>6. CASE \E h \in Handlers : \E w \in Passphrases : Vault!Load(h, w)
      BY <3>6, LoadStep
    <3>7. CASE \E h \in Handlers : Vault!OpenGate(h) \/ Vault!EndUnlock(h)
      BY <3>7, ReadStep
    <3>8. QED  BY <2>1, <3>1, <3>2, <3>3, <3>4, <3>5, <3>6, <3>7 DEF Vault!Next
  <2>2. CASE UNCHANGED Vault!vars
    BY <2>2 DEF Vault!vars, IInv, Vault!TypeOK, OneKey, KeptOrLost, HandlersFit, Expected,
              Alone, Vault!Whole
  <2>3. QED  BY <2>1, <2>2
<1>2. QED  BY InitIInv, <1>1, PTL DEF Vault!Spec

-----------------------------------------------------------------------------
(* The file, the gate and the handlers keep their types.                   *)
THEOREM TypeCorrect == Vault!Spec => []Vault!TypeOK
<1>1. IInv => Vault!TypeOK
  BY DEF IInv
<1>2. QED  BY Invariance, <1>1, PTL

(* keyfile.go:137, controller.go:42: for any handlers, passphrases, keys,  *)
(* failures and losses of power, a key that seals secrets is the one in    *)
(* the file, unless power was lost before a directory was ever synced for  *)
(* it, and the file is protected in a way the administrator may expect.    *)
THEOREM KeySurvives == Vault!Spec => []VaultHolds
<1>1. IInv => VaultHolds
  BY DEF IInv, VaultHolds, Vault!VaultHolds, OneKey, KeptOrLost, Expected, Vault!Whole
<1>2. QED  BY Invariance, <1>1, PTL
=============================================================================
