--------------------------- MODULE ScheduleProofs ---------------------------
(***************************************************************************)
(* Proofs about ScheduleOccurrence, for any number of dispatchers, plans   *)
(* and tasks, any intervals and any number of edits, failures and restarts.*)
(* The invariants are layered: Types, then Clock (nothing is recorded      *)
(* ahead of time), then what the rows say of the work (Rows), then what    *)
(* the recorder leaves behind (Recording), each from the ones before it.   *)
(***************************************************************************)
EXTENDS Scheduling, FiniteSetTheorems, WellFoundedInduction, TLAPS

-----------------------------------------------------------------------------
(* Arithmetic: division by an interval nothing is known of, and the least  *)
(* and greatest elements StartCursor and Claim choose.                     *)

LEMMA DivisionFacts ==
  ASSUME NEW n \in Nat, NEW d \in Nat \ {0}
  PROVE  /\ n \div d \in Nat
         /\ (n \div d) * d <= n
         /\ n < ((n \div d) + 1) * d
<1>1. n = d * (n \div d) + (n % d) /\ n % d \in 0..(d - 1) /\ n \div d \in Int
  OBVIOUS
<1>2. n \div d \in Nat
  BY <1>1
<1> QED BY <1>1, <1>2

(* A multiple of d is its quotient times d.                                *)
LEMMA MultipleFacts ==
  ASSUME NEW n \in Nat, NEW d \in Nat \ {0}, n % d = 0
  PROVE  n = (n \div d) * d /\ n \div d \in Nat
<1>1. n = d * (n \div d) + (n % d) /\ n \div d \in Int
  OBVIOUS
<1> QED BY <1>1, DivisionFacts

(* Multiplication by a natural number is monotone.                         *)
LEMMA ProductIsMonotone ==
  ASSUME NEW a \in Nat, NEW b \in Nat, NEW d \in Nat, a <= b
  PROVE  a * d <= b * d
<1>1. PICK c \in Nat : b = a + c
  <2>1. b - a \in Nat /\ b = a + (b - a)
    OBVIOUS
  <2> QED BY <2>1
<1>2. b * d = a * d + c * d /\ c * d \in Nat
  BY <1>1
<1> QED BY <1>2

(* For a cursor that has reached the anchor, NextAnchored is the least due *)
(* time after it: no due time is skipped and none is returned twice.       *)
THEOREM NextIsLeastDue ==
  ASSUME NEW interval \in Nat \ {0}, NEW anchor \in Nat, NEW after \in Nat,
         anchor <= after
  PROVE  LET n == NextAnchored(interval, anchor, after)
         IN  /\ n \in Nat /\ after < n
             /\ \A d \in Nat :
                  after < d /\ (d - anchor) % interval = 0 => n <= d
<1> DEFINE m == after - anchor
           q == m \div interval
           n == NextAnchored(interval, anchor, after)
<1>1. m \in Nat /\ after = anchor + m
  OBVIOUS
<1>2. n = anchor + (q + 1) * interval
  BY <1>1 DEF NextAnchored, Quotient
<1>3. q \in Nat /\ q * interval <= m /\ m < (q + 1) * interval
  BY <1>1, DivisionFacts
<1> HIDE DEF m, q, n
<1>4. (q + 1) * interval \in Nat
  BY <1>3
<1>5. n \in Nat /\ after < n
  BY <1>1, <1>2, <1>3, <1>4
<1>6. ASSUME NEW d \in Nat, after < d, (d - anchor) % interval = 0
      PROVE  n <= d
  <2> DEFINE k == (d - anchor) \div interval
  <2>1. d - anchor \in Nat
    BY <1>1, <1>6
  <2>2. d - anchor = k * interval /\ k \in Nat
    BY <2>1, <1>6, MultipleFacts
  <2> HIDE DEF k
  <2>3. m < k * interval
    BY <1>1, <1>6, <2>2
  <2>4. q + 1 <= k
    <3>1. SUFFICES ASSUME k <= q PROVE FALSE
      BY <1>3, <2>2
    <3>2. k * interval <= q * interval
      BY <1>3, <2>2, <3>1, ProductIsMonotone
    <3>3. k * interval \in Nat /\ q * interval \in Nat
      BY <1>3, <2>2
    <3> QED BY <1>1, <1>3, <2>3, <3>2, <3>3
  <2>5. (q + 1) * interval <= k * interval
    BY <1>3, <2>2, <2>4, ProductIsMonotone
  <2> QED BY <1>2, <1>4, <2>1, <2>2, <2>5
<1> QED BY <1>5, <1>6 DEF n

Below == {ss \in Nat \X Nat : ss[1] < ss[2]}

(* A non-empty set of natural numbers has a least element.                 *)
LEMMA LeastElement ==
  ASSUME NEW S \in SUBSET Nat, S # {}
  PROVE  \E m \in S : \A k \in S : m <= k
<1>1. IsWellFoundedOn(Below, Nat)
  BY NatLessThanWellFounded DEF OpToRel, Below
<1>2. PICK m \in S : \A y \in S : ~ (<<y, m>> \in Below)
  <2>1. S \subseteq Nat
    OBVIOUS
  <2> QED BY <1>1, <2>1, WFMin, Zenon
<1>3. ASSUME NEW y \in S PROVE m <= y
  <2>1. y \in Nat /\ m \in Nat
    OBVIOUS
  <2>2. ~ (y < m)
    BY <1>2, <2>1 DEF Below
  <2> QED BY <2>1, <2>2
<1> QED BY <1>3

(* A non-empty bounded set of natural numbers has a greatest element.      *)
LEMMA GreatestElement ==
  ASSUME NEW b \in Nat, NEW S \in SUBSET (0..b), S # {}
  PROVE  \E m \in S : \A k \in S : k <= m
<1> DEFINE T == {n \in Nat : \E k \in S : n = b - k}
<1>1. T \in SUBSET Nat /\ T # {}
  <2>1. PICK k \in S : TRUE
    OBVIOUS
  <2>2. b - k \in Nat
    OBVIOUS
  <2> QED BY <2>2
<1>2. PICK n \in T : \A k \in T : n <= k
  BY <1>1, LeastElement
<1>3. PICK m \in S : n = b - m
  BY <1>2
<1>4. ASSUME NEW k \in S PROVE k <= m
  <2>1. k \in 0..b /\ m \in 0..b
    OBVIOUS
  <2>2. b - k \in T
    BY <2>1
  <2>3. n <= b - k
    BY <1>2, <2>2
  <2> QED BY <1>3, <2>1, <2>3
<1> QED BY <1>4

(* Newest chooses the greatest time.                                       *)
LEMMA NewestFacts ==
  ASSUME NEW S \in SUBSET Times, S # {}
  PROVE  Newest(S) \in S /\ \A u \in S : u <= Newest(S)
<1>1. \E m \in S : \A k \in S : k <= m
  BY GreatestElement, ParametersAssumption DEF Times
<1> QED BY <1>1 DEF Newest

-----------------------------------------------------------------------------
(* The status of an occurrence.                                            *)

(* Counting all tasks in one status is the same as all being in it.        *)
LEMMA AllFacts ==
  ASSUME NEW T, IsFiniteSet(T), NEW statuses \in [T -> TaskStatuses], NEW s \in TaskStatuses
  PROVE  /\ All(statuses, s) <=> \A t \in T : statuses[t] = s
         /\ Count(statuses, s) > 0 <=> \E t \in T : statuses[t] = s
<1> DEFINE S == {t \in T : statuses[t] = s}
<1>1. /\ IsFiniteSet(S) /\ Cardinality(S) \in Nat
      /\ Cardinality(S) = Cardinality(T) => S = T
  <2>1. S \subseteq T
    OBVIOUS
  <2>2. IsFiniteSet(S) /\ (Cardinality(S) = Cardinality(T) => S = T)
    BY <2>1, FS_Subset
  <2> QED BY <2>2, FS_CardinalityType
<1>2. Cardinality(S) = 0 <=> S = {}
  BY <1>1, FS_EmptySet
<1>3. DOMAIN statuses = T /\ Count(statuses, s) = Cardinality(S)
  BY DEF Count
<1> HIDE DEF S
<1>4. All(statuses, s) <=> S = T
  BY <1>1, <1>3 DEF All
<1>5. Count(statuses, s) > 0 <=> S # {}
  BY <1>1, <1>2, <1>3
<1> QED BY <1>4, <1>5 DEF S

(* aggregateScheduleStatuses: for any number of tasks, an occurrence is    *)
(* shown as a success exactly when every task succeeded, and as one that   *)
(* has saved something exactly when a task has.                            *)
THEOREM AggregateIsHonest ==
  ASSUME NEW T, IsFiniteSet(T), T # {}, NEW statuses \in [T -> TaskStatuses]
  PROVE  /\ Aggregate(statuses) = "success" <=> \A t \in T : statuses[t] = "success"
         /\ Aggregate(statuses) \in {"success", "partial"} <=>
              \E t \in T : statuses[t] \in {"success", "partial"}
<1>1. /\ \A s \in TaskStatuses : All(statuses, s) <=> \A t \in T : statuses[t] = s
      /\ Count(statuses, "partial") > 0 <=> \E t \in T : statuses[t] = "partial"
      /\ Count(statuses, "success") > 0 <=> \E t \in T : statuses[t] = "success"
  BY AllFacts DEF TaskStatuses
<1>2. DOMAIN statuses = T
  OBVIOUS
<1>3. CASE \E t \in T : statuses[t] = "partial"
  <2>1. Aggregate(statuses) = "partial"
    BY <1>1, <1>2, <1>3 DEF Aggregate
  <2> QED BY <1>3, <2>1
<1>4. CASE ~ \E t \in T : statuses[t] = "partial"
  <2>1. ~ (Count(statuses, "partial") > 0)
    BY <1>1, <1>4
  <2>2. ASSUME NEW s \in TaskStatuses, \A t \in T : statuses[t] = s
        PROVE  Aggregate(statuses) = s
    <3>1. All(statuses, s) /\ \A u \in TaskStatuses : All(statuses, u) => u = s
      BY <1>1, <2>2
    <3>2. (CHOOSE u \in TaskStatuses : All(statuses, u)) = s
      BY <3>1
    <3> QED BY <1>2, <2>1, <3>1, <3>2 DEF Aggregate
  <2>3. ASSUME ~ \E s \in TaskStatuses : \A t \in T : statuses[t] = s
        PROVE  Aggregate(statuses) = IF \E t \in T : statuses[t] = "success" THEN "partial"
                                     ELSE IF Count(statuses, "failed") > 0 THEN "failed"
                                     ELSE "cancelled"
    <3>1. ~ \E s \in TaskStatuses : All(statuses, s)
      BY <1>1, <2>3
    <3> QED BY <1>1, <1>2, <2>1, <3>1 DEF Aggregate
  <2>4. CASE \E s \in TaskStatuses : \A t \in T : statuses[t] = s
    <3>1. PICK s \in TaskStatuses : \A t \in T : statuses[t] = s
      BY <2>4
    <3>2. Aggregate(statuses) = s
      BY <2>2, <3>1
    <3> QED BY <3>1, <3>2
  <2>5. CASE ~ \E s \in TaskStatuses : \A t \in T : statuses[t] = s
    <3>1. ~ \A t \in T : statuses[t] = "success"
      BY <2>5 DEF TaskStatuses
    <3>2. Aggregate(statuses) # "success"
      BY <2>3, <2>5
    <3>3. Aggregate(statuses) = "partial" <=> \E t \in T : statuses[t] = "success"
      BY <2>3, <2>5
    <3> QED BY <1>4, <3>1, <3>2, <3>3
  <2> QED BY <2>4, <2>5
<1> QED BY <1>3, <1>4

-----------------------------------------------------------------------------
(* The types of what the steps read and write.                             *)

NoRow == [enabled |-> FALSE]

TickTypes ==
  [observed : Times, rows : [Plans -> PlanRows \cup {NoRow}], todo : SUBSET Plans,
   current : Plans \cup {None}, cursor : Times, count : Nat, runnable : SUBSET Times]

RowStatuses == {"none", "pending", "running", "missed", "interrupted", "ended"}

Phases == {"idle", "planning", "recording", "claiming"}

TaskStates == {"none", "waiting", "running", "done"}

Types ==
  /\ now \in Times
  /\ plan \in [Plans -> PlanRows]
  /\ occ \in [Plans -> [Times -> RowStatuses]]
  /\ launches \in [Plans -> [Times -> Nat]]
  /\ task \in [Plans -> [Times -> [Targets -> TaskStates]]]
  /\ phase \in [Dispatchers -> Phases]
  /\ tick \in [Dispatchers -> TickTypes]
  /\ stopping \in BOOLEAN
  /\ restarts \in 0..MaxRestarts /\ faults \in 0..MaxFaults /\ edits \in 0..MaxEdits

(* A tick has read its rows before it uses them, and takes no plan but one *)
(* of the store.                                                           *)
Ticking ==
  \A d \in Dispatchers :
    /\ phase[d] # "idle" => tick[d].rows \in [Plans -> PlanRows]
    /\ phase[d] \in {"recording", "claiming"} => tick[d].current \in Plans

(* Nothing is recorded ahead of time; anchors and cursors lie in the past. *)
TickClock(d) ==
  /\ tick[d].observed <= now
  /\ phase[d] # "idle" => \A p \in Plans : tick[d].rows[p].anchor <= tick[d].observed
  /\ phase[d] \in {"recording", "claiming"} =>
       /\ tick[d].rows[tick[d].current].anchor <= tick[d].cursor
       /\ tick[d].cursor <= now

Clock ==
  /\ \A p \in Plans : plan[p].anchor <= now
  /\ \A p \in Plans, t \in Times : occ[p][t] # "none" => t <= now
  /\ \A d \in Dispatchers : TickClock(d)

(* How often an occurrence was launched is what its row says: a row that   *)
(* is pending never was, and none returns to pending.                      *)
Launched ==
  \A p \in Plans, t \in Times :
    /\ launches[p][t] <= 1
    /\ occ[p][t] \in {"none", "pending"} => launches[p][t] = 0

(* A tick works from the rows as they are, or from rows older than the     *)
(* anchor the edit gave them; and what lies between the anchor and its     *)
(* cursor is recorded.                                                     *)
SameSchedule(d, p) ==
  tick[d].rows[p].anchor = plan[p].anchor /\ tick[d].rows[p].interval = plan[p].interval

TickRecording(d) ==
  LET p == tick[d].current IN
  /\ phase[d] # "idle" =>
       \A q \in Plans : SameSchedule(d, q) \/ tick[d].observed <= plan[q].anchor
  /\ phase[d] \in {"recording", "claiming"} /\ SameSchedule(d, p) =>
       \A t \in Times :
         /\ plan[p].anchor < t /\ t <= tick[d].cursor
         /\ (t - plan[p].anchor) % plan[p].interval = 0
         => occ[p][t] # "none"

Recording == \A d \in Dispatchers : TickRecording(d)

-----------------------------------------------------------------------------
(* Facts about the data, so that the steps need not expand it.             *)

LEMMA Bounds ==
  /\ Horizon \in Nat /\ MaxRestarts \in Nat /\ MaxFaults \in Nat /\ MaxEdits \in Nat
  /\ Times \subseteq Nat /\ 0 \in Times /\ Intervals \subseteq Nat \ {0}
  /\ MaxParallel \in Nat \ {0} /\ None \notin Plans /\ IsFiniteSet(Targets)
BY ParametersAssumption DEF Times

(* Interval and anchor of a row are numbers.                               *)
LEMMA RowFacts ==
  ASSUME NEW r \in PlanRows
  PROVE  r.interval \in Nat \ {0} /\ r.anchor \in Times /\ r.anchor \in Nat
<1>1. r.interval \in Intervals /\ r.anchor \in Times
  BY DEF PlanRows
<1> QED BY <1>1, Bounds

(* Updating one cell of a table keeps its type.                            *)
LEMMA CellUpdate ==
  ASSUME NEW S, NEW T, NEW V, NEW f \in [S -> [T -> V]], NEW p, NEW t, NEW v,
         p \in S /\ t \in T => v \in V
  PROVE  [f EXCEPT ![p][t] = v] \in [S -> [T -> V]]
<1>1. CASE p \in S
  <2>1. f[p] \in [T -> V]
    BY <1>1
  <2>2. [f[p] EXCEPT ![t] = v] \in [T -> V]
    BY <1>1, <2>1
  <2> QED BY <2>2
<1>2. CASE p \notin S
  BY <1>2
<1> QED BY <1>1, <1>2

(* The locals of no tick have the type of a tick's locals.                 *)
LEMMA NoTickType == NoTick \in TickTypes
<1>1. [p \in Plans |-> [enabled |-> FALSE]] \in [Plans -> PlanRows \cup {NoRow}]
  BY DEF NoRow
<1>2. NoTick.rows = [p \in Plans |-> [enabled |-> FALSE]]
  BY DEF NoTick
<1> QED BY <1>1, Bounds DEF NoTick, TickTypes

(* NextAnchored returns a natural number.                                  *)
LEMMA DueIsNatural ==
  ASSUME NEW interval \in Nat \ {0}, NEW anchor \in Nat, NEW after \in Nat
  PROVE  NextAnchored(interval, anchor, after) \in Nat
<1>1. CASE after < anchor
  BY <1>1 DEF NextAnchored
<1>2. CASE ~ (after < anchor)
  BY <1>2, NextIsLeastDue
<1> QED BY <1>1, <1>2

(* The types a tick that is recording or claiming computes with.           *)
LEMMA DueFacts ==
  ASSUME Types, Ticking, NEW d \in Dispatchers, phase[d] \in {"recording", "claiming"}
  PROVE  LET p == tick[d].current IN
         /\ p \in Plans /\ tick[d].rows[p] \in PlanRows
         /\ tick[d].rows[p].interval \in Nat \ {0}
         /\ tick[d].rows[p].anchor \in Nat /\ tick[d].cursor \in Nat
         /\ Due(d, p, tick[d].cursor) \in Nat
<1> DEFINE p == tick[d].current
<1>1. p \in Plans /\ tick[d].rows \in [Plans -> PlanRows]
  BY DEF Ticking
<1>2. tick[d].rows[p] \in PlanRows
  BY <1>1
<1>3. tick[d].rows[p].interval \in Nat \ {0} /\ tick[d].rows[p].anchor \in Nat
  BY <1>2, RowFacts
<1>4. tick[d].cursor \in Nat
  BY Bounds DEF Types, TickTypes
<1> QED BY <1>1, <1>2, <1>3, <1>4, DueIsNatural DEF Due

(* A due time that is not in the future is within the horizon.             *)
LEMMA DueInTimes ==
  ASSUME Types, Ticking, NEW d \in Dispatchers, phase[d] \in {"recording", "claiming"},
         DueNow(d, Due(d, tick[d].current, tick[d].cursor))
  PROVE  Due(d, tick[d].current, tick[d].cursor) \in Times
<1>1. tick[d].observed \in Times
  BY DEF Types, TickTypes
<1> QED BY <1>1, DueFacts, ParametersAssumption DEF DueNow, Times

(* The cursor starts at the anchor or at the newest recorded time since.   *)
LEMMA StartCursorFacts ==
  ASSUME Types, Ticking, NEW d \in Dispatchers, phase[d] # "idle", NEW p \in Plans
  PROVE  LET c == StartCursor(d, p)
             anchor == tick[d].rows[p].anchor
         IN  /\ c \in Times /\ anchor <= c
             /\ c = anchor \/ (occ[p][c] # "none" /\ anchor <= c)
             /\ \A t \in Times : t >= anchor /\ occ[p][t] # "none" => t <= c
<1> DEFINE anchor == tick[d].rows[p].anchor
           recorded == Recorded(p, anchor)
<1>1. tick[d].rows[p] \in PlanRows
  BY DEF Ticking
<1>2. anchor \in Times
  BY <1>1 DEF PlanRows
<1>3. recorded \in SUBSET Times
  BY DEF Recorded
<1>4. CASE recorded = {}
  BY <1>2, <1>4, ParametersAssumption DEF StartCursor, Recorded, Times
<1>5. CASE recorded # {}
  <2>1. Newest(recorded) \in recorded /\ \A u \in recorded : u <= Newest(recorded)
    BY <1>3, <1>5, NewestFacts
  <2>2. StartCursor(d, p) = Newest(recorded)
    BY <1>5 DEF StartCursor
  <2> QED BY <2>1, <2>2 DEF Recorded
<1> QED BY <1>4, <1>5

(* The initial state has its types.                                        *)
LEMMA TypesInit == Init => Types /\ Ticking
<1> SUFFICES ASSUME Init PROVE Types /\ Ticking
  OBVIOUS
<1>1. plan \in [Plans -> PlanRows]
  <2>1. \A i \in Intervals : [enabled |-> TRUE, anchor |-> 0, interval |-> i] \in PlanRows
    BY Bounds DEF PlanRows
  <2> QED BY <2>1 DEF Init
<1>2. tick \in [Dispatchers -> TickTypes]
  BY NoTickType DEF Init
<1>3. /\ occ \in [Plans -> [Times -> RowStatuses]] /\ launches \in [Plans -> [Times -> Nat]]
      /\ task \in [Plans -> [Times -> [Targets -> TaskStates]]]
  BY DEF Init, RowStatuses, TaskStates
<1>4. phase \in [Dispatchers -> Phases] /\ \A d \in Dispatchers : phase[d] = "idle"
  BY DEF Init, Phases
<1>5. Ticking
  BY <1>4 DEF Ticking
<1>6. /\ now \in Times /\ stopping \in BOOLEAN
      /\ restarts \in 0..MaxRestarts /\ faults \in 0..MaxFaults /\ edits \in 0..MaxEdits
  <2>1. 0 \in 0..MaxRestarts /\ 0 \in 0..MaxFaults /\ 0 \in 0..MaxEdits
    BY Bounds
  <2>2. now = 0 /\ stopping = FALSE /\ restarts = 0 /\ faults = 0 /\ edits = 0
    BY DEF Init
  <2> QED BY <2>1, <2>2, Bounds
<1> QED BY <1>1, <1>2, <1>3, <1>4, <1>5, <1>6 DEF Types

(* Every step keeps the types.                                             *)
LEMMA TypesStep ==
  ASSUME Types, Ticking, [Next]_vars
  PROVE  Types' /\ Ticking'
<1> USE Bounds
<1>1. CASE Advance
  BY <1>1 DEF Advance, bounds, Types, Ticking, Times
<1>2. ASSUME NEW p \in Plans, EditPlan(p) PROVE Types' /\ Ticking'
  <2>1. plan' \in [Plans -> PlanRows]
    BY <1>2 DEF EditPlan, Types, PlanRows
  <2> QED BY <1>2, <2>1 DEF EditPlan, Types, Ticking
<1>3. ASSUME NEW d \in Dispatchers, BeginTick(d) PROVE Types' /\ Ticking'
  <2>1. [NoTick EXCEPT !.observed = now, !.rows = plan,
                       !.todo = {p \in Plans : plan[p].enabled}] \in TickTypes
    <3>1. plan \in [Plans -> PlanRows \cup {NoRow}] /\ now \in Times
      BY DEF Types
    <3> QED BY <3>1, NoTickType DEF TickTypes
  <2>2. tick' \in [Dispatchers -> TickTypes]
    BY <1>3, <2>1 DEF BeginTick, Types
  <2>3. tick'[d].rows = plan
    BY <1>3 DEF BeginTick, NoTick, Types
  <2>4. \A e \in Dispatchers \ {d} : tick'[e] = tick[e] /\ phase'[e] = phase[e]
    BY <1>3 DEF BeginTick, Types
  <2>5. phase'[d] = "planning" /\ phase' \in [Dispatchers -> Phases]
    BY <1>3 DEF BeginTick, Types, Phases
  <2>6. Ticking'
    BY <2>3, <2>4, <2>5 DEF Ticking, Types
  <2> QED BY <1>3, <2>2, <2>5, <2>6 DEF BeginTick, bounds, Types
<1>4. ASSUME NEW d \in Dispatchers, NEW p \in Plans, TakePlan(d, p) PROVE Types' /\ Ticking'
  <2>1. StartCursor(d, p) \in Times
    BY <1>4, StartCursorFacts DEF TakePlan
  <2>2. tick' \in [Dispatchers -> TickTypes]
    <3>1. [tick[d] EXCEPT !.todo = @ \ {p}, !.current = p, !.cursor = StartCursor(d, p),
                          !.count = 0, !.runnable = {}] \in TickTypes
      BY ZenonT(60), <2>1 DEF TickTypes, Types
    <3>2. tick' = [tick EXCEPT ![d] = [tick[d] EXCEPT !.todo = @ \ {p}, !.current = p,
                     !.cursor = StartCursor(d, p), !.count = 0, !.runnable = {}]]
      BY <1>4 DEF TakePlan
    <3> QED BY <3>1, <3>2 DEF Types
  <2>3. \A e \in Dispatchers : tick'[e].rows = tick[e].rows
    BY <1>4 DEF TakePlan, Types, TickTypes
  <2>4. /\ phase' \in [Dispatchers -> Phases] /\ phase[d] = "planning"
        /\ \A e \in Dispatchers \ {d} : tick'[e] = tick[e] /\ phase'[e] = phase[e]
        /\ tick'[d].current = p
    BY <1>4 DEF TakePlan, Types, Phases, TickTypes
  <2>5. Ticking'
    BY <2>3, <2>4 DEF Ticking
  <2> QED BY <1>4, <2>2, <2>4, <2>5 DEF TakePlan, bounds, Types
<1>5. ASSUME NEW d \in Dispatchers, RecordDue(d) PROVE Types' /\ Ticking'
  <2>1. Due(d, tick[d].current, tick[d].cursor) \in Times
    BY <1>5, DueInTimes DEF RecordDue
  <2>2. tick' \in [Dispatchers -> TickTypes]
    <3> DEFINE t == Due(d, tick[d].current, tick[d].cursor)
               R == IF Insert(tick[d].current, t) /\ Runnable(d, tick[d].current, t)
                    THEN tick[d].runnable \cup {t} ELSE tick[d].runnable
               next == [tick[d] EXCEPT !.cursor = t, !.count = @ + 1, !.runnable = R]
    <3>1. tick' = [tick EXCEPT ![d] = next]
      BY <1>5 DEF RecordDue
    <3>2. tick[d] \in TickTypes
      BY DEF Types
    <3>3. R \in SUBSET Times
      BY <2>1, <3>2 DEF TickTypes
    <3> HIDE DEF R
    <3>4. t \in Times
      BY <2>1
    <3> HIDE DEF t
    <3>5. next \in TickTypes
      <4>1. tick[d].count \in Nat
        BY <3>2 DEF TickTypes
      <4>2. tick[d].count + 1 \in Nat
        BY <4>1
      <4> QED BY <3>2, <3>3, <3>4, <4>2 DEF TickTypes
    <3> QED BY <3>1, <3>5 DEF Types
  <2>3. \A e \in Dispatchers : tick'[e].rows = tick[e].rows /\ tick'[e].current = tick[e].current
    BY <1>5 DEF RecordDue, Types, TickTypes
  <2>4. occ' \in [Plans -> [Times -> RowStatuses]]
    <3> DEFINE p == tick[d].current
               t == Due(d, p, tick[d].cursor)
               v == IF Runnable(d, p, t) THEN "pending" ELSE "missed"
    <3>1. occ' = [occ EXCEPT ![p][t] = v] \/ occ' = occ
      BY <1>5 DEF RecordDue
    <3>2. v \in RowStatuses
      BY DEF RowStatuses
    <3> HIDE DEF p, t, v
    <3>3. occ \in [Plans -> [Times -> RowStatuses]]
      BY DEF Types
    <3>4. [occ EXCEPT ![p][t] = v] \in [Plans -> [Times -> RowStatuses]]
      BY <3>2, <3>3, CellUpdate, Zenon
    <3> QED BY <3>1, <3>3, <3>4, Zenon
  <2>5. Ticking'
    BY <1>5, <2>3 DEF RecordDue, Ticking
  <2> QED BY <1>5, <2>2, <2>4, <2>5 DEF RecordDue, bounds, Types
<1>6. ASSUME NEW d \in Dispatchers, EndRecording(d) PROVE Types' /\ Ticking'
  BY <1>6 DEF EndRecording, bounds, Types, Ticking, Phases
<1>7. ASSUME NEW d \in Dispatchers, Claim(d) PROVE Types' /\ Ticking'
  <2>1. tick' \in [Dispatchers -> TickTypes]
    BY ZenonT(60), <1>7 DEF Claim, Types, TickTypes
  <2>2. \A e \in Dispatchers : tick'[e].rows = tick[e].rows /\ tick'[e].current = tick[e].current
    BY <1>7 DEF Claim, Types, TickTypes
  <2>3. /\ occ' \in [Plans -> [Times -> RowStatuses]]
        /\ launches' \in [Plans -> [Times -> Nat]]
        /\ task' \in [Plans -> [Times -> [Targets -> TaskStates]]]
    <3> DEFINE p == tick[d].current
               t == Oldest(tick[d].runnable)
               n == launches[p][t] + 1
               v == [k \in Targets |-> "waiting"]
    <3>1. \/ /\ occ' = [occ EXCEPT ![p][t] = "running"]
             /\ launches' = [launches EXCEPT ![p][t] = n]
             /\ task' = [task EXCEPT ![p][t] = v]
          \/ UNCHANGED <<occ, launches, task>>
      BY <1>7 DEF Claim
    <3>2. "running" \in RowStatuses /\ v \in [Targets -> TaskStates]
      BY DEF RowStatuses, TaskStates
    <3>3. p \in Plans /\ t \in Times => n \in Nat
      <4>1. ASSUME NEW q \in Plans, NEW u \in Times PROVE launches[q][u] + 1 \in Nat
        BY DEF Types
      <4> QED BY <4>1, Zenon
    <3> HIDE DEF p, t, n, v
    <3>4. /\ occ \in [Plans -> [Times -> RowStatuses]] /\ launches \in [Plans -> [Times -> Nat]]
          /\ task \in [Plans -> [Times -> [Targets -> TaskStates]]]
      BY DEF Types
    <3>5. [occ EXCEPT ![p][t] = "running"] \in [Plans -> [Times -> RowStatuses]]
      BY <3>2, <3>4, CellUpdate, Zenon
    <3>6. [launches EXCEPT ![p][t] = n] \in [Plans -> [Times -> Nat]]
      BY <3>3, <3>4, CellUpdate, Zenon
    <3>7. [task EXCEPT ![p][t] = v] \in [Plans -> [Times -> [Targets -> TaskStates]]]
      BY <3>2, <3>4, CellUpdate, Zenon
    <3> QED BY <3>1, <3>4, <3>5, <3>6, <3>7, Zenon
  <2>4. Ticking'
    BY <1>7, <2>2 DEF Claim, Ticking
  <2> QED BY <1>7, <2>1, <2>3, <2>4 DEF Claim, bounds, Types
<1>8. ASSUME NEW d \in Dispatchers, EndClaims(d) PROVE Types' /\ Ticking'
  BY <1>8 DEF EndClaims, bounds, Types, Ticking, Phases
<1>9. ASSUME NEW d \in Dispatchers, EndTick(d) PROVE Types' /\ Ticking'
  <2>1. NoTick \in TickTypes
    BY NoTickType
  <2>2. restarts' \in 0..MaxRestarts /\ faults' \in 0..MaxFaults /\ edits' \in 0..MaxEdits
    BY <1>9 DEF EndTick, StatementFails, bounds, Types
  <2> QED BY <1>9, <2>1, <2>2 DEF EndTick, Types, Ticking, Phases
<1>10. ASSUME NEW p \in Plans, NEW t \in Times, Finish(p, t) PROVE Types' /\ Ticking'
  <2>1. /\ occ' \in [Plans -> [Times -> RowStatuses]]
        /\ task' \in [Plans -> [Times -> [Targets -> TaskStates]]]
    <3> DEFINE v == IF occ[p][t] = "running" THEN "ended" ELSE occ[p][t]
               w == [k \in Targets |-> "none"]
    <3>1. /\ occ' = [occ EXCEPT ![p][t] = v] \/ occ' = occ
          /\ task' = [task EXCEPT ![p][t] = w]
      BY <1>10 DEF Finish, Clear
    <3>2. v \in RowStatuses /\ w \in [Targets -> TaskStates]
      BY DEF RowStatuses, TaskStates, Types
    <3> HIDE DEF v, w
    <3>3. /\ occ \in [Plans -> [Times -> RowStatuses]]
          /\ task \in [Plans -> [Times -> [Targets -> TaskStates]]]
      BY DEF Types
    <3>4. [occ EXCEPT ![p][t] = v] \in [Plans -> [Times -> RowStatuses]]
      BY <3>2, <3>3, CellUpdate, Zenon
    <3>5. [task EXCEPT ![p][t] = w] \in [Plans -> [Times -> [Targets -> TaskStates]]]
      BY <3>2, <3>3, CellUpdate, Zenon
    <3> QED BY <3>1, <3>3, <3>4, <3>5, Zenon
  <2>2. restarts' \in 0..MaxRestarts /\ faults' \in 0..MaxFaults /\ edits' \in 0..MaxEdits
    BY <1>10 DEF Finish, bounds, Types
  <2> QED BY <1>10, <2>1, <2>2 DEF Finish, Types, Ticking
<1>11. ASSUME NEW p \in Plans, NEW t \in Times, NEW k \in Targets,
              StartTask(p, t, k) \/ EndTask(p, t, k)
       PROVE  Types' /\ Ticking'
  <2>1. PICK v \in TaskStates : task' = [task EXCEPT ![p][t][k] = v]
    BY <1>11 DEF StartTask, EndTask, TaskStates
  <2>2. task' \in [Plans -> [Times -> [Targets -> TaskStates]]]
    <3>1. task \in [Plans -> [Times -> [Targets -> TaskStates]]]
      BY DEF Types
    <3>2. [task[p][t] EXCEPT ![k] = v] \in [Targets -> TaskStates]
      BY <3>1
    <3>3. task' = [task EXCEPT ![p][t] = [task[p][t] EXCEPT ![k] = v]]
      BY <2>1
    <3> QED BY <3>1, <3>2, <3>3, CellUpdate, Zenon
  <2> QED BY <1>11, <2>2 DEF StartTask, EndTask, bounds, Types, Ticking
<1>12. CASE Shutdown
  BY <1>12 DEF Shutdown, bounds, Types, Ticking
<1>13. CASE Restart
  <2>1. tick' \in [Dispatchers -> TickTypes]
    BY <1>13, NoTickType DEF Restart
  <2>2. /\ occ' \in [Plans -> [Times -> RowStatuses]]
        /\ task' \in [Plans -> [Times -> [Targets -> TaskStates]]]
    BY <1>13 DEF Restart, Recovered, Types, RowStatuses, TaskStates
  <2>3. phase' \in [Dispatchers -> Phases] /\ \A d \in Dispatchers : phase'[d] = "idle"
    BY <1>13 DEF Restart, Phases
  <2>4. Ticking'
    BY <2>3 DEF Ticking
  <2>5. restarts' \in 0..MaxRestarts
    BY <1>13 DEF Restart, Types
  <2> QED BY <1>13, <2>1, <2>2, <2>3, <2>4, <2>5 DEF Restart, Types
<1>14. CASE UNCHANGED vars
  BY <1>14 DEF vars, bounds, Types, Ticking
<1> QED BY <1>1, <1>2, <1>3, <1>4, <1>5, <1>6, <1>7, <1>8, <1>9, <1>10, <1>11, <1>12,
           <1>13, <1>14 DEF Next

-----------------------------------------------------------------------------
(* Rows appear in RecordDue only, and no step takes one away.              *)
LEMMA RecordedSteps ==
  ASSUME Types, [Next]_vars, NEW p \in Plans, NEW t \in Times
  PROVE  /\ occ[p][t] # "none" => occ'[p][t] # "none"
         /\ occ[p][t] = "none" /\ occ'[p][t] # "none" =>
              \E d \in Dispatchers :
                 RecordDue(d) /\ p = tick[d].current /\ t = Due(d, p, tick[d].cursor)
<1> DEFINE Goal == /\ occ[p][t] # "none" => occ'[p][t] # "none"
                   /\ occ[p][t] = "none" /\ occ'[p][t] # "none" =>
                        \E d \in Dispatchers :
                          RecordDue(d) /\ p = tick[d].current /\ t = Due(d, p, tick[d].cursor)
<1>0. occ \in [Plans -> [Times -> RowStatuses]]
  BY DEF Types
<1>1. ASSUME UNCHANGED occ PROVE Goal
  BY <1>1
<1>2. ASSUME NEW d \in Dispatchers, RecordDue(d) PROVE Goal
  <2> DEFINE q == tick[d].current
             u == Due(d, q, tick[d].cursor)
             v == IF Runnable(d, q, u) THEN "pending" ELSE "missed"
  <2>1. (occ' = [occ EXCEPT ![q][u] = v] /\ Insert(q, u)) \/ occ' = occ
    BY <1>2 DEF RecordDue
  <2>2. v # "none"
    OBVIOUS
  <2> HIDE DEF v, u, q
  <2>3. CASE p = q /\ t = u
    BY <1>0, <1>2, <2>1, <2>2, <2>3 DEF u, q
  <2>4. CASE ~(p = q /\ t = u)
    <3>1. occ'[p][t] = occ[p][t]
      BY <1>0, <2>1, <2>4
    <3> QED BY <3>1
  <2> QED BY <2>3, <2>4
<1>3. ASSUME NEW d \in Dispatchers, Claim(d) PROVE Goal
  <2> DEFINE q == tick[d].current
             u == Oldest(tick[d].runnable)
  <2>1. (occ[q][u] = "pending" /\ occ' = [occ EXCEPT ![q][u] = "running"]) \/ occ' = occ
    BY <1>3 DEF Claim
  <2> HIDE DEF q, u
  <2>2. occ'[p][t] = occ[p][t] \/ (occ[p][t] # "none" /\ occ'[p][t] # "none")
    BY <1>0, <2>1
  <2> QED BY <2>2
<1>4. ASSUME NEW q \in Plans, NEW u \in Times, Finish(q, u) PROVE Goal
  BY <1>0, <1>4 DEF Finish
<1>5. ASSUME Restart PROVE Goal
  BY <1>0, <1>5 DEF Restart, Recovered
<1> HIDE DEF Goal
<1>6. \/ UNCHANGED occ
      \/ \E d \in Dispatchers : RecordDue(d) \/ Claim(d)
      \/ \E q \in Plans, u \in Times : Finish(q, u)
      \/ Restart
  BY ZenonT(60) DEF Next, vars, Advance, EditPlan, BeginTick, TakePlan,
     EndRecording, EndClaims, EndTick, StartTask, EndTask, Shutdown
<1>7. Goal
  BY <1>1, <1>2, <1>3, <1>4, <1>5, <1>6
<1> QED BY <1>7 DEF Goal

(* The tick of a dispatcher is left alone by every step but its own and    *)
(* Restart.                                                                *)
LEMMA TickSteps ==
  ASSUME Types, [Next]_vars, NEW d \in Dispatchers
  PROVE  \/ tick'[d] = tick[d] /\ phase'[d] = phase[d]
         \/ BeginTick(d) \/ RecordDue(d) \/ EndRecording(d) \/ Claim(d) \/ EndClaims(d)
         \/ EndTick(d) \/ Restart
         \/ \E p \in Plans : TakePlan(d, p)
<1>1. tick \in [Dispatchers -> TickTypes] /\ phase \in [Dispatchers -> Phases]
  BY DEF Types
<1>2. ASSUME NEW e \in Dispatchers,
             \/ BeginTick(e) \/ RecordDue(e) \/ EndRecording(e) \/ Claim(e)
             \/ EndClaims(e) \/ EndTick(e) \/ \E p \in Plans : TakePlan(e, p)
      PROVE  e = d \/ (tick'[d] = tick[d] /\ phase'[d] = phase[d])
  BY <1>1, <1>2 DEF BeginTick, RecordDue, EndRecording, Claim, EndClaims, EndTick, TakePlan
<1>3. \/ tick' = tick /\ phase' = phase
      \/ \E e \in Dispatchers :
           \/ BeginTick(e) \/ RecordDue(e) \/ EndRecording(e) \/ Claim(e)
           \/ EndClaims(e) \/ EndTick(e) \/ \E p \in Plans : TakePlan(e, p)
      \/ Restart
  BY DEF Next, vars, Advance, EditPlan, StartTask, EndTask, Finish, Shutdown
<1> QED BY <1>2, <1>3, Zenon

(* Time does not go back.                                                  *)
LEMMA TimeSteps ==
  ASSUME Types, [Next]_vars
  PROVE  now' \in Nat /\ now \in Nat /\ now <= now'
<1>1. now' = now \/ Advance
  <2>1. CASE UNCHANGED vars
    BY <2>1 DEF vars
  <2>2. ASSUME NEW d \in Dispatchers,
               \/ BeginTick(d) \/ RecordDue(d) \/ EndRecording(d) \/ Claim(d)
               \/ EndClaims(d) \/ EndTick(d) \/ \E p \in Plans : TakePlan(d, p)
        PROVE  now' = now
    BY <2>2 DEF BeginTick, RecordDue, EndRecording, Claim, EndClaims, EndTick, TakePlan
  <2>3. ASSUME NEW p \in Plans, NEW t \in Times,
               Finish(p, t) \/ \E k \in Targets : StartTask(p, t, k) \/ EndTask(p, t, k)
        PROVE  now' = now
    BY <2>3 DEF Finish, StartTask, EndTask
  <2>4. CASE (\E p \in Plans : EditPlan(p)) \/ Shutdown \/ Restart
    BY <2>4 DEF EditPlan, Shutdown, Restart
  <2> QED BY <2>1, <2>2, <2>3, <2>4 DEF Next
<1>2. now \in Nat
  BY Bounds DEF Types
<1> QED BY <1>1, <1>2 DEF Advance

(* The anchor of a plan moves to the present, or the schedule stays.       *)
LEMMA PlanSteps ==
  ASSUME Types, [Next]_vars, NEW p \in Plans
  PROVE  \/ plan'[p].anchor = plan[p].anchor /\ plan'[p].interval = plan[p].interval
         \/ plan'[p].anchor = now
<1>1. CASE UNCHANGED plan
  BY <1>1
<1>2. ASSUME NEW q \in Plans, EditPlan(q)
      PROVE  \/ plan'[p].anchor = plan[p].anchor /\ plan'[p].interval = plan[p].interval
             \/ plan'[p].anchor = now
  BY <1>2 DEF EditPlan, Types
<1>3. UNCHANGED plan \/ \E q \in Plans : EditPlan(q)
  <2>1. CASE UNCHANGED vars
    BY <2>1 DEF vars
  <2>2. ASSUME NEW d \in Dispatchers,
               \/ BeginTick(d) \/ RecordDue(d) \/ EndRecording(d) \/ Claim(d)
               \/ EndClaims(d) \/ EndTick(d) \/ \E q \in Plans : TakePlan(d, q)
        PROVE  UNCHANGED plan
    BY <2>2 DEF BeginTick, RecordDue, EndRecording, Claim, EndClaims, EndTick, TakePlan
  <2>3. ASSUME NEW q \in Plans, NEW t \in Times,
               Finish(q, t) \/ \E k \in Targets : StartTask(q, t, k) \/ EndTask(q, t, k)
        PROVE  UNCHANGED plan
    BY <2>3 DEF Finish, StartTask, EndTask
  <2>4. CASE Advance \/ Shutdown \/ Restart
    BY <2>4 DEF Advance, Shutdown, Restart
  <2> QED BY <2>1, <2>2, <2>3, <2>4 DEF Next
<1> QED BY <1>1, <1>2, <1>3

-----------------------------------------------------------------------------

(* Clock holds at first.                                                   *)
LEMMA ClockInit == Init => Clock
<1> SUFFICES ASSUME Init PROVE Clock
  OBVIOUS
<1>1. \A p \in Plans : plan[p].anchor = 0
  BY DEF Init
<1>2. \A d \in Dispatchers : TickClock(d)
  BY DEF Init, TickClock, NoTick
<1>3. \A p \in Plans, t \in Times : occ[p][t] = "none"
  BY DEF Init
<1>4. now = 0
  BY DEF Init
<1> QED BY <1>1, <1>2, <1>3, <1>4 DEF Clock

(* What RecordDue records is due, and not before its cursor.               *)
LEMMA RecordedDue ==
  ASSUME Types, Ticking, Clock, NEW d \in Dispatchers, RecordDue(d)
  PROVE  LET t == Due(d, tick[d].current, tick[d].cursor) IN
         t \in Times /\ t <= tick[d].observed /\ tick[d].cursor < t
<1> DEFINE p == tick[d].current
           t == Due(d, p, tick[d].cursor)
<1>1. t \in Times /\ t <= tick[d].observed
  BY DueInTimes DEF RecordDue, DueNow
<1>2. /\ tick[d].rows[p].interval \in Nat \ {0} /\ tick[d].rows[p].anchor \in Nat
      /\ tick[d].cursor \in Nat
  BY DueFacts DEF RecordDue
<1>3. tick[d].rows[p].anchor <= tick[d].cursor
  BY DEF Clock, TickClock, RecordDue
<1>4. tick[d].cursor < t
  BY <1>2, <1>3, NextIsLeastDue DEF Due
<1> QED BY <1>1, <1>4

(* Every step keeps Clock.                                                 *)
LEMMA ClockStep ==
  ASSUME Types, Types', Ticking, Clock, [Next]_vars
  PROVE  Clock'
<1>1. now \in Nat /\ now' \in Nat /\ now <= now'
  BY TimeSteps
<1>2. ASSUME NEW p \in Plans PROVE plan'[p].anchor <= now'
  <2>1. plan[p].anchor \in Nat /\ plan[p].anchor <= now
    BY RowFacts DEF Types, Clock
  <2> QED BY <1>1, <2>1, PlanSteps
<1>3. ASSUME NEW p \in Plans, NEW t \in Times, occ'[p][t] # "none" PROVE t <= now'
  <2>1. t \in Nat
    BY Bounds
  <2>2. CASE occ[p][t] # "none"
    BY <1>1, <2>1, <2>2 DEF Clock
  <2>3. CASE occ[p][t] = "none"
    <3>1. PICK d \in Dispatchers :
            RecordDue(d) /\ p = tick[d].current /\ t = Due(d, p, tick[d].cursor)
      BY <1>3, <2>3, RecordedSteps
    <3>2. t <= tick[d].observed
      BY <3>1, RecordedDue
    <3>3. tick[d].observed <= now /\ tick[d].observed \in Nat
      BY Bounds DEF Clock, TickClock, Types, TickTypes
    <3> QED BY <1>1, <2>1, <3>2, <3>3
  <2> QED BY <2>2, <2>3
<1>4. ASSUME NEW d \in Dispatchers PROVE TickClock(d)'
  <2> DEFINE row(p) == tick[d].rows[p]
  <2>1. TickClock(d) /\ tick[d] \in TickTypes
    BY DEF Clock, Types
  <2>2. tick[d].observed \in Nat /\ tick[d].cursor \in Nat
    BY <2>1, Bounds DEF TickTypes
  <2>3. phase[d] # "idle" => \A p \in Plans : tick[d].rows[p].anchor \in Nat
    BY RowFacts DEF Ticking
  <2>4. tick \in [Dispatchers -> TickTypes] /\ phase \in [Dispatchers -> Phases]
    BY DEF Types
  <2>5. CASE tick'[d] = tick[d] /\ phase'[d] = phase[d]
    BY <1>1, <2>1, <2>2, <2>5 DEF TickClock
  <2>6. CASE BeginTick(d)
    <3>1. tick'[d].observed = now /\ tick'[d].rows = plan /\ phase'[d] = "planning"
      BY <2>4, <2>6 DEF BeginTick, NoTick
    <3> QED BY <1>1, <3>1 DEF TickClock, Clock
  <2>7. ASSUME NEW p \in Plans, TakePlan(d, p) PROVE TickClock(d)'
    <3>1. /\ tick'[d].observed = tick[d].observed /\ tick'[d].rows = tick[d].rows
          /\ tick'[d].current = p /\ tick'[d].cursor = StartCursor(d, p)
          /\ phase[d] = "planning" /\ phase'[d] = "recording"
      BY <2>1, <2>4, <2>7 DEF TakePlan, TickTypes
    <3>2. /\ StartCursor(d, p) \in Nat /\ tick[d].rows[p].anchor <= StartCursor(d, p)
          /\ StartCursor(d, p) \in Times
          /\ \/ StartCursor(d, p) = tick[d].rows[p].anchor
             \/ occ[p][StartCursor(d, p)] # "none"
      BY <3>1, StartCursorFacts, Bounds
    <3>3. StartCursor(d, p) <= now
      BY <1>1, <2>1, <2>2, <2>3, <3>1, <3>2 DEF Clock, TickClock
    <3> QED BY <1>1, <2>1, <2>2, <3>1, <3>2, <3>3 DEF TickClock
  <2>8. CASE RecordDue(d)
    <3> DEFINE t == Due(d, tick[d].current, tick[d].cursor)
    <3>1. /\ tick'[d].observed = tick[d].observed /\ tick'[d].rows = tick[d].rows
          /\ tick'[d].current = tick[d].current /\ tick'[d].cursor = t
          /\ phase'[d] = phase[d] /\ phase[d] = "recording"
      BY <2>1, <2>4, <2>8 DEF RecordDue, TickTypes
    <3>2. t \in Nat /\ t <= tick[d].observed /\ tick[d].cursor < t
      BY <2>8, RecordedDue, Bounds
    <3>3. tick[d].current \in Plans
      BY <3>1 DEF Ticking
    <3> HIDE DEF t
    <3> QED BY <1>1, <2>1, <2>2, <2>3, <3>1, <3>2, <3>3 DEF TickClock
  <2>9. CASE Claim(d)
    <3>1. /\ tick'[d].observed = tick[d].observed /\ tick'[d].rows = tick[d].rows
          /\ tick'[d].current = tick[d].current /\ tick'[d].cursor = tick[d].cursor
          /\ phase'[d] = phase[d]
      BY <2>1, <2>4, <2>9 DEF Claim, TickTypes
    <3> QED BY <1>1, <2>1, <2>2, <3>1 DEF TickClock
  <2>10. CASE EndRecording(d) \/ EndClaims(d)
    BY <1>1, <2>1, <2>2, <2>4, <2>10 DEF EndRecording, EndClaims, TickClock
  <2>11. CASE EndTick(d) \/ Restart
    <3>1. tick'[d] = NoTick /\ phase'[d] = "idle"
      BY <2>4, <2>11 DEF EndTick, Restart
    <3> QED BY <1>1, <3>1 DEF TickClock, NoTick
  <2> QED BY <2>5, <2>6, <2>7, <2>8, <2>9, <2>10, <2>11, TickSteps
<1> QED BY <1>2, <1>3, <1>4 DEF Clock

-----------------------------------------------------------------------------

(* Every step keeps NoGaps: a new row is the next due time after a cursor  *)
(* below which none is missing.                                            *)
LEMMA NoGapsStep ==
  ASSUME Types, Ticking, Clock, NoGaps, Recording, [Next]_vars
  PROVE  NoGaps'
<1> SUFFICES ASSUME NEW p \in Plans, NEW t \in Times, NEW d \in Times,
                    t >= plan'[p].anchor, occ'[p][t] # "none",
                    plan'[p].anchor < d, d < t,
                    (d - plan'[p].anchor) % plan'[p].interval = 0
             PROVE  d >= plan'[p].anchor /\ occ'[p][d] # "none"
  BY DEF NoGaps, Recorded
<1>0. t \in Nat /\ d \in Nat /\ now \in Nat
  BY Bounds DEF Types
<1>1. plan[p].anchor \in Nat /\ plan[p].interval \in Nat \ {0}
  BY RowFacts DEF Types
<1>2. t <= now
  <2>1. CASE occ[p][t] # "none"
    BY <2>1 DEF Clock
  <2>2. CASE occ[p][t] = "none"
    <3>1. PICK e \in Dispatchers :
            RecordDue(e) /\ p = tick[e].current /\ t = Due(e, p, tick[e].cursor)
      BY <2>2, RecordedSteps
    <3>2. t <= tick[e].observed
      BY <3>1, RecordedDue
    <3>3. tick[e].observed <= now /\ tick[e].observed \in Nat
      BY Bounds DEF Clock, TickClock, Types, TickTypes
    <3> QED BY <1>0, <3>2, <3>3
  <2> QED BY <2>1, <2>2
<1>3. plan'[p].anchor = plan[p].anchor /\ plan'[p].interval = plan[p].interval
  BY <1>0, <1>2, PlanSteps
<1>4. occ[p][d] # "none" => occ'[p][d] # "none"
  BY RecordedSteps
<1>5. CASE occ[p][t] # "none"
  BY <1>0, <1>1, <1>3, <1>4, <1>5 DEF NoGaps, Recorded
<1>6. CASE occ[p][t] = "none"
  <2>1. PICK e \in Dispatchers :
          RecordDue(e) /\ p = tick[e].current /\ t = Due(e, p, tick[e].cursor)
    BY <1>6, RecordedSteps
  <2>2. t <= tick[e].observed /\ tick[e].observed \in Nat /\ tick[e].cursor \in Nat
    BY <2>1, RecordedDue, Bounds DEF Types, TickTypes
  <2>3. phase[e] = "recording"
    BY <2>1 DEF RecordDue
  <2>4. TickRecording(e)
    BY DEF Recording
  <2>5. SameSchedule(e, p)
    BY <1>0, <1>1, <1>3, <2>2, <2>3, <2>4 DEF TickRecording
  <2>6. CASE d <= tick[e].cursor
    <3>1. occ[p][d] # "none"
      BY <1>3, <2>1, <2>3, <2>4, <2>5, <2>6 DEF TickRecording
    <3> QED BY <1>0, <1>1, <1>3, <1>4, <3>1
  <2>7. CASE tick[e].cursor < d
    <3>1. tick[e].rows[p].anchor <= tick[e].cursor
      BY <2>1, <2>3 DEF Clock, TickClock
    <3>2. plan[p].anchor <= tick[e].cursor
          /\ t = NextAnchored(plan[p].interval, plan[p].anchor, tick[e].cursor)
      BY <2>1, <2>5, <3>1 DEF SameSchedule, Due
    <3>3. t <= d
      BY <1>0, <1>1, <1>3, <2>2, <2>7, <3>2, NextIsLeastDue
    <3> QED BY <1>0, <3>3
  <2> QED BY <1>0, <2>2, <2>6, <2>7
<1> QED BY <1>0, <1>1, <1>3, <1>5, <1>6

(* Every step keeps Recording, for a tick whose plan was edited since it   *)
(* was read as well.                                                       *)
LEMMA RecordingStep ==
  ASSUME Types, Ticking, Clock, NoGaps, Recording, [Next]_vars
  PROVE  Recording'
<1> SUFFICES ASSUME NEW d \in Dispatchers PROVE TickRecording(d)'
  BY DEF Recording
<1>0. /\ tick \in [Dispatchers -> TickTypes] /\ phase \in [Dispatchers -> Phases]
      /\ tick[d] \in TickTypes
  BY DEF Types
<1>1. now \in Nat /\ tick[d].observed \in Nat /\ tick[d].cursor \in Nat
      /\ tick[d].observed <= now
  BY <1>0, Bounds DEF Types, TickTypes, Clock, TickClock
<1>2. TickRecording(d) /\ TickClock(d)
  BY DEF Recording, Clock
<1>3. \A p \in Plans : plan[p].anchor \in Nat /\ plan[p].interval \in Nat \ {0}
  BY RowFacts DEF Types
<1>4. ASSUME phase[d] # "idle", tick'[d].rows = tick[d].rows,
             tick'[d].observed = tick[d].observed
      PROVE  \A q \in Plans : SameSchedule(d, q)' \/ tick'[d].observed <= plan'[q].anchor
  BY <1>1, <1>2, <1>3, <1>4, PlanSteps DEF TickRecording, SameSchedule
<1>5. ASSUME phase[d] \in {"recording", "claiming"}, tick'[d].rows = tick[d].rows,
             tick'[d].observed = tick[d].observed, tick'[d].current = tick[d].current,
             tick'[d].cursor = tick[d].cursor
      PROVE  TickRecording(d)'
  <2>0. PICK p : p = tick[d].current
    OBVIOUS
  <2>1. p \in Plans /\ tick[d].cursor <= now
    BY <1>2, <1>5, <2>0 DEF Ticking, TickClock
  <2>2. ASSUME SameSchedule(d, p)', NEW t \in Times, plan'[p].anchor < t, t <= tick[d].cursor,
               (t - plan'[p].anchor) % plan'[p].interval = 0
        PROVE  occ'[p][t] # "none"
    <3>1. t \in Nat
      BY Bounds
    <3>2. plan'[p].anchor = plan[p].anchor /\ plan'[p].interval = plan[p].interval
      BY <1>1, <2>1, <2>2, <3>1, PlanSteps
    <3>3. SameSchedule(d, p)
      BY <1>5, <2>2, <3>2 DEF SameSchedule
    <3>4. occ[p][t] # "none"
      BY <1>2, <1>5, <2>0, <2>2, <3>2, <3>3 DEF TickRecording
    <3> QED BY <2>1, <3>4, RecordedSteps
  <2>3. tick'[d].current = p
    BY <1>5, <2>0
  <2> QED BY <1>4, <1>5, <2>2, <2>3 DEF TickRecording
<1>6. CASE tick'[d] = tick[d] /\ phase'[d] = phase[d]
  <2>1. CASE phase[d] \in {"recording", "claiming"}
    BY <1>5, <1>6, <2>1
  <2>2. CASE phase[d] \notin {"recording", "claiming"}
    BY <1>4, <1>6, <2>2 DEF TickRecording
  <2> QED BY <2>1, <2>2
<1>7. CASE BeginTick(d)
  <2>1. tick'[d].rows = plan /\ phase'[d] = "planning" /\ plan' = plan
    BY <1>0, <1>7 DEF BeginTick, NoTick
  <2> QED BY <2>1 DEF TickRecording, SameSchedule
<1>8. ASSUME NEW p \in Plans, TakePlan(d, p) PROVE TickRecording(d)'
  <2>1. /\ tick'[d].observed = tick[d].observed /\ tick'[d].rows = tick[d].rows
        /\ tick'[d].current = p /\ tick'[d].cursor = StartCursor(d, p)
        /\ phase[d] = "planning" /\ phase'[d] = "recording"
        /\ plan' = plan /\ occ' = occ
    BY <1>0, <1>8 DEF TakePlan, TickTypes
  <2>2. /\ StartCursor(d, p) \in Times /\ StartCursor(d, p) \in Nat
        /\ tick[d].rows[p].anchor <= StartCursor(d, p)
        /\ \/ StartCursor(d, p) = tick[d].rows[p].anchor
           \/ occ[p][StartCursor(d, p)] # "none"
    BY <2>1, StartCursorFacts, Bounds
  <2>3. ASSUME SameSchedule(d, p), NEW t \in Times, plan[p].anchor < t, t <= StartCursor(d, p),
               (t - plan[p].anchor) % plan[p].interval = 0
        PROVE  occ[p][t] # "none"
    <3> DEFINE c == StartCursor(d, p)
    <3>1. tick[d].rows[p].anchor = plan[p].anchor
      BY <2>3 DEF SameSchedule
    <3> HIDE DEF c
    <3>2. c \in Times /\ c \in Nat /\ t \in Nat /\ t <= c
      BY <2>2, <2>3, Bounds DEF c
    <3>3. occ[p][c] # "none" /\ plan[p].anchor <= c
      BY <1>3, <2>2, <2>3, <3>1, <3>2 DEF c
    <3>4. CASE t = c
      BY <3>3, <3>4
    <3>5. CASE t < c
      BY <1>3, <2>3, <3>2, <3>3, <3>5 DEF NoGaps, Recorded
    <3> QED BY <3>2, <3>4, <3>5
  <2> QED BY <1>4, <2>1, <2>3 DEF TickRecording, SameSchedule
<1>9. CASE RecordDue(d)
  <2>0. PICK p : p = tick[d].current
    OBVIOUS
  <2> DEFINE u == Due(d, p, tick[d].cursor)
             v == IF Runnable(d, p, u) THEN "pending" ELSE "missed"
  <2>1. /\ tick'[d].observed = tick[d].observed /\ tick'[d].rows = tick[d].rows
        /\ tick'[d].current = p /\ tick'[d].cursor = u
        /\ phase[d] = "recording" /\ phase'[d] = phase[d] /\ plan' = plan
    BY <1>0, <1>9, <2>0 DEF RecordDue, TickTypes
  <2>2. u \in Times /\ u \in Nat /\ tick[d].cursor < u
    BY <1>9, <2>0, RecordedDue, Bounds
  <2>3. p \in Plans /\ tick[d].rows[p].anchor <= tick[d].cursor
    BY <1>2, <2>0, <2>1 DEF Ticking, TickClock
  <2>4. (occ' = [occ EXCEPT ![p][u] = v]) \/ (occ' = occ /\ occ[p][u] # "none")
    BY <1>9, <2>0 DEF RecordDue, Insert
  <2>5. v # "none"
    OBVIOUS
  <2>6. u = NextAnchored(tick[d].rows[p].interval, tick[d].rows[p].anchor, tick[d].cursor)
    BY DEF Due
  <2> HIDE DEF v, u
  <2>7. occ'[p][u] # "none"
    <3>1. occ \in [Plans -> [Times -> RowStatuses]]
      BY DEF Types
    <3> QED BY <2>2, <2>3, <2>4, <2>5, <3>1
  <2>8. ASSUME SameSchedule(d, p), NEW t \in Times, plan[p].anchor < t, t <= u,
               (t - plan[p].anchor) % plan[p].interval = 0
        PROVE  occ'[p][t] # "none"
    <3>1. t \in Nat
      BY Bounds
    <3>2. CASE t <= tick[d].cursor
      <4>1. occ[p][t] # "none"
        BY <1>2, <2>0, <2>1, <2>8, <3>2 DEF TickRecording
      <4> QED BY <2>3, <4>1, RecordedSteps
    <3>3. CASE tick[d].cursor < t
      <4>1. /\ u = NextAnchored(plan[p].interval, plan[p].anchor, tick[d].cursor)
            /\ plan[p].anchor <= tick[d].cursor
        BY <2>3, <2>6, <2>8 DEF SameSchedule
      <4>2. u <= t
        BY <1>1, <1>3, <2>3, <2>8, <3>1, <3>3, <4>1, NextIsLeastDue
      <4>3. t = u
        BY <2>2, <2>8, <3>1, <4>2
      <4> QED BY <2>7, <4>3
    <3> QED BY <1>1, <3>1, <3>2, <3>3
  <2>9. SameSchedule(d, p)' = SameSchedule(d, p)
    BY <2>1 DEF SameSchedule
  <2> QED BY <1>4, <2>1, <2>8, <2>9 DEF TickRecording
<1>10. CASE Claim(d)
  <2>1. /\ tick'[d].observed = tick[d].observed /\ tick'[d].rows = tick[d].rows
        /\ tick'[d].current = tick[d].current /\ tick'[d].cursor = tick[d].cursor
        /\ phase[d] = "claiming"
    BY <1>0, <1>10 DEF Claim, TickTypes
  <2> QED BY <1>5, <2>1
<1>11. CASE EndRecording(d)
  BY <1>0, <1>5, <1>11 DEF EndRecording
<1>12. CASE EndClaims(d)
  <2>1. tick' = tick /\ phase'[d] = "planning" /\ phase[d] = "claiming"
    BY <1>0, <1>12 DEF EndClaims
  <2> QED BY <1>4, <2>1 DEF TickRecording
<1>13. CASE EndTick(d) \/ Restart
  <2>1. phase'[d] = "idle"
    BY <1>0, <1>13 DEF EndTick, Restart
  <2> QED BY <2>1 DEF TickRecording
<1> QED BY <1>6, <1>7, <1>8, <1>9, <1>10, <1>11, <1>12, <1>13, TickSteps

-----------------------------------------------------------------------------
(* What a step does to one occurrence: its row, its launches, its tasks.   *)

Kept(p, t) ==
  occ'[p][t] = occ[p][t] /\ launches'[p][t] = launches[p][t] /\ task'[p][t] = task[p][t]

Inserted(p, t) ==
  /\ \E d \in Dispatchers :
       RecordDue(d) /\ p = tick[d].current /\ t = Due(d, tick[d].current, tick[d].cursor)
  /\ occ[p][t] = "none" /\ occ'[p][t] # "running"
  /\ launches'[p][t] = launches[p][t] /\ task'[p][t] = task[p][t]

Launches(p, t) ==
  /\ occ[p][t] = "pending" /\ occ'[p][t] = "running"
  /\ launches'[p][t] = launches[p][t] + 1
  /\ task'[p][t] = [k \in Targets |-> "waiting"]

Closed(p, t) ==
  /\ occ'[p][t] \in {"none", "pending"} => occ[p][t] = occ'[p][t]
  /\ occ'[p][t] = "running" => faults' # 0
  /\ launches'[p][t] = launches[p][t]
  /\ task'[p][t] = [k \in Targets |-> "none"]

Works(p, t) ==
  /\ occ'[p][t] = occ[p][t] /\ launches'[p][t] = launches[p][t]
  /\ \E k \in Targets : StartTask(p, t, k) \/ EndTask(p, t, k)

(* What a step can do to one occurrence: nothing, insert it, launch it,    *)
(* close it or work on it.                                                 *)
LEMMA CellSteps ==
  ASSUME Types, [Next]_vars, NEW p \in Plans, NEW t \in Times
  PROVE  Kept(p, t) \/ Inserted(p, t) \/ Launches(p, t) \/ Closed(p, t) \/ Works(p, t)
<1> DEFINE Goal == Kept(p, t) \/ Inserted(p, t) \/ Launches(p, t) \/ Closed(p, t) \/ Works(p, t)
<1>0. /\ occ \in [Plans -> [Times -> RowStatuses]] /\ launches \in [Plans -> [Times -> Nat]]
      /\ task \in [Plans -> [Times -> [Targets -> TaskStates]]]
  BY DEF Types
<1>1. ASSUME UNCHANGED <<occ, launches, task>> PROVE Goal
  BY <1>1 DEF Kept
<1>2. ASSUME NEW d \in Dispatchers, RecordDue(d) PROVE Goal
  <2> DEFINE q == tick[d].current
             u == Due(d, q, tick[d].cursor)
             v == IF Runnable(d, q, u) THEN "pending" ELSE "missed"
  <2>1. /\ (occ' = [occ EXCEPT ![q][u] = v] /\ occ[q][u] = "none") \/ occ' = occ
        /\ UNCHANGED <<launches, task>>
    BY <1>2 DEF RecordDue, Insert
  <2>2. v # "running"
    OBVIOUS
  <2> HIDE DEF v, u, q
  <2>3. CASE p = q /\ t = u
    <3>1. p = tick[d].current /\ t = Due(d, tick[d].current, tick[d].cursor)
      BY <2>3 DEF q, u
    <3>2. (occ[p][t] = "none" /\ occ'[p][t] = v) \/ occ'[p][t] = occ[p][t]
      BY <1>0, <2>1, <2>3
    <3> QED BY <1>2, <2>1, <2>2, <3>1, <3>2 DEF Kept, Inserted
  <2>4. CASE ~(p = q /\ t = u)
    BY <1>0, <2>1, <2>4 DEF Kept
  <2> QED BY <2>3, <2>4
<1>3. ASSUME NEW d \in Dispatchers, Claim(d) PROVE Goal
  <2> DEFINE q == tick[d].current
             u == Oldest(tick[d].runnable)
  <2>1. \/ /\ occ[q][u] = "pending" /\ occ' = [occ EXCEPT ![q][u] = "running"]
           /\ launches' = [launches EXCEPT ![q][u] = @ + 1]
           /\ task' = [task EXCEPT ![q][u] = [k \in Targets |-> "waiting"]]
        \/ UNCHANGED <<occ, launches, task>>
    BY <1>3 DEF Claim
  <2> HIDE DEF u, q
  <2>2. CASE p = q /\ t = u
    BY <1>0, <2>1, <2>2 DEF Kept, Launches
  <2>3. CASE ~(p = q /\ t = u)
    BY <1>0, <2>1, <2>3 DEF Kept
  <2> QED BY <2>2, <2>3
<1>4. ASSUME NEW q \in Plans, NEW u \in Times, Finish(q, u) PROVE Goal
  <2>1. CASE p = q /\ t = u
    <3>1. faults \in Nat
      BY Bounds DEF Types
    <3> QED BY <1>0, <1>4, <2>1, <3>1 DEF Finish, Clear, Closed
  <2>2. CASE ~(p = q /\ t = u)
    BY <1>0, <1>4, <2>2 DEF Finish, Clear, Kept
  <2> QED BY <2>1, <2>2
<1>5. ASSUME NEW q \in Plans, NEW u \in Times, NEW k \in Targets,
             StartTask(q, u, k) \/ EndTask(q, u, k)
      PROVE  Goal
  <2>1. CASE p = q /\ t = u
    BY <1>5, <2>1 DEF StartTask, EndTask, Works
  <2>2. CASE ~(p = q /\ t = u)
    BY <1>0, <1>5, <2>2 DEF StartTask, EndTask, Kept
  <2> QED BY <2>1, <2>2
<1>6. ASSUME Restart PROVE Goal
  BY <1>0, <1>6 DEF Restart, Recovered, Closed
<1>7. \/ UNCHANGED <<occ, launches, task>>
      \/ \E d \in Dispatchers : RecordDue(d) \/ Claim(d)
      \/ \E q \in Plans, u \in Times :
           Finish(q, u) \/ \E k \in Targets : StartTask(q, u, k) \/ EndTask(q, u, k)
      \/ Restart
  <2>1. CASE UNCHANGED vars
    BY <2>1 DEF vars
  <2>2. ASSUME NEW d \in Dispatchers,
               \/ BeginTick(d) \/ EndRecording(d) \/ EndClaims(d) \/ EndTick(d)
               \/ \E q \in Plans : TakePlan(d, q)
        PROVE  UNCHANGED <<occ, launches, task>>
    BY <2>2 DEF BeginTick, EndRecording, EndClaims, EndTick, TakePlan
  <2>3. CASE Advance \/ Shutdown \/ \E q \in Plans : EditPlan(q)
    BY <2>3 DEF Advance, Shutdown, EditPlan
  <2> QED BY <2>1, <2>2, <2>3 DEF Next
<1> HIDE DEF Goal
<1>8. Goal
  BY <1>1, <1>2, <1>3, <1>4, <1>5, <1>6, <1>7, Zenon
<1> QED BY <1>8 DEF Goal

(* Every step keeps Launched: a launched row never becomes pending again.  *)
LEMMA LaunchedStep ==
  ASSUME Types, Launched, [Next]_vars
  PROVE  Launched'
<1> SUFFICES ASSUME NEW p \in Plans, NEW t \in Times
             PROVE  /\ launches'[p][t] <= 1
                    /\ occ'[p][t] \in {"none", "pending"} => launches'[p][t] = 0
  BY DEF Launched
<1>1. /\ launches[p][t] \in Nat /\ launches[p][t] <= 1
      /\ occ[p][t] \in {"none", "pending"} => launches[p][t] = 0
  BY DEF Types, Launched
<1> QED BY <1>1, CellSteps DEF Kept, Inserted, Launches, Closed, Works

(* Every step keeps RunningIsRecorded.                                     *)
LEMMA RunningIsRecordedStep ==
  ASSUME Types, RunningIsRecorded, [Next]_vars
  PROVE  RunningIsRecorded'
<1> SUFFICES ASSUME NEW p \in Plans, NEW t \in Times, NEW k \in Targets,
                    task'[p][t][k] # "none"
             PROVE  occ'[p][t] = "running"
  BY DEF RunningIsRecorded
<1>1. \A j \in Targets : task[p][t][j] # "none" => occ[p][t] = "running"
  BY DEF RunningIsRecorded
<1>2. CASE Works(p, t)
  BY <1>1, <1>2 DEF Works, StartTask, EndTask
<1>3. CASE Kept(p, t) \/ Inserted(p, t) \/ Launches(p, t) \/ Closed(p, t)
  BY <1>1, <1>3 DEF Kept, Inserted, Launches, Closed
<1> QED BY <1>2, <1>3, CellSteps

(* Every step keeps the limit of the semaphore.                            *)
LEMMA ParallelStep ==
  ASSUME Types, OccurrenceParallelLimit, [Next]_vars
  PROVE  OccurrenceParallelLimit'
<1> SUFFICES ASSUME NEW p \in Plans, NEW t \in Times
             PROVE  Cardinality(RunningTasks(p, t)') <= MaxParallel
  BY DEF OccurrenceParallelLimit
<1>0. RunningTasks(p, t)' = {k \in Targets : task'[p][t][k] = "running"}
  BY DEF RunningTasks
<1>1. IsFiniteSet(RunningTasks(p, t)) /\ Cardinality(RunningTasks(p, t)) \in Nat
  BY Bounds, FS_Subset, FS_CardinalityType DEF RunningTasks
<1>2. Cardinality(RunningTasks(p, t)) <= MaxParallel /\ MaxParallel \in Nat \ {0}
  BY Bounds DEF OccurrenceParallelLimit
<1>3. task[p][t] \in [Targets -> TaskStates]
  BY DEF Types
<1>4. ASSUME RunningTasks(p, t)' \subseteq RunningTasks(p, t)
      PROVE  Cardinality(RunningTasks(p, t)') <= MaxParallel
  <2>1. /\ Cardinality(RunningTasks(p, t)') <= Cardinality(RunningTasks(p, t))
        /\ IsFiniteSet(RunningTasks(p, t)')
    BY <1>1, <1>4, FS_Subset
  <2>2. Cardinality(RunningTasks(p, t)') \in Nat
    BY <2>1, FS_CardinalityType
  <2> QED BY <1>1, <1>2, <2>1, <2>2
<1>5. CASE Kept(p, t) \/ Inserted(p, t) \/ Launches(p, t) \/ Closed(p, t)
  <2>1. RunningTasks(p, t)' \subseteq RunningTasks(p, t)
    BY <1>0, <1>5 DEF RunningTasks, Kept, Inserted, Launches, Closed
  <2> QED BY <1>4, <2>1
<1>6. ASSUME NEW k \in Targets, StartTask(p, t, k)
      PROVE  Cardinality(RunningTasks(p, t)') <= MaxParallel
  <2>1. RunningTasks(p, t)' = RunningTasks(p, t) \cup {k} /\ k \notin RunningTasks(p, t)
    <3>1. task[p][t][k] = "waiting"
      BY <1>6 DEF StartTask
    <3>2. \A j \in Targets : task'[p][t][j] = IF j = k THEN "running" ELSE task[p][t][j]
      BY <1>3, <1>6 DEF StartTask, Types
    <3> QED BY <1>0, <3>1, <3>2 DEF RunningTasks
  <2>2. Cardinality(RunningTasks(p, t)') = Cardinality(RunningTasks(p, t)) + 1
    BY <1>1, <2>1, FS_AddElement
  <2>3. Cardinality(RunningTasks(p, t)) < MaxParallel
    BY <1>6 DEF StartTask, Permitted
  <2> QED BY <1>1, <1>2, <2>2, <2>3
<1>7. ASSUME NEW k \in Targets, EndTask(p, t, k)
      PROVE  Cardinality(RunningTasks(p, t)') <= MaxParallel
  <2>1. \A j \in Targets : task'[p][t][j] = IF j = k THEN "done" ELSE task[p][t][j]
    BY <1>3, <1>7 DEF EndTask, Types
  <2>2. RunningTasks(p, t)' \subseteq RunningTasks(p, t)
    BY <1>0, <2>1 DEF RunningTasks
  <2> QED BY <1>4, <2>2
<1> QED BY <1>5, <1>6, <1>7, CellSteps DEF Works

(* Faults are counted and never forgotten.                                 *)
LEMMA FaultSteps ==
  ASSUME Types, [Next]_vars, faults' = 0
  PROVE  faults = 0
<1>1. faults' = faults \/ faults' = faults + 1
  <2>1. CASE UNCHANGED vars
    BY <2>1 DEF vars, bounds
  <2>2. ASSUME NEW d \in Dispatchers,
               \/ BeginTick(d) \/ RecordDue(d) \/ EndRecording(d) \/ Claim(d)
               \/ EndClaims(d) \/ EndTick(d) \/ \E p \in Plans : TakePlan(d, p)
        PROVE  faults' = faults \/ faults' = faults + 1
    BY <2>2 DEF BeginTick, RecordDue, EndRecording, Claim, EndClaims, EndTick, TakePlan,
                StatementFails, bounds
  <2>3. ASSUME NEW p \in Plans, NEW t \in Times,
               Finish(p, t) \/ \E k \in Targets : StartTask(p, t, k) \/ EndTask(p, t, k)
        PROVE  faults' = faults \/ faults' = faults + 1
    BY <2>3 DEF Finish, StartTask, EndTask, bounds
  <2>4. CASE (\E p \in Plans : EditPlan(p)) \/ Advance \/ Shutdown \/ Restart
    BY <2>4 DEF EditPlan, Advance, Shutdown, Restart, bounds
  <2> QED BY <2>1, <2>2, <2>3, <2>4 DEF Next
<1>2. faults \in Nat
  BY Bounds DEF Types
<1> QED BY <1>1, <1>2

(* A tick ends early on a fault or in a shutdown only, which the service   *)
(* leaves by Restart.                                                      *)
LEMMA StoppingSteps ==
  ASSUME stopping, [Next]_vars
  PROVE  stopping' \/ Restart
<1>1. CASE UNCHANGED vars
  BY <1>1 DEF vars
<1>2. ASSUME NEW d \in Dispatchers,
             \/ BeginTick(d) \/ RecordDue(d) \/ EndRecording(d) \/ Claim(d)
             \/ EndClaims(d) \/ EndTick(d) \/ \E p \in Plans : TakePlan(d, p)
      PROVE  stopping'
  BY <1>2 DEF BeginTick, RecordDue, EndRecording, Claim, EndClaims, EndTick, TakePlan
<1>3. ASSUME NEW p \in Plans, NEW t \in Times,
             Finish(p, t) \/ \E k \in Targets : StartTask(p, t, k) \/ EndTask(p, t, k)
      PROVE  stopping'
  BY <1>3 DEF Finish, StartTask, EndTask
<1>4. CASE (\E p \in Plans : EditPlan(p)) \/ Advance \/ Shutdown
  BY <1>4 DEF EditPlan, Advance, Shutdown
<1> QED BY <1>1, <1>2, <1>3, <1>4 DEF Next

InHand(d, p, t) ==
  /\ phase[d] \in {"recording", "claiming"}
  /\ tick[d].current = p /\ t \in tick[d].runnable

(* What a tick has in hand stays there until the row is no longer pending. *)
LEMMA InHandStep ==
  ASSUME Types, [Next]_vars, faults' = 0, NEW p \in Plans, NEW t \in Times,
         occ[p][t] = "pending", occ'[p][t] = "pending",
         NEW d \in Dispatchers, InHand(d, p, t)
  PROVE  stopping' \/ InHand(d, p, t)'
<1>0. /\ occ \in [Plans -> [Times -> RowStatuses]] /\ tick[d] \in TickTypes
      /\ tick \in [Dispatchers -> TickTypes] /\ phase \in [Dispatchers -> Phases]
      /\ faults \in Nat
  BY Bounds DEF Types
<1>1. CASE tick'[d] = tick[d] /\ phase'[d] = phase[d]
  BY <1>1 DEF InHand
<1>2. CASE RecordDue(d)
  BY <1>0, <1>2 DEF RecordDue, InHand, TickTypes
<1>3. CASE EndRecording(d)
  BY <1>0, <1>3 DEF EndRecording, InHand
<1>4. CASE Claim(d)
  <2>1. phase' = phase /\ tick'[d].current = p
        /\ tick'[d].runnable = tick[d].runnable \ {Oldest(tick[d].runnable)}
    BY <1>0, <1>4 DEF Claim, InHand, TickTypes
  <2>2. t # Oldest(tick[d].runnable)
    BY <1>0, <1>4 DEF Claim, InHand
  <2> QED BY <2>1, <2>2 DEF InHand
<1>5. CASE EndTick(d)
  BY <1>0, <1>5 DEF EndTick, StatementFails, InHand
<1>6. CASE Restart
  BY <1>0, <1>6 DEF Restart, Recovered
<1>7. CASE BeginTick(d) \/ EndClaims(d) \/ \E q \in Plans : TakePlan(d, q)
  BY <1>7 DEF BeginTick, EndClaims, TakePlan, InHand
<1> QED BY <1>1, <1>2, <1>3, <1>4, <1>5, <1>6, <1>7, TickSteps

(* Every step keeps NoOrphans.                                             *)
LEMMA NoOrphansStep ==
  ASSUME Types, NoOrphans, [Next]_vars
  PROVE  NoOrphans'
<1> SUFFICES ASSUME faults' = 0, NEW p \in Plans, NEW t \in Times
             PROVE  /\ occ'[p][t] = "pending" =>
                         stopping' \/ \E d \in Dispatchers : InHand(d, p, t)'
                    /\ occ'[p][t] = "running" => \E k \in Targets : task'[p][t][k] # "none"
  BY DEF NoOrphans, InHand
<1>1. faults = 0
  BY FaultSteps
<1>2. /\ occ[p][t] = "pending" => stopping \/ \E d \in Dispatchers : InHand(d, p, t)
      /\ occ[p][t] = "running" => \E k \in Targets : task[p][t][k] # "none"
  BY <1>1 DEF NoOrphans, InHand
<1>3. ASSUME occ'[p][t] = "running"
      PROVE  \E k \in Targets : task'[p][t][k] # "none"
  <2>1. CASE Kept(p, t) \/ Inserted(p, t) \/ Closed(p, t)
    BY <1>2, <1>3, <2>1 DEF Kept, Inserted, Closed
  <2>2. CASE Launches(p, t)
    BY <2>2, ParametersAssumption DEF Launches
  <2>3. CASE Works(p, t)
    <3>1. PICK k \in Targets : StartTask(p, t, k) \/ EndTask(p, t, k)
      BY <2>3 DEF Works
    <3>2. task'[p][t][k] \in {"running", "done"}
      BY <3>1 DEF StartTask, EndTask, Types
    <3> QED BY <3>2
  <2> QED BY <2>1, <2>2, <2>3, CellSteps
<1>4. ASSUME occ'[p][t] = "pending"
      PROVE  stopping' \/ \E d \in Dispatchers : InHand(d, p, t)'
  <2>1. ASSUME occ[p][t] # "pending"
        PROVE  \E d \in Dispatchers : InHand(d, p, t)'
    <3>1. Inserted(p, t)
      BY <1>4, <2>1, CellSteps DEF Kept, Launches, Closed, Works
    <3>2. PICK d \in Dispatchers :
            RecordDue(d) /\ p = tick[d].current /\ t = Due(d, tick[d].current, tick[d].cursor)
      BY <3>1 DEF Inserted
    <3>3. tick[d] \in TickTypes /\ tick \in [Dispatchers -> TickTypes]
          /\ occ \in [Plans -> [Times -> RowStatuses]]
      BY DEF Types
    <3>4. Insert(p, t) /\ Runnable(d, p, t)
      BY <1>4, <2>1, <3>2, <3>3 DEF RecordDue
    <3>5. t \in tick'[d].runnable /\ tick'[d].current = p /\ phase'[d] = "recording"
      BY <3>2, <3>3, <3>4 DEF RecordDue, TickTypes
    <3> QED BY <3>5 DEF InHand
  <2>2. CASE occ[p][t] = "pending" /\ stopping
    <3>1. ~ Restart
      BY SMTT(30), <1>4 DEF Restart, Recovered
    <3> QED BY <2>2, <3>1, StoppingSteps
  <2>3. CASE occ[p][t] = "pending" /\ \E d \in Dispatchers : InHand(d, p, t)
    BY <1>4, <2>3, InHandStep
  <2> QED BY <1>2, <2>1, <2>2, <2>3
<1> QED BY <1>3, <1>4

-----------------------------------------------------------------------------
(* The theorems.                                                           *)

LEMMA TypesInvariant == Spec => [](Types /\ Ticking)
<1>1. Types /\ Ticking /\ [Next]_vars => (Types /\ Ticking)'
  BY TypesStep
<1> QED BY TypesInit, <1>1, PTL DEF Spec

(* Clock is an invariant.                                                  *)
LEMMA ClockInvariant == Spec => []Clock
<1>1. /\ Types /\ Ticking /\ (Types /\ Ticking)' /\ Clock /\ [Next]_vars => Clock'
  BY ClockStep
<1> QED BY ClockInit, <1>1, TypesInvariant, PTL DEF Spec

(* Every variable keeps its type; what a tick observed and its cursor lie  *)
(* in the past.                                                            *)
THEOREM TypeCorrect == Spec => []TypeOK
<1>1. Types /\ Ticking /\ Clock => TypeOK
  <2> SUFFICES ASSUME Types, Ticking, Clock PROVE TypeOK
    OBVIOUS
  <2>1. ASSUME NEW d \in Dispatchers
        PROVE  /\ tick[d].todo \subseteq Plans /\ tick[d].runnable \subseteq Times
               /\ tick[d].current \in Plans \cup {None}
               /\ tick[d].observed \in 0..now
               /\ phase[d] # "idle" => tick[d].rows \in [Plans -> PlanRows]
               /\ phase[d] \in {"recording", "claiming"} =>
                    tick[d].current # None /\ tick[d].cursor \in 0..now
    <3>1. tick[d] \in TickTypes /\ now \in Nat
      BY Bounds DEF Types
    <3>2. tick[d].observed \in Nat /\ tick[d].cursor \in Nat
      BY <3>1, Bounds DEF TickTypes
    <3> QED BY <3>1, <3>2, Bounds DEF TickTypes, Ticking, Clock, TickClock
  <2> QED BY <2>1 DEF Types, TypeOK, RowStatuses, TaskStates, Phases
<1> QED BY <1>1, TypesInvariant, ClockInvariant, PTL

(* The occurrence of a due time is handed to a goroutine at most once,     *)
(* whatever the number of dispatchers on the store and of restarts: only a *)
(* row that is pending is claimed, and none becomes pending again.         *)
THEOREM ClaimedOnce == Spec => []AtMostOncePerDue
<1>1. Init => Launched
  BY DEF Init, Launched
<1>2. Types /\ Ticking /\ Launched /\ [Next]_vars => Launched'
  BY LaunchedStep
<1>3. Launched => AtMostOncePerDue
  BY DEF Launched, AtMostOncePerDue
<1> QED BY <1>1, <1>2, <1>3, TypesInvariant, PTL DEF Spec

(* Work is in hand only for an occurrence whose row says running.          *)
THEOREM WorkIsRecorded == Spec => []RunningIsRecorded
<1>1. Init => RunningIsRecorded
  BY DEF Init, RunningIsRecorded
<1>2. Types /\ Ticking /\ RunningIsRecorded /\ [Next]_vars => RunningIsRecorded'
  BY RunningIsRecordedStep
<1> QED BY <1>1, <1>2, TypesInvariant, PTL DEF Spec

(* Without store faults, a pending row is in the hands of a tick or of a   *)
(* shutdown, and a running one has its goroutine: no error path, edit or   *)
(* second dispatcher leaves a row that nobody will end.                    *)
THEOREM RowsHaveOwners == Spec => []NoOrphans
<1>1. Init => NoOrphans
  BY DEF Init, NoOrphans
<1>2. Types /\ Ticking /\ NoOrphans /\ [Next]_vars => NoOrphans'
  BY NoOrphansStep
<1> QED BY <1>1, <1>2, TypesInvariant, PTL DEF Spec

(* The semaphore of executeOccurrence bounds what runs of an occurrence,   *)
(* for any number of tasks.                                                *)
THEOREM OccurrenceIsBounded == Spec => []OccurrenceParallelLimit
<1>1. Init => OccurrenceParallelLimit
  <2> SUFFICES ASSUME Init, NEW p \in Plans, NEW t \in Times
               PROVE  Cardinality(RunningTasks(p, t)) <= MaxParallel
    BY DEF OccurrenceParallelLimit
  <2>1. RunningTasks(p, t) = {}
    BY DEF Init, RunningTasks
  <2> QED BY <2>1, FS_EmptySet, Bounds
<1>2. Types /\ Ticking /\ OccurrenceParallelLimit /\ [Next]_vars => OccurrenceParallelLimit'
  BY ParallelStep
<1> QED BY <1>1, <1>2, TypesInvariant, PTL DEF Spec

(* The recorder leaves no gaps, for any intervals, any number of plans and *)
(* of dispatchers, any edits, failures and restarts: a tick works from the *)
(* rows as they are or records only what lies before the anchor an edit    *)
(* set, and its cursor never passes a due time that is not recorded.       *)
THEOREM RecorderLeavesNoGaps == Spec => []NoGaps
<1>1. Init => NoGaps /\ Recording
  BY DEF Init, NoGaps, Recorded, Recording, TickRecording
<1>2. /\ Types /\ Ticking /\ Clock /\ NoGaps /\ Recording /\ [Next]_vars
      => NoGaps' /\ Recording'
  BY NoGapsStep, RecordingStep
<1> QED BY <1>1, <1>2, TypesInvariant, ClockInvariant, PTL DEF Spec

-----------------------------------------------------------------------------
(* Catching up, with the one dispatcher a service has.                     *)

OneDispatcher == \A d, e \in Dispatchers : d = e

(* Everything recorded of the plan a tick is at lies at or before its      *)
(* cursor, and what the tick is to run is the cursor itself, after which   *)
(* nothing is due yet: the recorder marks only the newest due time.        *)
TickCatchesUp(d) ==
  phase[d] \in {"recording", "claiming"} =>
    LET p == tick[d].current IN
    /\ \A t \in Times : occ[p][t] # "none" => t <= tick[d].cursor
    /\ \A t \in tick[d].runnable :
         t = tick[d].cursor /\ tick[d].observed < Due(d, p, tick[d].cursor)

CatchUp == \A d \in Dispatchers : TickCatchesUp(d)

(* A tick that keeps its plan, its cursor and its rows has still caught up.*)
LEMMA SameCursor ==
  ASSUME Types, Ticking, Clock, OneDispatcher, [Next]_vars,
         NEW d \in Dispatchers, TickCatchesUp(d),
         phase[d] \in {"recording", "claiming"},
         tick'[d].current = tick[d].current, tick'[d].cursor = tick[d].cursor,
         tick'[d].rows = tick[d].rows, tick'[d].observed = tick[d].observed,
         tick'[d].runnable \subseteq tick[d].runnable
  PROVE  TickCatchesUp(d)'
<1> DEFINE p == tick[d].current
<1>1. p \in Plans
  BY DEF Ticking
<1>2. tick[d] \in TickTypes /\ tick[d].cursor \in Nat
  BY Bounds DEF Types, TickTypes
<1>3. ASSUME NEW t \in Times, occ'[p][t] # "none" PROVE t <= tick[d].cursor
  <2>1. CASE occ[p][t] # "none"
    BY <2>1 DEF TickCatchesUp
  <2>2. CASE occ[p][t] = "none"
    <3>1. PICK e \in Dispatchers :
            RecordDue(e) /\ p = tick[e].current /\ t = Due(e, p, tick[e].cursor)
      BY <1>1, <1>3, <2>2, RecordedSteps
    <3>2. e = d
      BY DEF OneDispatcher
    <3>3. RecordDue(d) /\ t = Due(d, p, tick[d].cursor)
      BY <3>1, <3>2
    <3>4. tick'[d].cursor = t
      BY <1>2, <3>3 DEF RecordDue, Types, TickTypes
    <3>5. tick[d].cursor < t /\ t \in Nat
      BY <3>3, RecordedDue, Bounds
    <3> QED BY <1>2, <3>4, <3>5
  <2> QED BY <2>1, <2>2
<1>4. Due(d, p, tick[d].cursor)' = Due(d, p, tick[d].cursor)
  BY DEF Due
<1>5. ASSUME NEW t \in tick'[d].runnable
      PROVE  t = tick[d].cursor /\ tick[d].observed < Due(d, p, tick[d].cursor)
  BY DEF TickCatchesUp
<1> QED BY <1>3, <1>4, <1>5 DEF TickCatchesUp

(* Taking a plan puts the cursor at or after all that is recorded of it.   *)
LEMMA TakePlanCatchesUp ==
  ASSUME Types, Ticking, NEW d \in Dispatchers, NEW p \in Plans, TakePlan(d, p)
  PROVE  TickCatchesUp(d)'
<1> DEFINE c == StartCursor(d, p)
<1>1. /\ tick'[d].current = p /\ tick'[d].cursor = c /\ tick'[d].runnable = {}
      /\ phase[d] = "planning" /\ occ' = occ
  BY DEF TakePlan, Types, TickTypes
<1>2. /\ c \in Nat /\ tick[d].rows[p].anchor <= c
      /\ \A t \in Times : t >= tick[d].rows[p].anchor /\ occ[p][t] # "none" => t <= c
  BY <1>1, StartCursorFacts, Bounds
<1>3. tick[d].rows[p].anchor \in Nat
  BY <1>1, RowFacts DEF Ticking
<1> HIDE DEF c
<1>4. ASSUME NEW t \in Times, occ[p][t] # "none" PROVE t <= c
  <2>1. t \in Nat
    BY Bounds
  <2> QED BY <1>2, <1>3, <1>4, <2>1
<1> QED BY <1>1, <1>4 DEF TickCatchesUp

(* Recording moves the cursor to a later due time; it is run only if       *)
(* nothing is due after it, and then it is the first to be run.            *)
LEMMA RecordDueCatchesUp ==
  ASSUME Types, Ticking, Clock, NEW d \in Dispatchers, TickCatchesUp(d), RecordDue(d)
  PROVE  TickCatchesUp(d)'
<1> DEFINE p == tick[d].current
           u == Due(d, p, tick[d].cursor)
           after == Due(d, p, u)
<1>1. /\ tick'[d].observed = tick[d].observed /\ tick'[d].rows = tick[d].rows
      /\ tick'[d].current = p /\ tick'[d].cursor = u
      /\ tick'[d].runnable = (IF Insert(p, u) /\ Runnable(d, p, u)
                              THEN tick[d].runnable \cup {u} ELSE tick[d].runnable)
      /\ phase[d] = "recording"
  BY DEF RecordDue, Types, TickTypes
<1>2. /\ u \in Nat /\ u <= tick[d].observed /\ tick[d].cursor < u
      /\ tick[d].cursor \in Nat /\ tick[d].observed \in Nat
  BY RecordedDue, Bounds DEF Types, TickTypes
<1>3. p \in Plans
  BY <1>1 DEF Ticking
<1>4. Due(d, tick[d].current, tick[d].cursor)' = after
  BY <1>1 DEF Due
<1>5. Runnable(d, p, u) => tick[d].observed < after
  <2>1. Runnable(d, p, u) => after > tick[d].observed
    BY DEF Runnable, CanRun
  <2>2. after \in Nat
    BY <1>1, <1>2, DueFacts, DueIsNatural DEF Due
  <2> HIDE DEF after
  <2> QED BY <1>2, <2>1, <2>2
<1>6. tick[d].runnable = {}
  <2>1. ASSUME NEW t \in tick[d].runnable PROVE FALSE
    <3>1. tick[d].observed < u
      BY <1>1, <2>1 DEF TickCatchesUp
    <3> QED BY <1>2, <3>1
  <2> QED BY <2>1
<1>7. ASSUME NEW t \in Times, occ'[p][t] # "none" PROVE t <= u
  <2>1. \/ occ' = occ
        \/ occ' = [occ EXCEPT ![p][u] = IF Runnable(d, p, u) THEN "pending" ELSE "missed"]
    BY DEF RecordDue
  <2>2. occ \in [Plans -> [Times -> RowStatuses]] /\ t \in Nat
    BY Bounds DEF Types
  <2> HIDE DEF u
  <2>3. t = u \/ occ[p][t] # "none"
    BY <1>3, <1>7, <2>1, <2>2
  <2>4. occ[p][t] # "none" => t <= tick[d].cursor
    BY <1>1 DEF TickCatchesUp
  <2> QED BY <1>2, <2>2, <2>3, <2>4
<1> HIDE DEF u, after
<1>8. ASSUME NEW t \in tick'[d].runnable PROVE t = u /\ tick[d].observed < after
  BY <1>1, <1>5, <1>6
<1> QED BY <1>1, <1>4, <1>7, <1>8 DEF TickCatchesUp

(* Every step keeps CatchUp.                                               *)
LEMMA CatchUpStep ==
  ASSUME Types, Ticking, Clock, OneDispatcher, CatchUp, [Next]_vars
  PROVE  CatchUp'
<1> SUFFICES ASSUME NEW d \in Dispatchers PROVE TickCatchesUp(d)'
  BY DEF CatchUp
<1>0. /\ tick \in [Dispatchers -> TickTypes] /\ phase \in [Dispatchers -> Phases]
      /\ tick[d] \in TickTypes /\ TickCatchesUp(d)
  BY DEF Types, CatchUp
<1>1. CASE phase'[d] \notin {"recording", "claiming"}
  BY <1>1 DEF TickCatchesUp
<1>2. ASSUME NEW p \in Plans, TakePlan(d, p) PROVE TickCatchesUp(d)'
  BY <1>2, TakePlanCatchesUp
<1>3. CASE RecordDue(d)
  BY <1>0, <1>3, RecordDueCatchesUp
<1>4. ASSUME phase'[d] \in {"recording", "claiming"},
             (tick'[d] = tick[d] /\ phase'[d] = phase[d]) \/ EndRecording(d)
      PROVE  TickCatchesUp(d)'
  <2>1. tick'[d] = tick[d] /\ phase[d] \in {"recording", "claiming"}
    BY <1>0, <1>4 DEF EndRecording
  <2> QED BY <1>0, <2>1, SameCursor
<1>5. CASE Claim(d)
  <2>1. /\ tick'[d].observed = tick[d].observed /\ tick'[d].rows = tick[d].rows
        /\ tick'[d].current = tick[d].current /\ tick'[d].cursor = tick[d].cursor
        /\ phase[d] = "claiming" /\ tick'[d].runnable \subseteq tick[d].runnable
    BY <1>0, <1>5 DEF Claim, TickTypes
  <2> QED BY <1>0, <2>1, SameCursor
<1>6. ASSUME BeginTick(d) \/ EndClaims(d) \/ EndTick(d) \/ Restart
      PROVE  phase'[d] \notin {"recording", "claiming"}
  BY <1>0, <1>6 DEF BeginTick, EndClaims, EndTick, Restart
<1> QED BY <1>1, <1>2, <1>3, <1>4, <1>5, <1>6, TickSteps

(* A launch is a claim, of a time the tick is to run.                      *)
LEMMA LaunchSteps ==
  ASSUME Types, [Next]_vars, NEW p \in Plans, NEW t \in Times,
         launches'[p][t] # launches[p][t]
  PROVE  \E d \in Dispatchers :
           Claim(d) /\ p = tick[d].current /\ t = Oldest(tick[d].runnable)
<1>1. UNCHANGED launches \/ \E d \in Dispatchers : Claim(d)
  <2>1. ASSUME NEW d \in Dispatchers,
               \/ BeginTick(d) \/ RecordDue(d) \/ EndRecording(d) \/ EndClaims(d)
               \/ EndTick(d) \/ \E q \in Plans : TakePlan(d, q)
        PROVE  UNCHANGED launches
    BY <2>1 DEF BeginTick, RecordDue, EndRecording, EndClaims, EndTick, TakePlan
  <2>2. ASSUME NEW q \in Plans, NEW u \in Times,
               Finish(q, u) \/ \E k \in Targets : StartTask(q, u, k) \/ EndTask(q, u, k)
        PROVE  UNCHANGED launches
    BY <2>2 DEF Finish, StartTask, EndTask
  <2>3. CASE \/ Advance \/ Shutdown \/ Restart \/ UNCHANGED vars
             \/ \E q \in Plans : EditPlan(q)
    BY <2>3 DEF Advance, Shutdown, Restart, EditPlan, vars
  <2> QED BY <2>1, <2>2, <2>3 DEF Next
<1>2. PICK d \in Dispatchers : Claim(d)
  BY <1>1
<1> DEFINE q == tick[d].current
           u == Oldest(tick[d].runnable)
<1>3. launches' = [launches EXCEPT ![q][u] = @ + 1] \/ launches' = launches
  BY <1>2 DEF Claim
<1>4. launches \in [Plans -> [Times -> Nat]]
  BY DEF Types
<1> HIDE DEF q, u
<1>5. p = q /\ t = u
  BY <1>3, <1>4
<1> QED BY <1>2, <1>5 DEF q, u

(* With one dispatcher, catching up never runs an older due time after a   *)
(* newer one: what is launched is the newest recorded of its plan.         *)
THEOREM CatchUpRunsNewest == ASSUME OneDispatcher PROVE Spec => LaunchesNewest
<1> DEFINE Catching ==
      \A p \in Plans, t \in Times :
        launches'[p][t] # launches[p][t] => \A u \in Recorded(p, 0) : u <= t
<1>1. Init => CatchUp
  BY DEF Init, CatchUp, TickCatchesUp
<1>2. Types /\ Ticking /\ Clock /\ CatchUp /\ [Next]_vars => CatchUp'
  BY CatchUpStep
<1>3. Spec => []CatchUp
  BY <1>1, <1>2, TypesInvariant, ClockInvariant, PTL DEF Spec
<1>4. Types /\ Ticking /\ CatchUp /\ [Next]_vars
      => [Catching]_vars
  <2> SUFFICES ASSUME Types, Ticking, CatchUp, [Next]_vars, NEW p \in Plans, NEW t \in Times,
                      launches'[p][t] # launches[p][t], NEW u \in Recorded(p, 0)
               PROVE  u <= t
    OBVIOUS
  <2>1. PICK d \in Dispatchers :
          Claim(d) /\ p = tick[d].current /\ t = Oldest(tick[d].runnable)
    BY LaunchSteps
  <2>2. phase[d] = "claiming" /\ tick[d].runnable # {} /\ tick[d].cursor \in Nat
    BY <2>1, Bounds DEF Claim, Types, TickTypes
  <2>3. tick[d].runnable = {tick[d].cursor}
    BY <2>2 DEF CatchUp, TickCatchesUp
  <2>4. t = tick[d].cursor
    BY <2>1, <2>2, <2>3 DEF Oldest
  <2>5. u \in Times /\ occ[p][u] # "none"
    BY DEF Recorded
  <2> QED BY <2>1, <2>2, <2>4, <2>5 DEF CatchUp, TickCatchesUp
<1> HIDE DEF Catching
<1>5. Spec => [][Catching]_vars
  BY <1>3, <1>4, TypesInvariant, PTL DEF Spec
<1> QED BY <1>5 DEF LaunchesNewest, Catching

-----------------------------------------------------------------------------
(* The monitoring of capacity (RepositoryCapacity).                        *)

ProbePlaces == {"idle", "probing", "measured", "failing", "deferring", "queued", "running",
                "lost", "leaving"}

Probing == {r \in Repos : at[<<"dispatcher", r>>] # "idle"}

(* A policy that is enabled and has no time for its next probe is one that *)
(* a start has enabled.                                                    *)
PoliciesFit ==
  /\ enabled \subseteq Repos /\ planned \subseteq enabled
  /\ enabled \ planned \subseteq revived

MonitorTyped ==
  /\ PoliciesFit
  /\ at \in [Probes -> ProbePlaces]
  /\ shown \in [Repos -> {"none", "newest"}]

(* Only what the dispatcher has started leaves the set of the active.      *)
LeaversAreItsOwn == \A p \in Probes : at[p] = "leaving" => p[1] = "dispatcher"

MonitorInv ==
  /\ MonitorTyped
  /\ LeaversAreItsOwn
  /\ active = Probing /\ Cardinality(active) <= MaxProbes

(* The two instances of the standard module agree.                         *)
LEMMA SameCardinality == \A S : Capacity!Cardinality(S) = Cardinality(S)
  BY DEF Capacity!Cardinality, Cardinality

LEMMA ProbeFacts ==
  ASSUME NEW p \in Probes
  PROVE  p[1] \in {"dispatcher", "other"} /\ p[2] \in Repos /\ p = <<p[1], p[2]>>
  BY ProbesAssumption

LEMMA ActiveIsFinite ==
  ASSUME NEW S, S \subseteq Repos
  PROVE  IsFiniteSet(S) /\ Cardinality(S) \in Nat
  BY ProbesAssumption, FS_Subset, FS_CardinalityType

(* Only a step of the dispatcher makes the number of its probes grow.      *)
LEMMA OtherStepsKeep ==
  ASSUME MonitorInv, MonitorTyped', LeaversAreItsOwn',
         active' = Probing', active' \subseteq active
  PROVE  MonitorInv'
<1>1. active \subseteq Repos /\ active' \subseteq Repos
  BY DEF MonitorInv, Probing
<1>2. IsFiniteSet(active) /\ Cardinality(active) \in Nat /\ Cardinality(active') \in Nat
  BY <1>1, ActiveIsFinite
<1>3. Cardinality(active') <= Cardinality(active)
  BY <1>2, FS_Subset
<1>4. Cardinality(active') <= MaxProbes
  BY <1>2, <1>3, ProbesAssumption DEF MonitorInv
<1>5. QED  BY <1>4 DEF MonitorInv

(* A tick claims no more repositories than there is room for.              *)
LEMMA TickKeeps == ASSUME MonitorInv, Capacity!Tick  PROVE MonitorInv'
<1>1. PICK claimed \in SUBSET Capacity!Due :
        /\ Capacity!FirstDue(claimed)
        /\ active' = active \cup claimed
        /\ at' = [p \in Probes |-> IF p \in {Capacity!Dispatched(r) : r \in claimed \ active}
                                   THEN "probing" ELSE at[p]]
        /\ UNCHANGED <<enabled, planned, revived, shown>>
  BY DEF Capacity!Tick, Capacity!times
<1>2. claimed \subseteq Repos /\ active \subseteq Repos /\ Capacity!Due \subseteq Repos
  BY <1>1 DEF Capacity!Due, MonitorInv, Probing
<1>3. MonitorTyped'
  BY <1>1 DEF MonitorInv, MonitorTyped, PoliciesFit, ProbePlaces
<1>4. LeaversAreItsOwn'
  BY <1>1 DEF MonitorInv, MonitorTyped, LeaversAreItsOwn
<1>5. active' = Probing'
  <2>1. ASSUME NEW r \in Repos  PROVE r \in active' <=> r \in Probing'
    <3>1. <<"dispatcher", r>> \in Probes
      BY ProbesAssumption DEF Capacity!Dispatched
    <3>2. <<"dispatcher", r>> \in {Capacity!Dispatched(s) : s \in claimed \ active}
            <=> r \in claimed \ active
      BY DEF Capacity!Dispatched
    <3>3. r \in active <=> at[<<"dispatcher", r>>] # "idle"
      BY DEF MonitorInv, Probing
    <3>4. QED  BY <1>1, <3>1, <3>2, <3>3 DEF Probing
  <2>2. active' \subseteq Repos
    BY <1>1, <1>2
  <2>3. QED  BY <2>1, <2>2 DEF Probing
<1>6. Cardinality(active') <= MaxProbes
  <2>1. /\ IsFiniteSet(active) /\ Cardinality(active) \in Nat
        /\ IsFiniteSet(claimed) /\ Cardinality(claimed) \in Nat
        /\ Cardinality(Capacity!Due) \in Nat /\ Cardinality(active \cap claimed) \in Nat
    BY <1>2, ActiveIsFinite
  <2>2. Cardinality(claimed) <= MaxProbes - Cardinality(active)
    <3>1. Cardinality(claimed) = IF Cardinality(Capacity!Due) < MaxProbes - Cardinality(active)
                                 THEN Cardinality(Capacity!Due)
                                 ELSE MaxProbes - Cardinality(active)
      BY <1>1, SameCardinality DEF Capacity!FirstDue, Capacity!Free
    <3>2. MaxProbes \in Nat
      BY ProbesAssumption
    <3>3. QED  BY <3>1, <3>2, <2>1
  <2>3. Cardinality(active \cup claimed)
          = Cardinality(active) + Cardinality(claimed) - Cardinality(active \cap claimed)
    BY <2>1, FS_Union
  <2>4. QED  BY <1>1, <2>1, <2>2, <2>3, ProbesAssumption
<1>7. QED  BY <1>3, <1>4, <1>5, <1>6 DEF MonitorInv

LEMMA PolicyStepsKeep ==
  ASSUME MonitorInv, NEW r \in Repos,
         Capacity!Elapse(r) \/ Capacity!Lapse(r) \/ Capacity!Enable(r) \/ Capacity!Disable(r)
           \/ Capacity!Connect(r) \/ Capacity!Start(r)
  PROVE  MonitorInv'
<1> USE DEF MonitorInv, MonitorTyped, PoliciesFit, LeaversAreItsOwn, Probing, Capacity!times,
            Capacity!rows, Capacity!world
<1>1. CASE Capacity!Elapse(r)
  BY <1>1 DEF Capacity!Elapse
<1>2. CASE Capacity!Lapse(r)
  BY <1>2 DEF Capacity!Lapse
<1>3. CASE Capacity!Enable(r)
  BY <1>3 DEF Capacity!Enable
<1>4. CASE Capacity!Disable(r)
  BY <1>4 DEF Capacity!Disable
<1>5. CASE Capacity!Connect(r)
  BY <1>5 DEF Capacity!Connect
<1>6. CASE Capacity!Start(r)
  BY <1>6 DEF Capacity!Start, Capacity!Go, ProbePlaces
<1>7. QED  BY <1>1, <1>2, <1>3, <1>4, <1>5, <1>6

(* A probe that goes on does not change who is active.                     *)
LEMMA ProbeGoes ==
  ASSUME MonitorInv, NEW p \in Probes, NEW s \in ProbePlaces,
         at' = [at EXCEPT ![p] = s],
         at[p] # "idle", s = "idle" => p[1] = "other", s = "leaving" => p[1] = "dispatcher",
         UNCHANGED active, PoliciesFit',
         shown' \in [Repos -> {"none", "newest"}]
  PROVE  MonitorInv'
<1>1. MonitorTyped'
  BY DEF MonitorInv, MonitorTyped
<1>2. LeaversAreItsOwn'
  BY DEF MonitorInv, MonitorTyped, LeaversAreItsOwn
<1>3. Probing' = Probing
  <2>1. ASSUME NEW r \in Repos
        PROVE  at'[<<"dispatcher", r>>] = "idle" <=> at[<<"dispatcher", r>>] = "idle"
    <3>1. <<"dispatcher", r>> \in Probes
      BY ProbesAssumption DEF Capacity!Dispatched
    <3>2. CASE p = <<"dispatcher", r>>
      BY <3>1, <3>2 DEF MonitorInv, MonitorTyped
    <3>3. CASE p # <<"dispatcher", r>>
      BY <3>1, <3>3 DEF MonitorInv, MonitorTyped
    <3>4. QED  BY <3>2, <3>3
  <2>2. QED  BY <2>1 DEF Probing
<1>4. QED  BY <1>1, <1>2, <1>3 DEF MonitorInv

LEMMA ProbeStepsKeep ==
  ASSUME MonitorInv, NEW p \in Probes,
         \/ Capacity!Measure(p) \/ Capacity!Unsupported(p) \/ Capacity!Ask(p) \/ Capacity!Fetch(p)
         \/ Capacity!Answer(p) \/ Capacity!Lose(p) \/ Capacity!Forget(p)
  PROVE  MonitorInv'
<1> USE DEF Capacity!times, Capacity!rows, Capacity!world, Capacity!Go
<1>1. PoliciesFit /\ shown \in [Repos -> {"none", "newest"}]
  BY DEF MonitorInv, MonitorTyped
<1>2. PICK s \in ProbePlaces :
        /\ at' = [at EXCEPT ![p] = s] /\ at[p] # "idle"
        /\ s = "idle" => p[1] # "dispatcher"
        /\ s # "leaving"
  BY DEF ProbePlaces, Capacity!Measure, Capacity!Unsupported, Capacity!Ask, Capacity!Fetch,
         Capacity!Answer, Capacity!Lose, Capacity!Forget, Capacity!Stamp, Capacity!AfterRefusal
<1>3. UNCHANGED <<active, enabled, planned, revived, shown>>
  BY DEF Capacity!Measure, Capacity!Unsupported, Capacity!Ask, Capacity!Fetch, Capacity!Answer,
         Capacity!Lose, Capacity!Forget
<1>4. PoliciesFit'
  BY <1>1, <1>3 DEF PoliciesFit
<1>5. QED  BY <1>1, <1>2, <1>3, <1>4, ProbeFacts, ProbeGoes

LEMMA OutcomesKeep ==
  ASSUME MonitorInv, NEW p \in Probes,
         \/ Capacity!SaveCapacity(p) \/ Capacity!RecordFailure(p) \/ Capacity!Defer(p)
         \/ Capacity!NotRecorded(p)
  PROVE  MonitorInv'
<1> USE DEF Capacity!times, Capacity!rows, Capacity!world, Capacity!Go, Capacity!Return
<1>1. /\ PoliciesFit
      /\ shown \in [Repos -> {"none", "newest"}]
  BY DEF MonitorInv, MonitorTyped
<1>2. PICK s \in ProbePlaces :
        /\ at' = [at EXCEPT ![p] = s] /\ at[p] # "idle"
        /\ s = IF p[1] = "dispatcher" THEN "leaving" ELSE "idle"
  BY DEF ProbePlaces, Capacity!SaveCapacity, Capacity!RecordFailure, Capacity!Defer,
         Capacity!NotRecorded
<1>3. active' = active /\ PoliciesFit'
  BY <1>1 DEF Capacity!SaveCapacity, Capacity!RecordFailure, Capacity!Defer,
       Capacity!NotRecorded, Capacity!Replan, PoliciesFit
<1>4. shown' \in [Repos -> {"none", "newest"}]
  <2>1. CASE Capacity!SaveCapacity(p)
    BY <1>1, <2>1 DEF Capacity!SaveCapacity, Capacity!Replaces
  <2>2. CASE UNCHANGED shown
    BY <1>1, <2>2
  <2>3. QED  BY <2>1, <2>2 DEF Capacity!RecordFailure, Capacity!Defer, Capacity!NotRecorded
<1>5. QED  BY <1>2, <1>3, <1>4, ProbeFacts, ProbeGoes

LEMMA LeaveKeeps ==
  ASSUME MonitorInv, NEW p \in Probes, Capacity!Leave(p)  PROVE MonitorInv'
<1> USE DEF Capacity!Leave, Capacity!Go, Capacity!RepoOf, Capacity!rows, Capacity!times,
            Capacity!world
<1>1. p = <<"dispatcher", p[2]>> /\ p[2] \in Repos
  BY ProbeFacts DEF MonitorInv, LeaversAreItsOwn
<1>2. MonitorTyped'
  BY DEF MonitorInv, MonitorTyped, PoliciesFit, ProbePlaces
<1>3. LeaversAreItsOwn'
  BY DEF MonitorInv, MonitorTyped, LeaversAreItsOwn
<1>4. active' = Probing'
  <2>1. ASSUME NEW r \in Repos  PROVE r \in active' <=> r \in Probing'
    <3>1. <<"dispatcher", r>> \in Probes
      BY ProbesAssumption DEF Capacity!Dispatched
    <3>2. <<"dispatcher", r>> = p <=> r = p[2]
      BY <1>1
    <3>3. QED  BY <3>1, <3>2 DEF MonitorInv, MonitorTyped, Probing
  <2>2. QED  BY <2>1 DEF MonitorInv, Probing
<1>5. QED  BY <1>2, <1>3, <1>4, OtherStepsKeep

LEMMA MonitorRestarts == ASSUME MonitorInv, Capacity!Restart  PROVE MonitorInv'
<1> USE DEF Capacity!Restart, Capacity!EnableAll
<1>1. MonitorTyped' /\ LeaversAreItsOwn'
  BY DEF MonitorInv, MonitorTyped, PoliciesFit, LeaversAreItsOwn, ProbePlaces
<1>2. active' = Probing'
  BY ProbesAssumption DEF Probing, Capacity!Dispatched
<1>3. QED  BY <1>1, <1>2, OtherStepsKeep

LEMMA MonitorInductive == Capacity!Spec => []MonitorInv
<1>1. Capacity!Init => MonitorInv
  <2> SUFFICES ASSUME Capacity!Init  PROVE MonitorInv
    OBVIOUS
  <2>1. Probing = {}
    BY ProbesAssumption DEF Probing, Capacity!Init, Capacity!Dispatched
  <2>2. Cardinality({}) = 0
    BY FS_EmptySet
  <2>3. QED  BY <2>1, <2>2, ProbesAssumption
             DEF MonitorInv, MonitorTyped, PoliciesFit, LeaversAreItsOwn, ProbePlaces,
                 Capacity!Init
<1>2. MonitorInv /\ [Capacity!Next]_(Capacity!vars) => MonitorInv'
  <2> SUFFICES ASSUME MonitorInv, [Capacity!Next]_(Capacity!vars)  PROVE MonitorInv'
    OBVIOUS
  <2>1. CASE UNCHANGED Capacity!vars
    BY <2>1 DEF Capacity!vars, MonitorInv, MonitorTyped, PoliciesFit, LeaversAreItsOwn, Probing
  <2>2. CASE Capacity!AgentChanges
    BY <2>2 DEF Capacity!AgentChanges, Capacity!rows, Capacity!times,
                MonitorInv, MonitorTyped, PoliciesFit, LeaversAreItsOwn, Probing
  <2>3. QED  BY <2>1, <2>2, TickKeeps, MonitorRestarts, PolicyStepsKeep, ProbeStepsKeep,
                OutcomesKeep, LeaveKeeps DEF Capacity!Next
<1>3. QED  BY <1>1, <1>2, PTL DEF Capacity!Spec

(* However saves, claims, outcomes and restarts overlap, a policy that is  *)
(* enabled keeps a time for its next probe, unless a start has enabled it; *)
(* the dispatcher is at work on no more repositories than it may and       *)
(* forgets none of them, and a capacity is not replaced by an earlier one; *)
(* for any number of each.                                                 *)
THEOREM MonitorNeverLoses == Capacity!Spec => []MonitorHolds
<1>1. MonitorInv => MonitorHolds
  <2> SUFFICES ASSUME MonitorInv  PROVE MonitorHolds
    OBVIOUS
  <2>1. /\ planned \subseteq enabled /\ enabled \ planned \subseteq revived
        /\ Cardinality(active) <= MaxProbes
    BY DEF MonitorInv, MonitorTyped, PoliciesFit
  <2>2. active = {r \in Repos : /\ Capacity!Dispatched(r) \in Probes
                               /\ at[Capacity!Dispatched(r)] # "idle"}
    BY ProbesAssumption DEF MonitorInv, Probing, Capacity!Dispatched
  <2>3. \A r \in Repos : shown[r] # "older"
    BY DEF MonitorInv, MonitorTyped
  <2>4. QED  BY <2>1, <2>2, <2>3, SameCardinality DEF MonitorHolds, Capacity!MonitorHolds
<1>2. QED  BY MonitorInductive, <1>1, PTL
=============================================================================
