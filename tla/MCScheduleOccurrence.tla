------------------------ MODULE MCScheduleOccurrence ------------------------
(***************************************************************************)
(* The dispatchers on small instances: ScheduleOccurrence with one or two  *)
(* plans and a short time, and beside it the monitoring of the capacity of *)
(* two repositories.  The initial state picks the part that is checked;    *)
(* the parts share no state.                                               *)
(***************************************************************************)
EXTENDS Scheduling, TLC

CONSTANTS
  Parts,
  d1, d2, p1, p2, k1, k2,   \* ScheduleOccurrence
  c1, c2                    \* RepositoryCapacity

WideWindow == [p \in Plans |-> 2]
Symmetry == Permutations(Targets) \cup Permutations(Dispatchers)

MCProbes == {<<"dispatcher", c1>>, <<"dispatcher", c2>>, <<"other", c1>>}

VARIABLE part    \* the part that is checked

-----------------------------------------------------------------------------
(* A part that is not checked stays where nothing of it can happen.        *)
Off == "off"

ScheduleOff ==
  /\ now = 0 /\ plan = [p \in Plans |-> [enabled |-> FALSE, anchor |-> 0, interval |-> 1]]
  /\ occ = [p \in Plans |-> [t \in Times |-> "none"]]
  /\ launches = [p \in Plans |-> [t \in Times |-> 0]]
  /\ task = [p \in Plans |-> [t \in Times |-> [k \in Targets |-> "none"]]]
  /\ phase = [d \in Dispatchers |-> Off] /\ tick = Off
  /\ stopping = FALSE /\ restarts = 0 /\ faults = 0 /\ edits = 0

(* No policy is enabled, and nothing is being probed.                      *)
CapacityOff ==
  /\ enabled = {} /\ planned = {} /\ revived = {} /\ queue = << >>
  /\ connected = {} /\ reachable = TRUE
  /\ claim = [r \in Repos |-> "none"] /\ shown = claim
  /\ active = {} /\ at = [p \in Probes |-> "idle"] /\ order = << >> /\ behind = {}
  /\ saves = 0 /\ troubles = 0

MCInit ==
  /\ part \in Parts
  /\ IF part = "schedule" THEN Init ELSE ScheduleOff
  /\ IF part = "capacity" THEN Capacity!Init ELSE CapacityOff

MCNext ==
  /\ part' = part
  /\ \/ part = "schedule" /\ Next /\ UNCHANGED capacityVars
     \/ part = "capacity" /\ Capacity!Next /\ UNCHANGED vars

allVars == <<part, vars, capacityVars>>

MCSpec == MCInit /\ [][MCNext]_allVars

(* No fair action of a part can occur in another part.                     *)
MCFairSpec == MCSpec /\ Fairness /\ Capacity!Fairness

-----------------------------------------------------------------------------
ProbesGoOn == part = "capacity" => Capacity!ProbesGoOn
=============================================================================
