------------------------- MODULE RepositoryCapacity -------------------------
(***************************************************************************)
(* Monitoring of the capacity of repositories: capacitymonitor.Dispatcher  *)
(* claims the repositories that are due and probes them, a finished run    *)
(* and the administrator start probes of their own, and every probe writes *)
(* its outcome to the policy row of its repository.  The capacity of a     *)
(* repository on an Agent is asked of the Agent through a request it has   *)
(* to fetch; the service waits for the answer as long as it takes.         *)
(*                                                                         *)
(* Times are kept as what the code compares: whether next_probe_at has     *)
(* come, in which order, whether a claim holds, and which of two probes    *)
(* has looked at the clock first.                                          *)
(***************************************************************************)
EXTENDS Naturals, FiniteSets, Sequences

CONSTANTS
  Repos,         \* those that are not on S3, whose policies may be enabled
  OnAgent,       \* repositories on an Agent
  Probes,        \* <<kind, repository>>: which probes may be started
  MaxParallel,   \* Dispatcher.maxParallel
  MaxSaves,      \* bound on changes of policies and repositories, for TLC
  MaxTroubles    \* bound on restarts and on failing statements, for TLC

VARIABLES
  enabled,    \* policies that are enabled
  planned,    \* repositories with a next_probe_at
  revived,    \* history: enabled by a start, and neither saved nor probed since
  queue,      \* those whose next_probe_at has come, in its order
  claim,      \* claim_until: "none", "new", "held" past a tick, or "lapsed"
  connected,  \* repositories whose status lets them be probed
  reachable,  \* the Agent is online, supports probes and is not draining
  active,     \* Dispatcher.active
  at,         \* where each probe is
  order,      \* probes that have looked at the clock, in that order
  behind,     \* those whose time is before that of a sample already saved
  shown,      \* repository_capacities: "none", "newest" or "older"
  saves, troubles

vars == <<enabled, planned, revived, queue, claim, connected, reachable, active, at, order,
          behind, shown, saves, troubles>>

rows  == <<enabled, planned, revived, queue, claim>>
world == <<connected, reachable, saves, troubles>>
times == <<order, behind, shown>>

RepoOf(p) == p[2]

Init ==
  /\ enabled = Repos /\ planned = Repos /\ revived = {}
  /\ queue = << >> /\ claim = [r \in Repos |-> "none"]
  /\ connected = {} /\ reachable = TRUE /\ active = {}
  /\ at = [p \in Probes |-> "idle"]
  /\ order = << >> /\ behind = {} /\ shown = [r \in Repos |-> "none"]
  /\ saves = 0 /\ troubles = 0

InQueue(r)   == \E i \in DOMAIN queue : queue[i] = r
Without(q, x) == SelectSeq(q, LAMBDA y : y # x)
Go(p, s)     == at' = [at EXCEPT ![p] = s]

-----------------------------------------------------------------------------
(* Time, and what the administrator does.                                  *)

Elapse(r) ==
  /\ r \in planned /\ ~InQueue(r) /\ queue' = Append(queue, r)
  /\ UNCHANGED <<enabled, planned, revived, claim, active, at, times, world>>

(* Claims outlast many ticks.                                              *)
Lapse(r) ==
  /\ claim[r] = "held" /\ claim' = [claim EXCEPT ![r] = "lapsed"]
  /\ UNCHANGED <<enabled, planned, revived, queue, active, at, times, world>>

(* SaveRepositoryCapacityPolicy: a policy that is enabled anew is due at   *)
(* once, another one an interval after its last attempt.                   *)
Enable(r) ==
  /\ saves < MaxSaves /\ saves' = saves + 1
  /\ enabled' = enabled \cup {r} /\ planned' = planned \cup {r} /\ revived' = revived \ {r}
  /\ \/ queue' = Append(Without(queue, r), r)
     \/ r \in enabled /\ queue' \in {Without(queue, r), <<r>> \o Without(queue, r)}
  /\ UNCHANGED <<claim, connected, reachable, troubles, active, at, times>>

Disable(r) ==
  /\ saves < MaxSaves /\ saves' = saves + 1
  /\ enabled' = enabled \ {r} /\ planned' = planned \ {r} /\ revived' = revived \ {r}
  /\ queue' = Without(queue, r) /\ claim' = [claim EXCEPT ![r] = "none"]
  /\ UNCHANGED <<connected, reachable, troubles, active, at, times>>

(* initializeRepository, verifyExistingRepository.                         *)
Connect(r) ==
  /\ r \notin connected /\ connected' = connected \cup {r}
  /\ UNCHANGED <<rows, reachable, saves, troubles, active, at, times>>

AgentChanges ==
  /\ reachable' = ~reachable
  /\ UNCHANGED <<rows, connected, saves, troubles, active, at, times>>

-----------------------------------------------------------------------------
(* Dispatcher.Tick and ClaimDueRepositoryCapacityPolicies.                 *)

Claimable(r) ==
  /\ r \in enabled \cap connected /\ InQueue(r)
  /\ claim[r] \in {"none", "lapsed"}

Free == MaxParallel - Cardinality(active)

Ahead_Behind(r, s) == \E i, j \in DOMAIN queue : queue[i] = r /\ queue[j] = s /\ j < i
                                          \* mutant: the order is turned round
Ahead(r, s) == \E i, j \in DOMAIN queue : queue[i] = r /\ queue[j] = s /\ i < j

Due == {r \in Repos : Claimable(r)}

(* ORDER BY next_probe_at LIMIT: the first, as many as there is room for.  *)
FirstDue(claimed) ==
  /\ Cardinality(claimed) = IF Cardinality(Due) < Free THEN Cardinality(Due) ELSE Free
  /\ \A r \in claimed, s \in Due \ claimed : Ahead(r, s)

Dispatched(r) == <<"dispatcher", r>>

(* A repository that is still being probed is claimed and passed over.     *)
Tick ==
  \E claimed \in SUBSET Due :
    /\ FirstDue(claimed)
    /\ claimed # {} \/ \E r \in Repos : claim[r] = "new"
    /\ claim' = [r \in Repos |-> IF r \in claimed THEN "new"
                                 ELSE IF claim[r] = "new" THEN "held" ELSE claim[r]]
    /\ active' = active \cup claimed
    /\ at' = [p \in Probes |-> IF p \in {Dispatched(r) : r \in claimed \ active}
                               THEN "probing" ELSE at[p]]
    /\ UNCHANGED <<enabled, planned, revived, queue, times, world>>

Supported(r) == r \notin OnAgent \/ reachable

(* RunObserver.ObserveRun after a run, if the policy is enabled, and the   *)
(* handler that starts an operation, if the repository is supported.       *)
Start(r) ==
  /\ <<"other", r>> \in Probes /\ at[<<"other", r>>] = "idle"
  /\ r \in enabled \/ Supported(r)
  /\ Go(<<"other", r>>, "probing")
  /\ UNCHANGED <<rows, active, times, world>>

-----------------------------------------------------------------------------
(* Service.Probe.                                                          *)

Stamp(p) == Go(p, "measured") /\ order' = Append(order, p)

Measure(p) ==
  /\ at[p] = "probing" /\ RepoOf(p) \notin OnAgent
  /\ \/ Stamp(p)
     \/ Go(p, "failing") /\ order' = order
  /\ UNCHANGED <<rows, active, behind, shown, world>>

(* An unsupported probe is deferred by the dispatcher and dropped by the   *)
(* observer; asked for by hand, or of the Agent of a task, it fails.       *)
AfterRefusal(kind) ==
  {"failing", IF kind = "dispatcher" THEN "deferring" ELSE "idle"}

Unsupported(p) ==
  /\ at[p] = "probing" /\ ~Supported(RepoOf(p))
  /\ \E next \in AfterRefusal(p[1]) : Go(p, next)
  /\ UNCHANGED <<rows, active, times, world>>

(* CreateAgentFilesystemRequest.                                           *)
Ask(p) ==
  /\ at[p] = "probing" /\ RepoOf(p) \in OnAgent /\ reachable
  /\ Go(p, "queued")
  /\ UNCHANGED <<rows, active, times, world>>

Fetch(p) ==
  /\ at[p] = "queued" /\ reachable /\ Go(p, "running")
  /\ UNCHANGED <<rows, active, times, world>>

Answer(p) ==
  /\ at[p] = "running"
  /\ \/ Stamp(p)
     \/ Go(p, "failing") /\ order' = order
  /\ UNCHANGED <<rows, active, behind, shown, world>>

(* A request that is not fetched in two minutes is not given out any more, *)
(* and an Agent that dies does not come back to one it has fetched.        *)
Lose(p) ==
  /\ at[p] \in {"queued", "running"} /\ Go(p, "lost")
  /\ UNCHANGED <<rows, active, times, world>>

(* A request created a day later removes the row, which ends the wait.     *)
Forget(p) ==
  /\ at[p] = "lost" /\ Go(p, "failing")
  /\ UNCHANGED <<rows, active, times, world>>

-----------------------------------------------------------------------------
(* The outcome.  Whatever it is, the claim ends and the next probe is      *)
(* planned an interval later, if the policy is enabled by then.            *)

Replan(r) ==
  /\ planned' = IF r \in enabled THEN planned \cup {r} ELSE planned \ {r}
  /\ queue' = Without(queue, r) /\ claim' = [claim EXCEPT ![r] = "none"]
  /\ enabled' = enabled /\ revived' = revived \ {r}

Return(p) == Go(p, IF p[1] = "dispatcher" THEN "leaving" ELSE "idle")

Replaces_Always(p) == TRUE   \* mutant: the times are not compared
Replaces(p) == p \notin behind

Earlier(p) == {order[i] : i \in {j \in DOMAIN order :
                 RepoOf(order[j]) = RepoOf(p) /\ \E k \in DOMAIN order : order[k] = p /\ j < k}}

SaveCapacity(p) ==
  /\ at[p] = "measured" /\ Return(p) /\ Replan(RepoOf(p))
  /\ shown' = [shown EXCEPT ![RepoOf(p)] =
       IF ~Replaces(p) THEN @ ELSE IF p \in behind THEN "older" ELSE "newest"]
  /\ behind' = (behind \cup Earlier(p)) \ {p} /\ order' = Without(order, p)
  /\ UNCHANGED <<active, world>>

RecordFailure(p) ==
  /\ at[p] = "failing" /\ Return(p) /\ Replan(RepoOf(p))
  /\ UNCHANGED <<active, times, world>>

Defer(p) ==
  /\ at[p] = "deferring" /\ Return(p) /\ Replan(RepoOf(p))
  /\ UNCHANGED <<active, times, world>>

(* The statement fails: the claim of the dispatcher has to lapse.          *)
NotRecorded(p) ==
  /\ troubles < MaxTroubles /\ troubles' = troubles + 1
  /\ at[p] \in {"failing", "deferring"} /\ Return(p)
  /\ UNCHANGED <<rows, active, times, connected, reachable, saves>>

Leave(p) ==
  /\ at[p] = "leaving" /\ Go(p, "idle") /\ active' = active \ {RepoOf(p)}
  /\ UNCHANGED <<rows, times, world>>

(* ensureRepositoryCapacityPersistence enables every policy at each start, *)
(* and leaves next_probe_at as it was: empty, where the policy was not     *)
(* enabled.                                                                *)
EnableAll ==
  /\ enabled' = Repos /\ revived' = revived \cup (Repos \ enabled)
  /\ UNCHANGED <<planned, queue, claim>>

Restart ==
  /\ troubles < MaxTroubles /\ troubles' = troubles + 1
  /\ EnableAll
  /\ active' = {} /\ at' = [p \in Probes |-> "idle"] /\ order' = << >> /\ behind' = {}
  /\ UNCHANGED <<connected, reachable, saves, shown>>

-----------------------------------------------------------------------------
Next ==
  \/ \E r \in Repos : Elapse(r) \/ Lapse(r) \/ Enable(r) \/ Disable(r)
                      \/ Connect(r) \/ Start(r)
  \/ AgentChanges \/ Tick \/ Restart
  \/ \E p \in Probes : \/ Measure(p) \/ Unsupported(p) \/ Ask(p) \/ Fetch(p)
                       \/ Answer(p) \/ Lose(p) \/ Forget(p) \/ SaveCapacity(p)
                       \/ RecordFailure(p) \/ Defer(p) \/ NotRecorded(p) \/ Leave(p)

(* The dispatcher ticks, its goroutines run, and times come.               *)
Works(p) ==
  Measure(p) \/ Unsupported(p) \/ Ask(p) \/ SaveCapacity(p) \/ RecordFailure(p)
    \/ Defer(p) \/ Leave(p)

Fairness ==
  /\ WF_vars(Tick)
  /\ \A r \in Repos : WF_vars(Elapse(r)) /\ WF_vars(Lapse(r))
  /\ \A p \in Probes : WF_vars(Works(p))

Spec == Init /\ [][Next]_vars /\ Fairness

-----------------------------------------------------------------------------
(* dispatcher.go:69, repository_capacity.go:149: a policy that is enabled  *)
(* keeps a time for its next probe however saves, claims and outcomes      *)
(* overlap, except one that a start has enabled, which has none until it   *)
(* is saved or a probe of another kind ends; the dispatcher never probes   *)
(* more repositories than it may, and forgets none of them; and of         *)
(* overlapping probes the one that ends last does not replace a capacity   *)
(* measured after its own.                                                 *)
MonitorHolds ==
  /\ planned \subseteq enabled /\ enabled \ planned \subseteq revived
  /\ Cardinality(active) <= MaxParallel
  /\ active = {r \in Repos : Dispatched(r) \in Probes /\ at[Dispatched(r)] # "idle"}
  /\ \A r \in Repos : shown[r] # "older"

(* dispatcher.go:66: as long as the Agents that are asked answer, every    *)
(* repository that is due is probed, also behind a slow one.               *)
Waits(p) == at[p] \in {"queued", "running", "lost"}
AgentsAnswer == \A p \in Probes : []<>~Waits(p)

Owed(r) == r \in enabled \cap connected /\ InQueue(r) /\ at[Dispatched(r)] = "idle"

ProbesGoOn == AgentsAnswer => \A r \in Repos : Owed(r) ~> ~Owed(r)
=============================================================================
