SPECIFICATION MCSpec
CONSTANTS
  Parts = {"lease", "restore"}
  c1 = c1
  c2 = c2
  q1 = q1
  q2 = q2
  s1 = s1
  s2 = s2
  w1 = w1
  w2 = w2
  reconciler = reconciler
  r1 = r1
  r2 = r2
  a1 = a1
  a2 = a2
  Confirmations = {c1, c2}
  Requests = {q1, q2}
  Snapshots = {s1, s2}
  RepositoryOf <- MCRepositoryOf
  MaxOthers = 2
  Runs = {r1}
  Agents = {a1}
  AgentOf <- OneAgent
  Cancelable = {r1}
  MaxRestarts = 1
  MaxCrashes = 1
  MaxFaults = 1
  None = None
INVARIANTS
  RestoresWhatWasConfirmed
  AtMostOnce
  SuccessIsReal
  RunEndsWithLease
PROPERTIES
  SparesOthers
  DrainSparesLiveWork
CHECK_DEADLOCK FALSE
