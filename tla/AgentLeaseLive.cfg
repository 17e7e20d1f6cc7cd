SPECIFICATION MCFairSpec
CONSTANTS
  Parts = {"lease", "alerts"}
  c1 = c1
  c2 = c2
  q1 = q1
  q2 = q2
  s1 = s1
  s2 = s2
  w1 = w1
  w2 = w2
  reconciler = reconciler
  r1 = r1
  r2 = r2
  a1 = a1
  a2 = a2
  Confirmations = {c1, c2}
  Requests = {q1, q2}
  Snapshots = {s1, s2}
  RepositoryOf <- MCRepositoryOf
  MaxOthers = 2
  Runs = {r1}
  Agents = {a1}
  AgentOf <- OneAgent
  Cancelable = {}
  MaxRestarts = 1
  MaxCrashes = 1
  MaxFaults = 0
  None = None
PROPERTIES
  AlertsConverge
  LeasesEnd
CHECK_DEADLOCK FALSE
