SPECIFICATION MCSpec
SYMMETRY Symmetry
CONSTANTS
  r1 = r1
  r2 = r2
  m1 = m1
  c1 = c1
  e1 = e1
  None = None
  Runs = {r1, r2}
  AgentRuns = {}
  Maintainers = {m1}
  Connectors = {c1}
  Editors = {}
  MaxSnapshots = 4
  MaxAttempts = 2
  MaxRestarts = 2
CHECK_DEADLOCK FALSE
INVARIANTS
  PartialsAccounted
  LocalPartialsKept
