SPECIFICATION MCFairSpec
CONSTANTS
  Parts = {"schedule", "capacity"}
  c1 = c1
  c2 = c2
  MaxSaves = 0
  Repos = {c1, c2}
  OnAgent = {c1}
  Probes <- MCProbes
  MaxProbes = 1
  MaxTroubles = 1
  d1 = d1
  d2 = d2
  p1 = p1
  p2 = p2
  k1 = k1
  k2 = k2
  Dispatchers = {d1}
  Plans = {p1, p2}
  Targets = {k1}
  MaxParallel = 1
  Intervals = {1}
  Window <- WideWindow
  Tolerance = 0
  MaxPerTick = 2
  Horizon = 2
  MaxRestarts = 1
  MaxFaults = 0
  MaxEdits = 0
  None = None
PROPERTIES
  ProbesGoOn
  LaunchesNewest
  OccurrencesEnd
CHECK_DEADLOCK FALSE
