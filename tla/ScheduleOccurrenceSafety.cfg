SPECIFICATION MCSpec
CONSTANTS
  Parts = {"schedule", "capacity"}
  c1 = c1
  c2 = c2
  MaxSaves = 1
  Repos = {c1, c2}
  OnAgent = {c1}
  Probes <- MCProbes
  MaxProbes = 1
  MaxTroubles = 1
  d1 = d1
  d2 = d2
  p1 = p1
  p2 = p2
  k1 = k1
  k2 = k2
  Dispatchers = {d1, d2}
  Plans = {p1}
  Targets = {k1, k2}
  MaxParallel = 1
  Intervals = {1, 2}
  Window <- WideWindow
  Tolerance = 0
  MaxPerTick = 1
  Horizon = 2
  MaxRestarts = 1
  MaxFaults = 1
  MaxEdits = 1
  None = None
SYMMETRY Symmetry
INVARIANTS
  MonitorHolds
  NoGaps
  NoOrphans
  AtMostOncePerDue
CHECK_DEADLOCK FALSE
