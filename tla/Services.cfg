SPECIFICATION MCSpec
CONSTANTS
  o1 = o1
  o2 = o2
  o3 = o3
  key = key
  NoKey = NoKey
  Free = Free
  Reserved = Reserved
  Operations = {o1, o2, o3}
  Keys = {key}
  KeyOf <- MCKeyOf
  MaxFaults = 1
  MaxRestarts = 1
  MaxUpdates = 2
  MaxVersion = 3
  MaxWrites = 2
  MaxRuns = 3
  MaxTroubles = 2
  Agents = {"a", "b"}
  Hosts = {"h", "i"}
  MaxDeployments = 2
INVARIANTS
  KeysAndRowsAgree
  InstallRestores
  MigrationIsAtomic
  UpgradeKeeps
PROPERTIES
  KeyIsFreed
  UpdateIsHonest
CHECK_DEADLOCK FALSE
