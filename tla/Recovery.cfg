SPECIFICATION MCSpec
CONSTANTS
  Attempts = {v1, v2}
  MaxSnapshot = 2
  MaxRestarts = 2
  MaxSecrets = 3
  MaxTroubles = 1
  MaxActive = 2
  MaxIssued = 4
  MaxBundles = 1
  MaxImports = 2
  Handlers = {h1, h2}
  Passphrases = {"old", "new"}
  MaxKeys = 2
  MaxMishaps = 2
INVARIANTS
  PasswordsSurvive
  LeftoversAreRecorded
  BundleIsOneMoment
  ImportIsWhole
  VaultHolds
PROPERTIES
  RevocationRepeats
CHECK_DEADLOCK FALSE
