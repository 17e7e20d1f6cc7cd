SPECIFICATION RetrySpec
CONSTANTS
  MaxSecrets = 1
  MaxTroubles = 1
  MaxActive = 1
PROPERTIES
  RetryContinues
CHECK_DEADLOCK FALSE
