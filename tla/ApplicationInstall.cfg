SPECIFICATION Spec
INVARIANTS
  LegacyRestored
CHECK_DEADLOCK FALSE
