SPECIFICATION StandbySpec
CONSTANTS
  Failures = 1
  Recover = 1
  LocalFailures = 1
  Stay = FALSE
INVARIANTS
  NotOrphaned
CHECK_DEADLOCK FALSE
