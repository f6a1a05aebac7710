SPECIFICATION Spec
CONSTANTS
  Accesses = 3
  Scenarios <- Mismatches
INVARIANTS
  AbortIsReported
CHECK_DEADLOCK FALSE
