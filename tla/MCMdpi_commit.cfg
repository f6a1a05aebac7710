SPECIFICATION Spec
CONSTANTS
  Accesses = 3
  Scenarios <- Exits
INVARIANTS
  LegalCommit
CHECK_DEADLOCK FALSE
