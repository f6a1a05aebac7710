SPECIFICATION Spec
CONSTANTS
  Accesses = 3
  Scenarios <- Builtins
INVARIANTS
  ExpectedRequest
CHECK_DEADLOCK FALSE
