SPECIFICATION Spec
CONSTANTS
  Accesses = 3
  Scenarios <- Everything
INVARIANTS
  TypeOK
  EndStateKept
  OneAtATime
  OwnAnswer
  CleanEnd
PROPERTIES
  BothEnd
  RunsInPhases
CHECK_DEADLOCK FALSE
