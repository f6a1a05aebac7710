SPECIFICATION Spec
CONSTANTS
  Benches <- MCBenches
  Calls = 2
  MaxCycles = 6
  Writes = 2
INVARIANTS
  TypeOK
  ShownIsTrue
  ReadInOrder
  CleanStart
  MapsExactly
  ArgumentsHold
PROPERTIES
  RunsInPhases
