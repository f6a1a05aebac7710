SPECIFICATION Spec
CONSTANTS
  Unit = 2
  Word = 128
  PoolSize = 24
  MinQuantas = 4
  First = 5
  Base = 2
  Sizes = {1, 13}
  Aligned <- AlignedCalls
  Arrays <- ArrayCalls
INVARIANTS
  TypeOK
  Tiled
  RefusedWhenFull
PROPERTIES
  KeepsPromise
CHECK_DEADLOCK FALSE
