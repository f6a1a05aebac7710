SPECIFICATION Spec
CONSTANTS
  Unit = 2
  Word = 64
  PoolSize = 16
  MinQuantas = 3
  First = 5
  Base = 2
  Sizes = {0, 2}
  Aligned <- CutCalls
  Arrays = {}
INVARIANTS
  Tiled
CHECK_DEADLOCK FALSE
