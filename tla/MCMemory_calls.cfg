SPECIFICATION Spec
CONSTANTS
  Fun <- MCFun
  Var <- MCVar
  Programs <- MCPrograms
  Symbol <- MCSymbol
  Scope <- MCFun
  Sizes = {3, 5}
  Alignments = {1, 2, 4, 8}
  Settings <- MCSettings
INVARIANTS
  DominatorsRight
  ServedFromAbove
  OneCopy
  Disjoint
PROPERTIES
  MemoryObeyed
