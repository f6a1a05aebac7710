SPECIFICATION Spec
CONSTANTS
  Op <- FourOps
  Fu = {"alu", "mul", "fun", "gun", "hun", "ram", "own", "dram", "bus", "ctl"}
  NoFu = "nofu"
  FuKind <- FuKinds
  FuRank <- Ranks
  NumberFu <- Numbers
  Proxy = {"p"}
  Clock = 4
  SetupHold = 1
  Chaining = TRUE
  SlowBus = TRUE
  Class <- ClassNames
  ClassInfo <- Classes
  Blocks <- ProxyBlocks
INVARIANT ProxiesExclusive
