SPECIFICATION ClosuresSpec
CONSTANTS
  Base = Base
  Derived = Derived
  Other = Other
  run = run
  Class <- MCClass
  Selector <- MCSelector
  Ancestors <- MCAncestors
  Shipped <- MCShipped
  UnknownClass = UnknownClass
  Closure = {k1, k2, k3, k4}
  NoImp = NoImp
  NoClosure = NoClosure
  MaxHooks = 3
  MaxBlocks = 2
  TrampolineCount = 2
  MaxTables = 3
  PageSize = 32
  MinLarge = 16
  TrimThreshold = 41
  MaxPages = 4
  MaxFile = 3
  IntelTargets <- MCIntelTargets
INVARIANTS TypeOK ClosuresOwned NoDanglingImp ResetRestores TrampolinesOwnedOnce ChunksOwnedOnce
SYMMETRY MCSymmetry
