SPECIFICATION MethodSpec
CONSTANTS
  Base = Base
  Derived = Derived
  Other = Other
  run = run
  Class <- MCClass
  Selector <- MCSelector
  Ancestors <- MCAncestors
  Shipped <- MCShipped
  UnknownClass = UnknownClass
  Closure = {k1, k2, k3}
  NoImp = NoImp
  NoClosure = NoClosure
  MaxHooks = 3
INVARIANTS NoDanglingImp
