SPECIFICATION Spec
CONSTANTS
  Host = Host
  run = run
  t1 = t1
  t2 = t2
  Class <- MCClass
  Selector <- MCSelector
  Ancestors <- MCAncestors
  Shipped <- MCShipped
  UnknownClass = UnknownClass
  Closure = {k1}
  NoImp = NoImp
  NoClosure = NoClosure
  MaxHooks = 1
  Thread = {t1, t2}
  Loader = {t1, t2}
  NoThread = NoThread
  NoRequest = NoRequest
  Block = {b1}
  Payload = {"unreadable", "rejected", "noEntry", "valid"}
  Policy <- MCPolicies
  NoPolicy = NoPolicy
  MayReenter = TRUE
  HooksLater = TRUE
  ResetOnError = FALSE
INVARIANTS LockExcludes LoadedIsActive
PROPERTIES StrictAcceptsAll
SYMMETRY MCSymmetry
CHECK_DEADLOCK FALSE
