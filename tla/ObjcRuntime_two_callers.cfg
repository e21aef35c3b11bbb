SPECIFICATION Spec
CONSTANTS
  Host = Host
  run = run
  t1 = t1
  t2 = t2
  Class <- MCClass
  Selector <- MCSelector
  Ancestors <- MCAncestors
  Shipped <- MCShipped
  UnknownClass = UnknownClass
  Closure = {k1}
  NoImp = NoImp
  NoClosure = NoClosure
  MaxHooks = 1
  Thread = {t1, t2}
  Loader = {t1}
  NoThread = NoThread
  NoRequest = NoRequest
  Block = {}
  Payload = {"valid"}
  Policy <- MCRecommended
  NoPolicy = NoPolicy
  MayReenter = FALSE
  HooksLater = FALSE
  ResetOnError = FALSE
INVARIANTS InterpreterSerialized
