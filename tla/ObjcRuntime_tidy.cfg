SPECIFICATION FairSpec
CONSTANTS
  Host = Host
  run = run
  t1 = t1
  t2 = t2
  Class <- MCClass
  Selector <- MCSelector
  Ancestors <- MCAncestors
  Shipped <- MCShipped
  UnknownClass = UnknownClass
  Closure = {k1, k2}
  NoImp = NoImp
  NoClosure = NoClosure
  MaxHooks = 3
  Thread = {t1, t2}
  Loader = {t1}
  NoThread = NoThread
  NoRequest = NoRequest
  Block = {b1}
  Payload = {"empty", "unreadable", "rejected", "unparsable", "noEntry", "valid"}
  Policy <- MCOptions
  NoPolicy = NoPolicy
  MayReenter = FALSE
  HooksLater = FALSE
  ResetOnError = TRUE
INVARIANTS LatestHookWins NoRuntimeNoPatch ResetFirst ReloadIsAllowed
PROPERTIES LockReleased OnlyResetFrees
