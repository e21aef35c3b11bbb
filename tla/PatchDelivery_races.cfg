SPECIFICATION FairSpec
CONSTANTS
  p = p
  pWasm = pWasm
  q = q
  good = good
  old = old
  text = text
  a = a
  b = b
  Task = {a, b}
  Name <- MCName
  CachedPath <- MCCachedPath
  Bundled <- MCBundled
  Content = {good, old, text}
  Policy <- MCPolicy
  Signed = {good, text}
  Request <- MCRequest
  NoName = NoName
  NoContent = NoContent
  NoHash = NoHash
  NoRequest = NoRequest
INVARIANTS LoadedAsPinned OneCompletion
PROPERTIES ImplementsCache FetchCompletes
