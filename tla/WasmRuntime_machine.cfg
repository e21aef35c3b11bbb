\* Patches of up to four functions, loaded one over the other, and calls of them, also out of
\* the functions that the bridge exports; pages of 12 lines.
CONSTANTS
  Payload <- Patches
  Exports <- Linkage
  MaxModules = 2
  MaxFrames = 3
  MaxCalls = 2
  Lines = 12
  MaxPages = 16
  Avoid = {"stale", "spoilt", "lost"}
SPECIFICATION Spec
INVARIANTS PagesOwnedOnce MemoryIsCurrent
PROPERTIES CodeStays ImplementsMachine
