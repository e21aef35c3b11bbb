SPECIFICATION Spec
CONSTANTS
  Arch = {"arm64", "x86_64"}
  Arguments <- MCArguments
  Results <- MCResults
  XRegs = 8
  VRegs = 8
  MaxGPR = 6
  MaxSSE = 8
  MaxStack = 9
  Avoid = {"split", "packed", "reference", "straddle", "overrun"}
INVARIANTS CallMatchesCompiler ClosureMatchesCompiler ArgumentsFit
CHECK_DEADLOCK FALSE
