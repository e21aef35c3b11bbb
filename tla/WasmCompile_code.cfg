SPECIFICATION Spec
CONSTANTS
  ArgTypes <- TwoArgs
  VarTypes <- OneVar
  NumConsts = 2
  NumSlots = 14
  ReturnType = "f64"
  ValueTypes = {"i32", "f64"}
  Signatures <- MCSignatures
  Bits = {1}
  Avoid = {"size", "wide", "evict", "unsaved", "mistyped", "halved"}
  MaxLoad = 3
INVARIANTS
  RightOperands
  RightEntries
  RightJoins
  SlotsAreCounted
PROPERTY
  OuterEntriesStay
