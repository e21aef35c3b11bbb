SPECIFICATION FieldsSpec
CONSTANTS
  Scalar = {1, 4}
  BitField <- MCBitField
  MaxMembers = 3
  MaxDepth = 2
  LayoutAvoid = {"union", "words", "bytes"}
  MaxFields = 4
  MaxSets = 2
  FieldsAvoid = {"family", "kind", "range", "received"}
INVARIANTS
  TameMatchesC
  FieldsReadBack
CHECK_DEADLOCK FALSE
