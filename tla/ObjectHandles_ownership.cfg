SPECIFICATION Spec
CONSTANTS
  Activation = {a1, a2}
  Box = {b1, b2, b3, b4}
  Array = {r1, r2}
  Null = Null
  PoolCapacity = 1
  MaxArgs = 2
  MayForward = FALSE
INVARIANTS HeldOnce LeaksAreKnown
SYMMETRY MCSymmetry
