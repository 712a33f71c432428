SPECIFICATION Spec
CONSTANTS
  Call = {c1, c2, c3, c4, c5}
  Inner = {}
  Key = {k1, k2}
  Ring = {r1, r2}
  None = None
SYMMETRY Symmetry
INVARIANT MutualExclusion
CHECK_DEADLOCK FALSE
