SPECIFICATION FairSpec
CONSTANTS
  Call = {c1, c2, c3}
  Inner = {c1, c2, c3}
  Key = {k1, k2}
  Ring = {r1, r2}
  None = None
INVARIANTS
  IInv
  LocksUnlessRaced
  KeysDoNotShareRings
  HatsAreConserved
PROPERTIES
  ImplementsKeyLocks
  CallsReturn
CHECK_DEADLOCK FALSE
