SPECIFICATION Spec
CONSTANTS
  Request = {r1, r2, r3}
  Hex = {h1, h2}
  PoolSize = 2
  None = None
SYMMETRY Symmetry
INVARIANTS
  IInv
  LocationsBelong
  NoIdentifierAlone
  ReadsAcknowledged
  LeavesNothingOpen
  ReportedIsRecorded
CHECK_DEADLOCK FALSE
