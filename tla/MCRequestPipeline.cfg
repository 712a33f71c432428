SPECIFICATION Spec
CONSTANTS
  Request = {r1, r2}
  Message <- HexMessages
  None = None
  DefaultKey = DefaultKey
  k1 = k1
  Key = {k1}
  KeyPost = {p1, p2}
  Window = 2
  MaxTime = 5
  MaxRestarts = 1
SYMMETRY Symmetry
INVARIANTS
  IInv
  AcceptedOnce
  SignedResponseVerifies
  AcknowledgedIsCommitted
  UnrepeatedIsValid
CHECK_DEADLOCK FALSE
