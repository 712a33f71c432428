SPECIFICATION Spec
CONSTANTS
  Request = {r1}
  Message <- AllMessages
  None = None
  DefaultKey = DefaultKey
  k1 = k1
  Key = {k1}
  KeyPost = {p1, p2}
  Window = 2
  MaxTime = 6
  MaxRestarts = 1
INVARIANT ValidIsHex
CHECK_DEADLOCK FALSE
