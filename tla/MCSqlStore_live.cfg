SPECIFICATION FairSpec
CONSTANTS
  Request = {r1, r2, r3}
  Hex = {h1}
  PoolSize = 2
  None = None
PROPERTY OthersAreAnswered
CHECK_DEADLOCK FALSE
