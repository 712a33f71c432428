SPECIFICATION FairSpec
CONSTANTS
  Request = {r1, r2}
  Hex = {h1}
  PoolSize = 2
  None = None
PROPERTY EveryoneIsAnswered
CHECK_DEADLOCK FALSE
