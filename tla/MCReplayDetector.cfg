SPECIFICATION FairSpec
CONSTANTS
  Call = {c1, c2, c3}
  Thing = {x1, x2}
  Wrapper = {w1, w2, w3}
  Window = 1
  None = None
INVARIANTS
  IInv
  NoTwoNewInWindow
  EntriesAreOwed
PROPERTIES
  ImplementsSlidingWindow
  CallsReturn
  EventuallyForgotten
