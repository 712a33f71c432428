SPECIFICATION Spec
CONSTANTS
  Request = {q1, q2, q3}
  LongKey = {k1, k2}
  ShortKey = {s1}
  Empty = Empty
  None = None
PROPERTY KeyIsWriteOnce
