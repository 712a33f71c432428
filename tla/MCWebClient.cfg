SPECIFICATION FairSpec
CONSTANTS
  Base = 2
  FloatSize = 2
  Call = {c1, c2}
  ID <- IDs
  Salt <- Salts
  Time <- Times
  Location <- Locations
  Asked <- Queries
  KeyPost = {p1}
  Key = {k1}
  DefaultKey = DefaultKey
  None = None
  MaxFailures = 1
INVARIANTS
  IInv
  ShownIsRecorded
  NoFalseRefusal
PROPERTIES
  NewerCredentials
  StuckOnlyByFailure
