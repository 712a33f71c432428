SPECIFICATION Spec
CONSTANTS
  Character <- Characters
  Path <- Paths
  InvalidCharacters <- Invalid
  Code <- Codes
  PartialHash <- Hash
  HashLength = 1
  MaxLength = 6
  Fold <- Lower
  Thread = {t1, t2}
  Name <- Names
  Value = {v1}
  Empty = Empty
  None = None
INVARIANTS
  IInv
  ThreadSafe
  FileNames
PROPERTIES
  GetOrAddKeeps
  GetsWhatWasStored
