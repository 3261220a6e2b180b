CONSTANTS
  a = a
  b = b
  c = c
  d = d
  v = v
  None = None
  Id = {a, b, c}
  MAX = 3
  U64Max = 4
  Value = {v}
  MaxAppend = 2
  Scenarios <- FixedStorage
SPECIFICATION Spec
VIEW View
CHECK_DEADLOCK FALSE
INVARIANTS
  TypeOK
  Durability
  Drainable
PROPERTIES
  ImplementsElection
  ImplementsReplicatedLog
