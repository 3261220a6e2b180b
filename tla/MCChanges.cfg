CONSTANTS
  a = a
  b = b
  c = c
  d = d
  v = v
  None = None
  Id = {a, b, c, d}
  MAX = 3
  U64Max = 9
  Value = {v}
  MaxAppend = 2
  Scenarios <- Changes
SPECIFICATION Spec
VIEW View
CHECK_DEADLOCK FALSE
INVARIANTS
  RaftSafety
  MatchedIsDurable
  AcksReachTheirLeader
  CachedMembership
  RemovedLeaderSteps
  ChangesInTurn
PROPERTIES
  ImplementsReplicatedLog
