CONSTANTS
  a = a
  b = b
  c = c
  d = d
  v = v
  None = None
  Id = {a, b}
  MAX = 3
  U64Max = 9
  Value = {v}
  MaxAppend = 2
  Scenarios <- Pairs
SPECIFICATION FairSpec
CHECK_DEADLOCK FALSE
PROPERTIES
  BarrierCommits
  CutOffLeaderSteps
  EveryoneCatchesUp
