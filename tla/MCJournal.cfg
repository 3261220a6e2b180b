CONSTANTS
  None = None
  U64Max = 9
  Cap = 2
  MaxTerm = 2
  Data = {0}
  Scenarios <- Journals
SPECIFICATION FairSpec
CHECK_DEADLOCK FALSE
INVARIANTS
  Recoverable
PROPERTIES
  NothingLost
  SaveAnswered
