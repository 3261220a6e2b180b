SPECIFICATION FairSpec
CONSTANTS
    Threads = {"t1", "t2"}
    Scenarios <- MCScenarios
CHECK_DEADLOCK FALSE
INVARIANTS
  CertificatesTrue
  NoFalseSuccess
PROPERTIES
  Terminates
