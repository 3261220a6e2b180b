CONSTANTS
  a = a
  b = b
  c = c
  d = d
  None = None
  Id = {a, b, c, d}
  MAX = 3
  Lists <- ShortLists
  Positions = {0, 1, 2}
  Config <- ThreeVoters
  Term = {0, 1}
SPECIFICATION MCSpec
SYMMETRY Exchanges
CHECK_DEADLOCK FALSE
INVARIANTS
  TypeOK
  AtMostOneLeader
  Consistent
  CommitIndexIsQuorum
PROPERTIES
  ChangesOverlap
