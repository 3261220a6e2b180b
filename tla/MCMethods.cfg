CONSTANTS
    Structs <- MCStructs
    Enums <- MCEnums
    Methods <- MCMethods
    Width <- MCWidth
    Fuel = 200
    Lowered <- LowerImperative
    Ends <- Observation
SPECIFICATION Spec
CHECK_DEADLOCK FALSE
INVARIANTS
  LikeRust
  TableAgrees
