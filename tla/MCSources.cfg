SPECIFICATION MCSpec
CONSTANTS
    None = None
    thm = thm
    MaxDepth = 2
    Crates <- AllCrates
    Versions <- MCVersions
    Configurations <- MCConfigurations
    Theorems = {thm}
    Inventoried <- Collect
    RustcLists <- Listed
    Loaded <- MCLoaded
    RustcKeeps <- Compiled
    Observed <- MCObserved
CHECK_DEADLOCK FALSE
INVARIANTS
  ListsLikeRustc
  AccountsForSource
  LoadsLikeRustc
  ResolvesLikeRust
  Faithful
  LeanAgrees
