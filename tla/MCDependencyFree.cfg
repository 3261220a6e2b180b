SPECIFICATION Spec
CONSTANTS
    Root = "root"
    Scenarios <- MCScenarios
CHECK_DEADLOCK FALSE
INVARIANT DependencyFree
