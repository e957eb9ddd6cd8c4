\* Closures that call back into the containers, and register objects or not.
CONSTANTS
    Containers = {Matrix, Space}
    Names = {x, y}
    Programs <- AllPrograms
    MaxProviders = 2
    MaxActions = 2
    MaxDepth = 5
SPECIFICATION Spec
INVARIANTS RealizingIsRunning AppliedInOrder ConfigureEachReachesAll AllReachesAll
INVARIANT FrozenIsRealized
CHECK_DEADLOCK FALSE
