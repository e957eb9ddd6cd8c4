\* A closure that registers an object while freeze() realizes the others.
CONSTANTS
    Containers = {Matrix, Space}
    Names = {x, y}
    Programs <- RegisteringWhileFrozen
    MaxProviders = 2
    MaxActions = 2
    MaxDepth = 5
SPECIFICATION Spec
INVARIANT FreezeRealizesAll
CHECK_DEADLOCK FALSE
