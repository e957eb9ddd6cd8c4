\* Three threads, two permits, every fault of the environment.
CONSTANTS
    Threads = {t1, t2, t3}
    Engines = {e1, e2, e3}
    Capacity = 2
    Faults = {"timeout", "createThrows", "createNull", "destroyThrows", "engineDies"}
    MaxCreated = 3
    None = None
SYMMETRY Symmetry
SPECIFICATION Spec
INVARIANTS TypeOK PermitAccounting EngineBound Exclusive CountCovers
PROPERTY ImplementsLease
CHECK_DEADLOCK FALSE
