\* One engine returned while the pool is closed.
CONSTANTS
    Threads = {t1, t2}
    Engines = {e1, e2}
    Capacity = 1
    Faults = {}
    MaxCreated = 0
    None = None
SPECIFICATION Spec
INVARIANT ShutdownLeavesNoEngine
CHECK_DEADLOCK FALSE
