\* Three threads over one permit, no timeout: a waiter relies on the queue.
CONSTANTS
    Threads = {t1, t2, t3}
    Engines = {e1, e2}
    Capacity = 1
    Faults = {"createThrows"}
    MaxCreated = 0
    None = None
SPECIFICATION FairSpec
PROPERTY NoStarvation
CHECK_DEADLOCK FALSE
