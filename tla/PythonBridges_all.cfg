\* Both bridges; calls may wait for ever behind the GIL, so the system may stop.
CONSTANTS
    Threads = {t1, t2, t3}
    Bridges = {jax, opencv}
    Serialised = {opencv}
    None = None
SPECIFICATION FairSpec
INVARIANTS ParkedGil OneExecution OutsidersOnly StuckBehindInitialiser
PROPERTIES InitialiserReturns
CHECK_DEADLOCK FALSE
