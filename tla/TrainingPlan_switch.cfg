\* setTraining while an execution is running.
CONSTANTS
    Threads = {t1, t2, t3}
    Locks = {l1, l2, l3, l4}
    Misuses <- SwitchWhileBusy
    None = None
SYMMETRY Symmetry
SPECIFICATION Spec
INVARIANT ExecutionsSerialise
