\* Callers that misuse nothing, and callers that misuse everything.
CONSTANTS
    Threads = {t1, t2}
    Locks = {l1, l2, l3}
    Misuses <- NoneOrAll
    None = None
SYMMETRY Symmetry
SPECIFICATION Spec
INVARIANTS StatefulExclusion LockTracksMode SlotsHaveGraph InputGuarded
INVARIANTS NoUseAfterFree LocksReleased
