\* Every kind of plan, closed by any thread or by one of them.
CONSTANTS
    Threads = {t1, t2, t3, t4}
    Plans <- CompiledPlans
    None = None
SPECIFICATION FairSpec
INVARIANTS NoUseAfterFree DestroyedOnce NothingLeaks
PROPERTIES ImplementsContract CloseReturns
