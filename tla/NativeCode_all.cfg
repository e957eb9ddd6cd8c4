SPECIFICATION MCSpec
CONSTANTS
    Batches = {1, 2}
    Additions <- MCAdditions
    Slots = {0, 1}
    MaxOps = 2
    MaxSteps = 2
    Input = x
    InputWidth = 2
    Widths = {1, 2}
    Results = {y, z}
    WeightShapes <- MCWeightShapes
    MaskShapes <- MCMaskShapes
    Menus <- MCMenus
    Sides = {1, 2}
    MaxFilters = 2
    OnnxThreads = {t1, t2}
    MaxSessions = 2
    Solvers = {t1, t2}
    Problems <- MCProblems
    MaxPlans = 2
    Nobody = nobody
SYMMETRY MCSymmetry
INVARIANTS
    OptimizerKeysLive KeptRunIsCurrent AdamCountsEveryStep
    PlanComputesModel ResultComplete JaxAgrees
    ResultAsDeclared
    EnvBeforeSession OrtReleases
    PetscCallsSerialized PetscReleases ConvexProblemsMinimised
CHECK_DEADLOCK FALSE
