SPECIFICATION LoweringSpec
CONSTANTS
    Batches = {1, 2}
    Input = x
    InputWidth = 2
    Widths = {1, 2}
    Results = {y, z}
    WeightShapes <- MCWeightShapes
    MaskShapes <- MCMaskShapes
    Menus <- MCMenus
INVARIANTS
    StrictParity
CHECK_DEADLOCK FALSE
