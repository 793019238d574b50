SPECIFICATION FairSpec
CONSTANTS
    r1 = r1
    r2 = r2
    r3 = r3
    Requests = {r1, r2}
    Shapes <- GoodShapes
    MaxTasks = 2
    NSlots = 2
    NPredict = 2
    NCtx = 3
    CanCancel = FALSE
    CanFail = TRUE
INVARIANTS
    NobodyIsStranded
PROPERTIES
    AllAnswered
    ReleasePrioritizesSlot
CHECK_DEADLOCK FALSE
