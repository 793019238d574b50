SPECIFICATION FairSpec
CONSTANTS
    r1 = r1
    r2 = r2
    r3 = r3
    Requests = {r1, r2}
    Shapes <- CancelShapes
    MaxTasks = 1
    NSlots = 2
    NPredict = 2
    NCtx = 3
    CanCancel = TRUE
    CanFail = FALSE
PROPERTIES
    SlotsAreFreed
CHECK_DEADLOCK FALSE
