SPECIFICATION Spec
CONSTANTS
    r1 = r1
    r2 = r2
    r3 = r3
    Requests = {r1, r2, r3}
    Shapes <- HeadOfLine
    MaxTasks = 2
    NSlots = 2
    NPredict = 1
    NCtx = 3
    CanCancel = FALSE
    CanFail = FALSE
INVARIANTS
    DeferredUntilSlotAvailable
CHECK_DEADLOCK FALSE
