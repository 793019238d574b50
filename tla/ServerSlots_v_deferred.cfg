SPECIFICATION Spec
CONSTANTS
    r1 = r1
    r2 = r2
    r3 = r3
    Requests = {r1, r2, r3}
    Shapes <- WithAction
    MaxTasks = 1
    NSlots = 1
    NPredict = 1
    NCtx = 3
    CanCancel = FALSE
    CanFail = FALSE
INVARIANTS
    NothingDeferredWhenIdle
CHECK_DEADLOCK FALSE
