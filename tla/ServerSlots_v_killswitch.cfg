SPECIFICATION Spec
CONSTANTS
    r1 = r1
    r2 = r2
    r3 = r3
    Requests = {r1}
    Shapes <- LongParent
    MaxTasks = 2
    NSlots = 2
    NPredict = 2
    NCtx = 3
    CanCancel = FALSE
    CanFail = FALSE
INVARIANTS
    NoKillSwitch
CHECK_DEADLOCK FALSE
