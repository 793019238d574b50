SPECIFICATION Spec
CONSTANTS
    r1 = r1
    r2 = r2
    r3 = r3
    Requests = {r1, r2}
    Shapes <- ParentOrOne
    MaxTasks = 2
    NSlots = 2
    NPredict = 1
    NCtx = 3
    CanCancel = TRUE
    CanFail = FALSE
INVARIANTS
    NoKillSwitch
SYMMETRY RequestSymmetry
CHECK_DEADLOCK FALSE
