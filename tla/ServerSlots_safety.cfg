SPECIFICATION Spec
CONSTANTS
    r1 = r1
    r2 = r2
    r3 = r3
    Requests = {r1, r2}
    Shapes <- AllShapes
    MaxTasks = 2
    NSlots = 2
    NPredict = 2
    NCtx = 3
    CanCancel = TRUE
    CanFail = TRUE
INVARIANTS
    TasksAccounted
PROPERTIES
    NoResultAfterLeaving
    ImplementsTaskService
SYMMETRY RequestSymmetry
CHECK_DEADLOCK FALSE
