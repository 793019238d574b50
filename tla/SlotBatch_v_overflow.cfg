SPECIFICATION Spec
CONSTANTS
    NSlots = 2
    NBatch = 2
    NCtx = 5
    Cells = 10
    MaxDraft = 1
    ClearIdle = TRUE
    CanFork = FALSE
    CanFail = FALSE
INVARIANT
    BatchFits
CHECK_DEADLOCK FALSE
