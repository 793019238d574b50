SPECIFICATION Spec
CONSTANTS
    NSlots = 2
    NBatch = 4
    NCtx = 5
    Cells = 5
    MaxDraft = 1
    ClearIdle = FALSE
    CanFork = FALSE
    CanFail = FALSE
INVARIANT
    LogitsNotNull
CHECK_DEADLOCK FALSE
