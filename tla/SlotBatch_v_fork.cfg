SPECIFICATION Spec
CONSTANTS
    NSlots = 3
    NBatch = 4
    NCtx = 5
    Cells = 5
    MaxDraft = 0
    ClearIdle = FALSE
    CanFork = TRUE
    CanFail = FALSE
INVARIANT
    ChildStartsWithPrompt
