SPECIFICATION Spec
CONSTANTS
    NSlots = 2
    NBatch = 3
    NCtx = 5
    Cells = 10
    MaxDraft = 1
    ClearIdle = TRUE
    CanFork = TRUE
    CanFail = TRUE
INVARIANTS
    CacheMatchesSlots
    DraftSeesItsLogits
    ContextShiftNeverNeeded
CHECK_DEADLOCK FALSE
