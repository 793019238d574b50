SPECIFICATION FairSpec
CONSTANTS
    NSlots = 3
    NBatch = 2
    NCtx = 4
    Cells = 4
    MaxDraft = 0
    ClearIdle = FALSE
    CanFork = FALSE
    CanFail = FALSE
INVARIANTS
    CacheMatchesSlots
    SampleSeesItsLogits
    ErrorOnlyWhenFull
PROPERTIES
    RoundEnds
