SPECIFICATION KvSpec
CONSTANTS
    NSeqs = 2
    NCells = 5
    NUbatch = 1
    MaxPos = 3
    MaxUbatches = 2
    Configs <- MCSound
INVARIANTS
    KvIsSound
    AlwaysFits
PROPERTIES
    OthersUntouched
CHECK_DEADLOCK TRUE
