SPECIFICATION Spec
CONSTANTS
    Token = {x, y}
    Kinds = {"swa", "recurrent"}
    Window = 3
    MaxChecks = 2
    MinTokens = 3
    Gap = 1
    MinChunk = 2
    MaxTokens = 7
    Hazards = {}
INVARIANTS
    SlotMemoryIsSound
    CheckpointsAgree
