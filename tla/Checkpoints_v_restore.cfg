SPECIFICATION HazardSpec
CONSTANTS
    Token = {x, y}
    Kinds = {"recurrent"}
    Window = 3
    MaxChecks = 2
    MinTokens = 2
    Gap = 1
    MinChunk = 2
    MaxTokens = 6
    Hazards = {"restore"}
INVARIANT MemoryMatches
