SPECIFICATION CacheHazardSpec
CONSTANTS
    NSlots = 2
    x = x
    y = y
    Token = {x, y}
    Prompts <- MCPrompts
    Answers = {x}
    Confs <- MCStreams
    NCtx = 5
    MaxTokens = 4
INVARIANT MemoryIsTrue
