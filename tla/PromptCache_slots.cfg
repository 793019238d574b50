SPECIFICATION CacheSpec
CONSTANTS
    NSlots = 2
    x = x
    y = y
    Token = {x, y}
    Prompts <- MCPrompts
    Answers = {x}
    Confs <- MCConfs
    NCtx = 5
    MaxTokens = 4
INVARIANTS
    PromptsAreTrue
    CacheIsTidy
PROPERTIES
    ForgetsNothing
