SPECIFICATION Spec
CONSTANTS
    Standalone = {a}
    Hybrid = {h}
    Requests = {r1, r2}
    CacheSize = 1
    MaxTokens = 3
    MaxTurns = 1
    MaxSteps = 2
    Validates = FALSE
    None = None
PROPERTIES
    CallsReturn
CHECK_DEADLOCK FALSE
