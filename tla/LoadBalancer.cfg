SPECIFICATION Spec
CONSTANTS
    Standalone = {a}
    Hybrid = {h}
    Requests = {r1, r2}
    CacheSize = 1
    MaxTokens = 3
    MaxTurns = 2
    MaxSteps = 2
    Validates = TRUE
    None = None
INVARIANTS
    NoPhantomLoad
    CallWithinLimit
PROPERTIES
    StickyRouting
    CallsReturn
CHECK_DEADLOCK FALSE
