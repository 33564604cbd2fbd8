SPECIFICATION AAMSpec
CONSTANTS
    ResponseLength = 2
    PromptLength = 2
    Limits <- MCLimits
    MaxParallelCalls = 1
    MaxCalls = 1
    MaxToolTokens = 1
    ToolResults = {ok, err}
    ErrorResults = {err}
    None = None
INVARIANT OutputAligned
CHECK_DEADLOCK FALSE
