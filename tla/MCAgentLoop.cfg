SPECIFICATION AAMSpec
CONSTANTS
    ResponseLength = 5
    PromptLength = 2
    Limits <- MCLimits
    MaxParallelCalls = 2
    MaxCalls = 2
    MaxToolTokens = 2
    ToolResults = {ok, err}
    ErrorResults = {err}
    None = None
INVARIANTS
    TurnsSeparated
    BudgetsRespected
    MaskSelectsModelTokens
    MaskedTokensAccounted
    ReasonTruthful
    BadTurnsRecorded
    PosthocLoopsAgree
    TrainedMaskExact
    CandidatesIndependentOfSwitches
    TokensConserved
PROPERTIES
    RolloutReturns
CHECK_DEADLOCK FALSE
