SPECIFICATION Spec
CONSTANTS
    Rollouts = {r1, r2}
    Names = {n1, n2}
    Digits = {x}
    Configs <- Options
    MaxTurns = 3
    MaxScore = 1
    Bonus = 1
    FallbackScore = 0
    MissingScore = 0
    TurnPenalty = 1
    RepeatPenalty = 1
    MaxRepeats = 0
    None = None
SYMMETRY Symmetry
INVARIANTS
    WorkspaceIsolated
    WorkVerified
    ScoreOrigin
    Reclaimed
    RewardsLost
