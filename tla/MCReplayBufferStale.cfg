SPECIFICATION Spec
CONSTANTS
    Configs <- StaleConfigs
    Sessions = {s1, s2}
    TotalSteps = 3
    SaveFreq = 0
    MaxCrashes = 0
    MaxErrors = 1
    MaxRow = 8
INVARIANTS
    UnfinishedSpanBounded
PROPERTIES
    TrainedSpanBounded
    TrainingEnds
CHECK_DEADLOCK FALSE
