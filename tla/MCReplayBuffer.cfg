SPECIFICATION Spec
CONSTANTS
    Configs <- CrashConfigs
    Sessions = {s1, s2}
    TotalSteps = 2
    SaveFreq = 1
    MaxCrashes = 1
    MaxErrors = 1
    MaxRow = 9
SYMMETRY SessionSymmetry
INVARIANTS
    PromptsConserved
    OrphansExplained
    InFlightBounded
PROPERTIES
    GroupsWhole
CHECK_DEADLOCK FALSE
