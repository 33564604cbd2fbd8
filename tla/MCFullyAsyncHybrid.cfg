SPECIFICATION Spec
CONSTANTS
    Total = 4
    Required = 2
    Trigger = 1
    MaxRequired = 3
    PendingSize = 1
    Standalone = 0
    Hybrid = 2
    Wait = 2
    SaveFreq = 2
    TestFreq = 2
    MaxRestarts = 0
PROPERTIES
    FinishSignalStops
CHECK_DEADLOCK FALSE
