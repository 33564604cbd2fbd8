SPECIFICATION Spec
CONSTANTS
    Total = 6
    Required = 1
    Trigger = 2
    MaxRequired = 4
    PendingSize = 1
    Standalone = 1
    Hybrid = 1
    Wait = 1
    SaveFreq = 2
    TestFreq = 2
    MaxRestarts = 1
INVARIANTS
    SignalKept
    ResumedOnce
PROPERTIES
    Implements
    TrainingEnds
