SPECIFICATION Spec
CONSTANTS
    Samples = 4
    Window = 2
    BatchSize = 2
    MaxSteps = 2
    MaxRestarts = 1
    None = None
INVARIANTS
    SamplesAccounted
    ReportMatchesDisk
    FinalizerOwns
    WindowRespected
PROPERTIES
    ResultsKept
    RunEnds
