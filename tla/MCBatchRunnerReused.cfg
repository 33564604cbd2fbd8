SPECIFICATION Spec
CONSTANTS
    Samples = 4
    Window = 2
    BatchSize = 2
    MaxSteps = 2
    MaxRestarts = 0
    None = None
INVARIANT SamplesReported
