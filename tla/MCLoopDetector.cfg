SPECIFICATION Spec
CONSTANTS
    Words = {"v", "w", "x"}
    Width <- Widths
    Texts <- AllTexts
    MinChars = 3
    Thresholds = {1, 2, 3}
    MaxUnitTokens = 4
    MaxSymbols = 5
    MaxList = 7
    MaxTokens = 9
INVARIANTS
    DetectionSound
    DetectionComplete
    CountAccurate
