SPECIFICATION FairSpec
CONSTANTS
    NumSamples = 6
    Required = 1
    Trigger = 2
    MaxRequired = 3
    MaxConcurrent = 2
    Partial = TRUE
    TestFreq = 1
    Nothing = Nothing
CHECK_DEADLOCK FALSE
INVARIANTS
    QuietDuringSync
PROPERTIES
    LabelMatchesWeights
