SPECIFICATION FairSpec
CONSTANTS
    NumSamples = 4
    Required = 1
    Trigger = 1
    MaxRequired = 2
    MaxConcurrent = 2
    Partial = TRUE
    TestFreq = 1
    Nothing = Nothing
CHECK_DEADLOCK FALSE
PROPERTIES
    PauseEnds
