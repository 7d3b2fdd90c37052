SPECIFICATION FairSpec
CONSTANTS
    NumSamples = 5
    Required = 2
    Trigger = 1
    MaxRequired = 3
    MaxConcurrent = 2
    Partial = TRUE
    TestFreq = 1
    Nothing = Nothing
CHECK_DEADLOCK FALSE
PROPERTIES
    InterruptedContinue
