SPECIFICATION FairSpec
CONSTANTS
    NumSamples = 9
    Required = 2
    Trigger = 2
    MaxRequired = 4
    MaxConcurrent = 3
    Partial = FALSE
    TestFreq = 2
    Nothing = Nothing
PROPERTIES
    ImplementsSynchronous
    OnPolicy
