SPECIFICATION FairSpec
CONSTANTS
    NumSamples = 6
    Required = 1
    Trigger = 2
    MaxRequired = 3
    MaxConcurrent = 2
    Partial = FALSE
    TestFreq = 1
    Nothing = Nothing
INVARIANTS
    TypeOK
    BacklogBounded
    TrainedPerVersion
    QuietUnlessMonitor
    SentinelIsLast
    ProcessorSurvives
    NoSampleLost
PROPERTIES
    Termination
    PauseEnds
