SPECIFICATION FairSpec
CONSTANTS
    Samples = {s1}
    N = 2
    Servers = {v1, v2}
    ResponseLength = 2
    ModelRoom = 3
    MaxVersion = 2
    Nothing = Nothing
INVARIANTS
    TypeOK
    LogProbsAligned
    LabelIsNewest
    StartIsOldest
    EnginesQuiet
    ForgottenRequestsBounded
PROPERTIES
    ImplementsStream
    SynchronizationEnds
