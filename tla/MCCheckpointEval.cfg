SPECIFICATION FairSpec
CONSTANTS
    Ranks = {r1, r2}
    FinalStep = 2
    MaxRuns = 2
    NumTasks = 2
    MaxFaults = 2
    Absent = Absent
    Torn = Torn
    Broken = Broken
INVARIANTS
    TypeOK
    ResumesFromWhole
    MergedFromOneCheckpoint
    MarkedHasResults
    ExitsWhenAllEvaluated
PROPERTIES
    ResultsStand
    WatcherEnds
