SPECIFICATION FairSpec
CONSTANTS
    NumSamples = 5
    Required = 1
    Trigger = 1
    MaxRequired = 3
    MaxConcurrent = 2
    Partial = FALSE
    TestFreq = 1
    Nothing = Nothing
INVARIANTS
    ProducedWithinBudget
