SPECIFICATION FairSpec
CONSTANTS
    Nothing = Nothing
    MaxQueueSize = 2
    Consumers = {c1, c2, c3}
    MaxPuts = 5
INVARIANTS
    TypeOK
    HoldsNewest
    CountersBalance
    NoLostWakeup
PROPERTIES
    InOrderDelivery
    ShutdownReleases
