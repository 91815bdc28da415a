SPECIFICATION FairSpec
CONSTANTS
    Requests = {r1, r2, r3}
    Sources = {a}
    Primary = a
    Rate = 2
    Cost = 2
    Burst = 2
    MaxConcurrent = 2
    QueueSize = 1
    MaxTime = 1
INVARIANTS
    RateBound
    StoredWins
    NoUseAfterClose
PROPERTIES
    ShutdownEnds
CHECK_DEADLOCK FALSE
