SPECIFICATION FairSpec
CONSTANTS
    Lookups = {l1, l2, l3}
    MaxConcurrent = 2
    MinInterval = 1
    BreakerTimeout = 2
    RetryAfters = {0, 1, 2}
    None = none
INVARIANTS
    ConcurrencyLimit
    BreakerEarned
    OverdueOnlyBehindSchedule
    StartsAreRationed
PROPERTIES
    NoStartWhileShut
    CooldownStands
    EveryLookupReturns
