SPECIFICATION Spec
CONSTANTS
    Lookups = {l1, l2}
    MaxConcurrent = 2
    MinInterval = 2
    BreakerTimeout = 1
    RetryAfters = {0}
    None = none
PROPERTIES
    MinSpacing
