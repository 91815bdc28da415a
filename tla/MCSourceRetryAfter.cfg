SPECIFICATION Spec
CONSTANTS
    Lookups = {l1, l2}
    MaxConcurrent = 2
    MinInterval = 0
    BreakerTimeout = 1
    RetryAfters = {0, 1, 3}
    None = none
PROPERTIES
    RetryAfterObeyed
