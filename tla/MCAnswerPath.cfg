SPECIFICATION FairSpec
CONSTANTS
    MaxRedirects = 5
    Table <- MCTable
    Prefixes <- MCPrefixes
    Unreadable <- MCUnreadable
    Order <- MCOrder
INVARIANTS
    RefusalBacksOff
    CleanWasShown
    StatusTellsWhy
    LocationFound
PROPERTIES
    EveryQueryEnds
CHECK_DEADLOCK FALSE
