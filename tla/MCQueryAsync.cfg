SPECIFICATION StuckWriterSpec
CONSTANTS
    Lookups = {l1, l2}
    Closers = {c1, c2}
    Phones = {p1}
    None = none
    QueueSize = 1
    SyncWrites = FALSE
    DisableCache = FALSE
    SourceOutcomes = {"spam", "unavailable"}
    Impatient = {}
    Blank <- MCBlank
    Spellings <- MCSpellings
    Names <- MCSpellings
    TrimSpace <- MCTrimSpace
    DefaultList <- MCOneSource
    ClientLists = {}
    Preloaded <- MCNoRows
INVARIANTS
    NoChannelPanic
    CloseDrains
PROPERTIES
    ServesTheLedger
    EveryLookupReturns
    CloseReturns
    AcceptedIsTried
