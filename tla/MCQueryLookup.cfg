SPECIFICATION Spec
CONSTANTS
    Lookups = {l1}
    Closers = {}
    Phones = {p1}
    None = none
    QueueSize = 1
    SyncWrites = TRUE
    DisableCache = FALSE
    SourceOutcomes = {"spam", "clean", "rate_limited", "timeout", "canceled", "unavailable"}
    Impatient = {l1}
    Blank <- MCBlank
    Spellings <- MC3Spellings
    Names <- MC3Names
    TrimSpace <- MC3TrimSpace
    DefaultList <- MC3DefaultList
    ClientLists <- MC3Lists
    Preloaded <- MCOldRow
INVARIANTS
    StickySpam
    KnownSourceNotAsked
    NoSourceSkipped
    TruthfulErrors
