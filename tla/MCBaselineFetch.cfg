SPECIFICATION FairFetch
CONSTANTS
    Files = {f1, f2, f3, f4, f5, f6, f7}
    Readers = {r1, r2}
    Faults = {"rename", "set", "settle", "unpend", "open", "reopen", "close"}
    Overlaps = TRUE
    None = none
    Manifests <- MCManifests
    Archives <- MCArchives
    ArchiveLimit = 2
    DatabaseLimit = 3
    Ratio = 1
    MaxLapses = 3
INVARIANTS
    HandlesInOrder
    DiskIsBounded
PROPERTIES
    AcceptsTheSound
    SyncEnds
