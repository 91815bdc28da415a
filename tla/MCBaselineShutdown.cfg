SPECIFICATION Spec
CONSTANTS
    Files = {f1, f2, f3}
    Readers = {}
    Faults = {}
    Overlaps = TRUE
    None = none
INVARIANTS
    CommittedSurvives
