SPECIFICATION Spec
CONSTANTS
    Files = {f1, f2, f3, f4}
    Readers = {r1, r2}
    Faults = {"rename", "set", "settle", "open", "reopen", "close"}
    Overlaps = FALSE
    None = none
SYMMETRY MCSymmetry
INVARIANTS
    CommittedSurvives
    ServedIsRecoverable
