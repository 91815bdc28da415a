SPECIFICATION Spec
CONSTANTS
    Processes = {p1, p2}
    Secrets = {s1, s2, s3}
    Options <- MCOptions
    Faults = {"write", "close", "start"}
    None = none
    Partial = partial
SYMMETRY MCSymmetry
INVARIANTS
    UsableConfig
    OneToken
    PairingStands
    StartFailsForACause
