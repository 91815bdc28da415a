SPECIFICATION Spec
CONSTANTS
    Processes = {p1, p2, p3}
    Engines = {"sqlite", "postgres"}
    Versions = 2
    Ids = {i1, i2, i3, i4}
    None = none
    Blank = blank
SYMMETRY MCSymmetry
INVARIANTS
    SchemaIsSound
    OneIdentity
PROPERTIES
    IdentityIsStable
    KeepsTheRegistry
