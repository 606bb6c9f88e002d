SPECIFICATION Spec
CONSTANTS
    Packets = {p1, p2, p3}
    Values = {a, b}
    MaxObjects = 4
    MaxAttributes = 2
CHECK_DEADLOCK FALSE
SYMMETRY Symmetry
INVARIANTS
    TypeOK
    SoleOwner
    NothingLost
