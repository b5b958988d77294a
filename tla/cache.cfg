SPECIFICATION Spec
CONSTANTS
    Keys = {k1, k2, k3, k4}
    Nil = Nil
    Capacity = 3
    TTL = 1
SYMMETRY Symmetry
INVARIANTS
    TypeOK
    ListIsWhole
    NeverYounger
PROPERTIES
    ImplementsFilter
CHECK_DEADLOCK FALSE
