SPECIFICATION Spec
CONSTANTS
    Reactors = {r1, r2, r3}
    Ids = {i1, i2}
    Stoppers = {s1, s2}
    NoReactor = NoReactor
    NoStopper = NoStopper
    NoId = NoId
SYMMETRY RegistrySymmetry
INVARIANTS
    TypeOK
    NoDanglingEntry
    StopTargetAlive
    AloneIsStoppable
CHECK_DEADLOCK FALSE
