SPECIFICATION Spec
CONSTANTS
    Callbacks = {c1, c2}
    MaxPieces = 2
    MaxStops = 1
INVARIANTS
    FinalWordsBeforeFinish
CHECK_DEADLOCK FALSE
