SPECIFICATION FairSpec
CONSTANTS
    Callbacks = {c1, c2}
    MaxPieces = 1
    MaxStops = 1
PROPERTIES
    CancelEndsTask
    StoredQueryFinishes
CHECK_DEADLOCK FALSE
