SPECIFICATION Spec
CONSTANTS
    Callbacks = {c1, c2}
    Tasks = {t1, t2}
    MaxReqs = 2
    MaxStops = 1
    MinChunk = 1
    Capacity = 1
INVARIANTS
    TypeOK
    LockstepClientIsOrdered
    EveryRequestIsAnswered
    AudioWaitsOnlyIfMissed
    AudioIsKept
    DoubleFinishHasCause
PROPERTIES
    CancelledStreamEnds
CHECK_DEADLOCK FALSE
