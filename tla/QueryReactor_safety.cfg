SPECIFICATION Spec
CONSTANTS
    Callbacks = {c1, c2}
    MaxPieces = 3
    MaxStops = 1
SYMMETRY CallbackSymmetry
INVARIANTS
    TypeOK
    StopHoldsLiveReactor
    NoStrandedResponse
    AtMostOneLateWrite
    UnfinishedOnlyIfCancelledOrUnstored
    FinishedUnderTaskOnlyAfterStop
    DoubleFinishNeedsFailedWrite
    StoredAnswerCoversStream
    AnswerFollowsQuestion
CHECK_DEADLOCK FALSE
