SPECIFICATION Spec
CONSTANTS
    EntryPoints = {"_run", "_run_loop"}
    Clients = {a, b}
    Ids = {1}
    MaxCommands = 3
    MaxMessages = 1
SYMMETRY ClientSymmetry
INVARIANTS
    TypeOK
    OkMeansExecuted
    TerminateNeedsFailedInit
PROPERTIES
    NoDeliveryAfterRemove
CHECK_DEADLOCK FALSE
