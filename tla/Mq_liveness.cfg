SPECIFICATION FairSpec
CONSTANTS
    EntryPoints = {"_run", "_run_loop"}
    Clients = {a}
    Ids = {1}
    MaxCommands = 3
    MaxMessages = 1
PROPERTIES
    StopReturns
    CallsReturn
    ImplementsService
CHECK_DEADLOCK FALSE
