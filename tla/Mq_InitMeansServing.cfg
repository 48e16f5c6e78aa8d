SPECIFICATION Spec
CONSTANTS
    EntryPoints = {"_run"}
    Clients = {a, b}
    Ids = {1}
    MaxCommands = 1
    MaxMessages = 1
INVARIANTS
    InitMeansServing
CHECK_DEADLOCK FALSE
