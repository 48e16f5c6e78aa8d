SPECIFICATION Spec
CONSTANTS
    Handlers = {h1, h2}
    Reactors = {r1, r2}
    Callers = {h1, h2, r1, r2}
    Receivers = {r1, r2}
    NoReactor = none
    NoReceiver = none
    NoCaller = nobody
    Ids = {1, 2}
    MaxCalls = 3
INVARIANTS
    TypeOK
    NoDanglingSubscriber
    ServedUserIsSubscribed
CHECK_DEADLOCK FALSE
