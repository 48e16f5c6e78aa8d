SPECIFICATION Spec
CONSTANTS
    DbConfs <- DbConfsValue
    UintSize = 16
    MaxPart = 2
    MaxCrashes = 2
    Sessions = {s1, s2}
    NoSession = none
    Queries = {q1, q2}
    Deleters = {d1, d2}
    Accounts = {a1}
    Files = {f1}
    Plugins = {"p1", "p2"}
    Batches <- BatchesValue
    MaxCalls = 6
SYMMETRY Symmetric
INVARIANTS
    TypeOK
    SchemaVersionMeansComplete
    OrphansHaveCause
    ThreadIntact
    AcceptedIsNotOlder
CHECK_DEADLOCK FALSE
