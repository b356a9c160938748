SPECIFICATION FairSpec
CONSTANTS
    Clients = {c1, c2}
    Backlog = 1
    ThreadCount = 2
    Poison = poison
    WaitsExpire = FALSE
    ThreadsFail = TRUE
INVARIANTS
    
    NoLateConnection
PROPERTIES
    StopReturns
    UninitEnds
CHECK_DEADLOCK FALSE
