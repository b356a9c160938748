SPECIFICATION Spec
CONSTANTS
    Clients = {c1}
    IOContexts = {x1, x2}
    Workers = {w1, w2}
    AppThreads = {a1, a2}
    Starter = main
    Assistant = assist
    NoClient = none
    SpecialPostFails = FALSE
    CallbackThrows = FALSE
SYMMETRY Symmetry
INVARIANTS
    CountExact
    RefProtects
    ClosedAfterConnected
    ReturnedIsConnected
CHECK_DEADLOCK FALSE
