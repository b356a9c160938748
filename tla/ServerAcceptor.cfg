SPECIFICATION Spec
CONSTANTS
    Clients = {c1, c2, c3}
    IOContexts = {}
    Workers = {w1, w2}
    AppThreads = {}
    Starter = main
    Assistant = assist
    NoClient = none
    SpecialPostFails = FALSE
    CallbackThrows = FALSE
    Backlog = 2
SYMMETRY Symmetry
INVARIANTS
    TypeOK
    StartedAcceptorOutlives
    AcceptCountExact
CHECK_DEADLOCK FALSE
