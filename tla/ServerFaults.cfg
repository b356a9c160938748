SPECIFICATION Spec
CONSTANTS
    Clients = {c1}
    IOContexts = {x1}
    Workers = {w1, w2}
    AppThreads = {a1}
    Starter = main
    Assistant = assist
    NoClient = none
    SpecialPostFails = TRUE
    CallbackThrows = TRUE
    Backlog = 1
SYMMETRY Symmetry
INVARIANTS
    RefIInv
CHECK_DEADLOCK FALSE
