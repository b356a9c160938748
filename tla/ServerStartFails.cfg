SPECIFICATION Spec
CONSTANTS
    Clients = {c1, c2}
    IOContexts = {x1}
    Workers = {w1, w2}
    AppThreads = {}
    Starter = main
    Assistant = assist
    NoClient = none
    SpecialPostFails = FALSE
    CallbackThrows = FALSE
    Backlog = 2
INVARIANT AcceptorOutlivesAccepts
CHECK_DEADLOCK FALSE
