SPECIFICATION FairSpec
CONSTANTS
    Clients = {c1}
    IOContexts = {x1}
    Workers = {w1, w2}
    AppThreads = {a1}
    Starter = main
    Assistant = assist
    NoClient = none
    SpecialPostFails = FALSE
    CallbackThrows = FALSE
    Backlog = 1
PROPERTIES
    ClosingReleased
    CloseTakesEffect
CHECK_DEADLOCK FALSE
