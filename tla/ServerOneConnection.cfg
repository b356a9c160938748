SPECIFICATION Spec
CONSTANTS
    Clients = {c1}
    IOContexts = {x1, x2}
    Workers = {w1, w2}
    AppThreads = {a1, a2}
    Starter = main
    Assistant = assist
    NoClient = none
    SpecialPostFails = FALSE
    CallbackThrows = FALSE
    Backlog = 1
SYMMETRY Symmetry
INVARIANTS
    CountExact
    KernelBuffersLive
    RefProtects
    ClosedLast
    ZeroMeansClosed
    PacketReturned
PROPERTIES
    LifeSpec
CHECK_DEADLOCK FALSE
