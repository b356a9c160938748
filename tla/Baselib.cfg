SPECIFICATION MCSpec
CONSTANTS
    Docs <- MCDocs
    Names = {"b"}
    Fragments <- MCFragments
    Positions = {"p"}
    Careless = {}
    Buffers = {b1, b2}
    MaxPayload = 1
    Word = 1
    Pieces <- MCCells
    NoBuffer = nobuf
    Nobody = nobody
    Cells <- MCCells
    Writers = {w1, w2}
    Logger = logger
    FileLevel = 5
    RotateAt = 1
    Late = TRUE
    Faults = TRUE
INVARIANTS
    LinesInOrder
    IndexMatchesDoc
    PositionsAlive
CHECK_DEADLOCK FALSE
