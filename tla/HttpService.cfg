SPECIFICATION FairSpec
CONSTANTS
    Buffers = {b1, b2}
    MaxPayload = 4
    Word = 2
    Pieces <- MCPieces
    NoBuffer = nobuf
    Nobody = nobody
    Requests <- MCRequests
    Header <- MCHeader
    Workers = {w1}
    Readers = {r1, r2}
    Slow = TRUE
    LateWorkers = FALSE
    ThreadsFail = TRUE
INVARIANTS
    PoolConserved
    TokensCoverQueue
    NoBufferAfterFree
PROPERTIES
    ChannelSpec
    
    StopEnds
CHECK_DEADLOCK FALSE
