SPECIFICATION Spec
CONSTANTS
    NoBuffer = nobuf
    http = http
    tcp = tcp
    starter = starter
    checker = checker
    Values = {v1, v2, v3}
    Buffers = {b1, b2}
    Messages = {msg1, msg2, msg3, msg4}
    TooLong = {msg4}
    NoMessage = nomsg
    Wrap = 6
    MaxPacket = 20
    Offset = 1
    SizeOfInt = 2
    IntMax = 63
    RecvSizes = {1, 3, 25}
    Margin = 4
    Connections <- MCConnections
    OldBuffers <- MCOldBuffers
    Responses <- MCResponses
    EarlyAnswers = FALSE
    Timeouts <- MCTimeouts
    Length = 3
    Objects <- MCObjects
    Borrowers = {t1, t2, t3}
    Null = null
INVARIANTS
    DeliveredExact
    LegalAccepted
    CloseAsAsked
    ServedAsFramed
    
    
    EachHasItsOwn
    FrontStays
PROPERTIES
    StopEndsService
    Reconnects
CHECK_DEADLOCK FALSE
