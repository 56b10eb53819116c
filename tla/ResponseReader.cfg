SPECIFICATION ReaderFairSpec
CONSTANTS
    Inputs <- Sessions
    MaxToken = 6
    MaxLiteral = 8
    MaxDepth = 3
    MaxNumber = 98
    CompactAt = 16
    ReadChunk = 4
    CallsAgain = FALSE
INVARIANTS
    ResponsesAreLines
    TextIsOpaque
    EndIsClean
    BufferBounded
PROPERTY NextReturns
CHECK_DEADLOCK FALSE
