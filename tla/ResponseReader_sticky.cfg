SPECIFICATION ReaderSpec
CONSTANTS
    Inputs <- Stray
    MaxToken = 6
    MaxLiteral = 8
    MaxDepth = 3
    MaxNumber = 98
    CompactAt = 16
    ReadChunk = 4
    CallsAgain = TRUE
INVARIANT SyntaxErrorsStick
CHECK_DEADLOCK FALSE
