SPECIFICATION ProbeFairSpec
CONSTANTS
    Sessions <- SomeSessions
    Inputs <- AllSent
    MaxToken = 6
    MaxLiteral = 9
    MaxDepth = 3
    MaxNumber = 98
    CompactAt = 16
    ReadChunk = 4
    CallsAgain = FALSE
INVARIANTS
    ProbeTypeOK
    NeverBothWait
    
PROPERTIES
    CommandsInTurn
    ProbeEnds
CHECK_DEADLOCK FALSE
