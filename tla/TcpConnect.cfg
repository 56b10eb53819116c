SPECIFICATION FairSpec
CONSTANTS
    Lists <- ShortLists
    Errors = {"refused", "unreachable"}
    AttemptDelay = 3
    CandidateTimeout = 7
    OverallTimeout = 9
    Caps = {0, 1, 2}
    PollSlice = 2
    ResolveTicks = 1
    Horizon = 13
INVARIANTS
    TypeOK
    SocketsAccounted
    
    CancelSeenSoon
    MostDefiniteReported
    InterleaveIsFair
PROPERTIES
    Terminates
    ImplementsConnect
CHECK_DEADLOCK FALSE
