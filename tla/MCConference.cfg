SPECIFICATION FairSpec
CONSTANTS
    p1 = p1
    p2 = p2
    Peers <- MCPeers
    MaxOutbox = 1
    Window = 1
    MaxAsks = 1
    MaxFrames = 1
    MaxCrashes = 1
    MaxResends = 1
INVARIANTS TypeOK AppliedOnce KeyNamesOne AnswerKept CountersFresh
PROPERTIES Answered
CHECK_DEADLOCK FALSE
