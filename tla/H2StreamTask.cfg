SPECIFICATION FairSpec
CONSTANTS
    Requests = {"get", "head", "connect", "expect", "echo"}
    ChanCap = 2
    BodyCap = 2
    MaxHints = 3
    MaxFrames = 4
    MaxPending = 2
CHECK_DEADLOCK FALSE
INVARIANTS
    
    UnheardOnlyAtClosed

    
