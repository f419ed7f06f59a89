SPECIFICATION FairSpec
CONSTANTS
    FrameSet = {"headers", "dynamic", "malformed", "undecodable", "data", "control", "partial"}
    MaxFrames = 3
    MaxCredit = 1
    MaxTunnel = 1
    Calls <- MCCalls
CHECK_DEADLOCK FALSE
INVARIANTS
    ResponseInOrder
    EndIsWhole
    BodyComplete
    
PROPERTIES
    Answered
