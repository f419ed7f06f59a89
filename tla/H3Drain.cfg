\* The HTTP/3 connection driver: the drain ends, whatever wakes it.
SPECIFICATION FairSpec
CONSTANTS
    MaxRequests = 1
    MaxUnis = 1
    MaxItems = 2
    UniTypes = {"control"}
    ControlItems = {"settings", "goaway"}
    QpackItems = {}
    AcceptTimeout = TRUE
    MaxLocalErrorResets = 1
    MaxPendingAcceptResets = 1
    MaxInstructions = 0
    Verdicts = {"ok","qpack"}
CHECK_DEADLOCK FALSE
PROPERTIES
    Drains
    
