SPECIFICATION FairSpec
CONSTANTS
    Scenarios <- MCScenarios
    MaxRequests = 2
    MaxHead = 4
    BodyChannel = 1
    BatchThreshold = 5
    Vectored = TRUE
    HeaderTimeout = TRUE
    ClientCloses = TRUE
CHECK_DEADLOCK FALSE
INVARIANTS
    
    
    CompleteBody
    NothingLostOnUpgrade

    
