\* The HTTP/3 connection driver and its control plane: safety.
SPECIFICATION Spec
CONSTANTS
    MaxRequests = 2
    MaxUnis = 1
    MaxItems = 2
    UniTypes <- MCUniTypes
    ControlItems <- MCControlItems
    QpackItems <- MCQpackItems
    AcceptTimeout = FALSE
    MaxLocalErrorResets = 1
    MaxPendingAcceptResets = 1
    MaxInstructions = 2
    Verdicts <- MCVerdicts
CHECK_DEADLOCK FALSE
INVARIANTS
    GoawayTruthful
    CloseIsClean
    InstructionsInOrder
