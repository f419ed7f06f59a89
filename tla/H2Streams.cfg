SPECIFICATION Spec
CONSTANTS
    MaxId = 3
    MaxConcurrent = 2
    ClosedCap = 1
    MaxLocalErrors = 1
    MaxPendingResets = 1
    MaxContinuation = 2
    Lengths = {1}
    ChunkLens = {0, 1}
    MaxData = 1
    WithBody = {1}
CHECK_DEADLOCK FALSE
INVARIANTS
    HandledOnce
    GoAwayTruthful
    OneOpenBlock
    BodyAsDeclared
