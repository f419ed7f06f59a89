SPECIFICATION Spec
CONSTANTS
    MaxId = 3
    MaxConcurrent = 2
    ClosedCap = 1
    MaxLocalErrors = 1
    MaxPendingResets = 1
    MaxContinuation = 1
    Lengths = {}
    ChunkLens = {0, 1}
    MaxData = 1
    WithBody = {1, 2, 3}
INVARIANT SeesEveryBlock
CHECK_DEADLOCK FALSE
