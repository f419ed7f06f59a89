SPECIFICATION Spec
CONSTANTS
    s1 = s1
    s2 = s2
    NoStream = NoStream
    Streams = {s1, s2}
    MaxWindow = 3
    ConnWindow = 1
    PeerConnWindow = 1
    StreamWindow = 1
    FrameSize = 1
    Increments = {2}
    WindowSizes = {0, 2}
    FrameSizes = {2}
    ChunkLens = {2}
    MaxBody = 2
    MaxCredit = 4
    ChanCap = 3
SYMMETRY Symmetry
CHECK_DEADLOCK FALSE
INVARIANTS
    WindowsMatchCredit
    WindowsLegal
    
    BufferBounded
    DrainedByWindowUpdate
    DrrFair
PROPERTIES
    NeverOverrun
    CompleteAtEnd
