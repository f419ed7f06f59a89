SPECIFICATION Spec
CONSTANTS
    CODES <- MCCodes
    MaxOctets = 3
    IntegerLimit = 1048576
    STATIC_TABLE <- MCStaticTable
    HYBRID_THRESHOLD = 1
    NEVER_INDEXED <- MCNeverIndexed
    DEFAULT_MAX_FRAME_SIZE = 8
    MAX_FRAME_SIZE_LIMIT = 64
    Lists <- MCLists
    Extras <- MCExtras
    Sizes <- MCSizes
    TableSize = 110
    MaxList = 10
    MaxFrame = 8
    Chunks = {5, 100}
    PeerWaits = TRUE
    MaxSent = 3
    MaxExtras = 1
    MaxInFlight = 2
CHECK_DEADLOCK FALSE
INVARIANTS
    ReadAsSent
    TablesMirror
    HonoursLimit
