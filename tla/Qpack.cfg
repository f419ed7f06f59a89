CONSTANTS
    HybridThreshold = 1
    MaxCapacity = 79
    StaticFields <- MCStaticFields
    StaticNames <- MCStaticNames
    NeverIndexed <- MCNeverIndexed
    MaxBlockedStreams = 2
    MaxFieldSectionSize = 180
    MaxFieldsPerSection = 6
    Streams = {s1, s2}
    HeaderLists <- MCHeaderLists
    InsertFields <- MCInsertFields
    Capacities = {40}
    BlockLimit = 8
    MaxInserts = 4
    MaxSections = 2
    MaxChunk = 2
    MaxInFlight = 1
SPECIFICATION Spec
SYMMETRY Symmetry
CHECK_DEADLOCK FALSE
INVARIANTS
    TablesCoherent
    ReferencesPinned
    NothingLeftBlocked

    
