SPECIFICATION FairSpec
CONSTANTS
    Two = {t1, t2}
    Three = {t1, t2, t3}
    InitCount = 1
    MaxIds = 3
    MaxGets = 2
    ChunkCount = 1
    MaxBlocks = 2
    MaxAllocs = 2
    MaxCalls = 2
    Works = {x1, x2, x3}
    Tagger = t1
    MaxTag = 5
    Width = 8
    Overlap = FALSE
    MaxForwards = 2
    MaxSegments = 2
    MaxLen = 3
    Infos = {1, 2}
    NoInfo = 0
    Capacity = 2
    MaxCount = 1
    MaxEntries = 2
CHECK_DEADLOCK FALSE
INVARIANTS
    WaitersHaveAWaker
    GivenOnce
    TriggersShare
    LiveWhileUsed
    SegmentsMoved
PROPERTIES
    WaitsEnd
    RegistrationKept
