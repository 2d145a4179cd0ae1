SPECIFICATION FairSpec
CONSTANTS
    Kind <- KindPair
    Chunks <- ChunksPair
    Parent <- ParentPair
    N = 2
    Stale = {1,2}
    Faults = {"open", "read"}
    w1 = w1
    w2 = w2
    Workers = {w1}
    CapR = 1
    CapS = 1
    PipeCap = 1
    WalkCap = 1
    C2Cap = 1
    Merge = FALSE
    MetadataTransfer = FALSE
    Matched = {}
    MetaPath = 0
PROPERTIES FileErrorIsSent
CHECK_DEADLOCK FALSE
