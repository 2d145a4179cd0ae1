SPECIFICATION FairSpec
CONSTANTS
    Kind <- KindFiles
    Chunks <- ChunksFiles
    Parent <- ParentFlat
    N = 3
    Stale = {1,2,3}
    Faults = {"walk", "apply", "write", "async", "read"}
    w1 = w1
    w2 = w2
    Workers = {w1}
    CapR = 1
    CapS = 1
    PipeCap = 1
    WalkCap = 1
    C2Cap = 1
    Merge = TRUE
    MetadataTransfer = FALSE
    Matched = {}
    MetaPath = 0
INVARIANTS NoProtocolError ErrNamesCause
PROPERTIES CallsEnd ImplementsSync
CHECK_DEADLOCK FALSE
