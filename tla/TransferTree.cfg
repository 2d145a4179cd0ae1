SPECIFICATION Spec
CONSTANTS
    Kind <- KindTree
    Chunks <- ChunksTree
    Parent <- ParentTree
    N = 5
    Stale = {1,2,3,4,5}
    Faults = {"open", "conn"}
    w1 = w1
    w2 = w2
    Workers = {w1, w2}
    CapR = 1
    CapS = 1
    PipeCap = 1
    WalkCap = 1
    C2Cap = 1
    Merge = FALSE
    MetadataTransfer = TRUE
    Matched = {3,4,5}
    MetaPath = 0
INVARIANTS TypeOK OwnContent SuccessMeansComplete FinMeansQuiet ParentsFirst OnlyFaultsFail ContentPrefix ResumeSafe
