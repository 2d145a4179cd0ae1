SPECIFICATION Spec
CONSTANTS
    Paths <- PathsOneDir
    LowerKinds = {"f1", "f2", "d1"}
    UpperKinds = {"f1", "d1"}
    ChanCap = 1
    Rooted = FALSE
    Faults = {}
INVARIANTS Converges InOrder CreatesBehindWalk
PROPERTIES KeepsShared
