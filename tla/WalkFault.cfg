SPECIFICATION Spec
CONSTANTS
    Paths <- PathsTwoDirs
    LowerKinds = {"f1", "d1"}
    UpperKinds = {"f1", "d1"}
    ChanCap = 1
    Rooted = FALSE
    Faults = {"walk"}
INVARIANT DeletesOnlyExtra
