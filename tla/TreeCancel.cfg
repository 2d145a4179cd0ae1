SPECIFICATION FairSpec
CONSTANTS
    Paths <- PathsNested
    LowerKinds = {"d1"}
    UpperKinds = {"f1", "d1"}
    ChanCap = 1
    Rooted = TRUE
    Faults = {"cancel"}
INVARIANTS FailsOnlyBelowRemoved StackFresh
PROPERTIES SettledStays Ends
