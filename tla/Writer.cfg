SPECIFICATION Spec
CONSTANT Scenarios <- MCScenarios
INVARIANTS DoneMeansDone OldOrNew NothingLeftOpen FailsForCause
PROPERTY Ends
CHECK_DEADLOCK FALSE
