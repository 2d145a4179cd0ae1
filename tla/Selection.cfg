SPECIFICATION Spec
CONSTANT Cases <- MCCases
INVARIANTS ExactSelection StreamLegal FollowedIsReachable
PROPERTY WalkEnds
