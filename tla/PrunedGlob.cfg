SPECIFICATION Spec
CONSTANT Cases <- MCCases
INVARIANT PrunedMatchesNothing
