SPECIFICATION Spec
CONSTANT Cases <- MCCases
INVARIANTS CopyIsSelection MetadataKept LinksKept NotifiedOnce FailsForCause
