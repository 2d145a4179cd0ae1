SPECIFICATION Spec
CONSTANTS
    Names <- MCNames
    Paths <- MCPaths
INVARIANTS Exact SavedChain
CHECK_DEADLOCK FALSE
