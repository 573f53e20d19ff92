SPECIFICATION FairSpec
CONSTANTS
    NThreads = 2
    NNodes = 1
    NRows = 3
    NChunks = 1
CHECK_DEADLOCK FALSE
INVARIANT
    SharesKept
