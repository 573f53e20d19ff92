SPECIFICATION FairSpec
CONSTANTS
    NThreads = 3
    NNodes = 2
    NRows = 5
    NChunks = 1
CHECK_DEADLOCK FALSE
INVARIANTS
    TypeOK
    ServesAlone
    InputsReady
PROPERTY
    GraphEnds
