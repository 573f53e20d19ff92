SPECIFICATION FairSpec
CONSTANTS
    MaxThreads = 4
    Parties = 4
    Phases = 2
    NGroups = 4
    NBlocks = 3
    NWords = 3
    WordRows = 2
    ChunkSize = 4
INVARIANTS
    TypeOK
    StagesInOrder
PROPERTIES
    ReturnsTogether
    HeadEnds
