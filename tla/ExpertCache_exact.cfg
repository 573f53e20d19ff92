SPECIFICATION FairSpec
CONSTANTS
    Matrices = {m1, m2, m3, m4}
    NoMatrix = NoMatrix
    ExitSignal = ExitSignal
    Capacity = 3
    QueueDepth = 3
    WorkingSet = 3
    Selections = {{m1, m2, m3}, {m4}}
    MaxPrefetch = 1
    Speculative = FALSE
INVARIANTS
    TypeOK
    BufferOwnership
    LoadTracked
    SlotNamesRequest
    RingHasRoom
    ReleasedIsLoaded
    ReadTargetsOwner
PROPERTIES
    LayerCompletes
    DestroyCompletes
    EvictOnlyIdle
