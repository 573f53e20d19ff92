SPECIFICATION FairSpec
CONSTANTS
    Threads = {t0, t1, t2}
    Main = t0
    BatchSize = 2
    Experts = {e1, e2}
    NUsed = 2
    HiddenDim = 3
    ChunkSize = 2
INVARIANTS
    TypeOK
    PhasesApart
    SummandsExact
PROPERTIES
    ComputesLayer
    NodeEnds
