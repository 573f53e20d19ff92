SPECIFICATION FairSpec
CONSTANTS
    Threads = {t0, t1}
    Main = t0
    Rows = {r1, r2}
    Experts = {e1, e2}
    NUsed = 1
    NLayers = 2
    NoTask = NoTask
INVARIANTS
    TypeOK
    CountsExact
    QueueExact
    InputsReady
PROPERTIES
    ComputesLayer
    LayerEnds
