SPECIFICATION Spec
CONSTANTS
    Matrices = {m1, m2, m3, m4}
    NoMatrix = NoMatrix
    ExitSignal = ExitSignal
    Capacity = 3
    QueueDepth = 2
    WorkingSet = 1
    Selections <- AnySelection
    MaxPrefetch = 1
    Speculative = TRUE
SYMMETRY Symmetry
INVARIANT QueuedHasBuffer
CHECK_DEADLOCK FALSE
