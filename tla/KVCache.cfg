SPECIFICATION FairSpec
CONSTANTS
    s1 = s1
    s2 = s2
    a = a
    Size = 3
    MinKv = 1
    SeqIds = {s1, s2}
    AnySeq = AnySeq
    Tokens = {a}
    NoToken = NoToken
    Free = Free
    MaxPos = 1
    MaxRot = 1
    Batches <- MCBatches
    Spans <- MCSpans
    Deltas <- MCDeltas
    TiesCopies = TRUE
INVARIANTS
    TypeOK
    CellsExact
PROPERTIES
    FailsOnlyWhenFull
    IsStore
    DecodeReturns
