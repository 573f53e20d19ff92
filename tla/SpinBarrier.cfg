SPECIFICATION FairSpec
CONSTANTS
    Threads = {t1, t2, t3, t4}
    MaxWaits = 4
INVARIANTS
    TypeOK
PROPERTIES
    BarrierSpec
    WaitEnds
