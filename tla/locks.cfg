SPECIFICATION FairSpec
CONSTANTS
    Threads = {t1, t2}
    Flow = {f1, f2}
    Combat = {c1, c2}
    MaxDepth = 2
INVARIANTS RecordsTellTheTruth NoWaitCycle
PROPERTY EveryAcquireEnds
