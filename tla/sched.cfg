SPECIFICATION FairScheduler
CONSTANTS
    Handles = {h1, h2}
    WorkerCount = 2
    MaxPending = 2
    CompactAt = 2
    Intervals = {0, 1}
    MaxTime = 1
    MaxShutdowns = 1
INVARIANT CountersExact
PROPERTIES EveryHandleEnds
CHECK_DEADLOCK FALSE
