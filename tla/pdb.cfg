SPECIFICATION FairSpec
CONSTANTS
    Characters = {"k1"}
    Accounts = {"a1"}
    Owner <- MCOwner
    Flushers = {"f1"}
    Deletable = {"k1"}
    MaxClock = 2
    MaxFailures = 1
    MaxCrashes = 1
    MaxCloses = 1
INVARIANTS NothingLost DurableIsOneCut FlushedSurvives
PROPERTIES FlushIsAnswered PublishedIsWritten
CHECK_DEADLOCK FALSE
