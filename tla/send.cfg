SPECIFICATION FairSpec
CONSTANTS
    Channels = {0}
    Modulus = 100
    StartSeq = 0
    MaxFragments = 2
    MaxAttempts = 2
    MaxFaults = 1
INVARIANTS KeptUntilReceived QueuedOnce
PROPERTIES AckRetires InOrder EveryMessageArrives
CHECK_DEADLOCK FALSE
