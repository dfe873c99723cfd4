SPECIFICATION FairSpec
CONSTANTS
    Channels = {0}
    Modulus = 12
    Start = 10
    ReliableWindow = 2
    OrderWindow = 1
    History = 2
    SplitLimit = 1
    ClientWindow = 3
    MaxMessages = 3
    MaxFrames = 4
    MaxParts = 2
    MaxFaults = 1
    MaxRaises = 1
INVARIANTS AckedIsKept OnceInOrder
PROPERTIES InOrder EveryMessageArrives
CHECK_DEADLOCK FALSE
