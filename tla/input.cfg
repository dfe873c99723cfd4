CONSTANTS
    Workers = {w1, w2}
    Receiver = receiver
    Retirer = retirer
    Free = free
    None = none
    Maps = {m1, m2}
    BatchLimit = 2
    QueueLimit = 2
    MaxInputs = 3
    MaxChanges = 1
    MaxFaults = 1
SPECIFICATION Spec
INVARIANTS
    QueueHasOneConsumer
    InputOrder
    CommandsSeeTheirMoves
    DurableIsKept
    FinalSnapshotIsFinal
SYMMETRY Symmetry
CHECK_DEADLOCK FALSE
