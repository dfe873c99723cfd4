SPECIFICATION FairSpec
CONSTANTS
    Players = {a, b}
    MaxMatches = 1
    Workers = {w1}
    RoundsToWin = 1
    MaxSessions = 2
    MaxEvents = 1
    None = none
PROPERTIES LoadingEnds
CHECK_DEADLOCK FALSE
