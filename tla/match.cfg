SPECIFICATION FairSpec
CONSTANTS
    Players = {a, b}
    MaxMatches = 2
    Workers = {w1}
    RoundsToWin = 2
    MaxSessions = 2
    MaxEvents = 2
    None = none
 
PROPERTIES FinalPhaseStays PresentIsPaid StartedMatchEnds
CHECK_DEADLOCK FALSE
