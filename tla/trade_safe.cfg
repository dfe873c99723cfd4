SPECIFICATION Spec
CONSTANTS
    Items = {"sword"}
    StartItems <- MCOneSword
    StartGold <- MCOneGold
    Gatherers = {}
    Autosaved = {"requester"}
    Crashing = TRUE
    MaxCommands = 1
INVARIANTS FinalRowIsFinal 
CHECK_DEADLOCK FALSE
