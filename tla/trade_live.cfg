SPECIFICATION FairSpec
CONSTANTS
    Items = {"herb"}
    StartItems <- MCNoItems
    StartGold <- MCOneGold
    Gatherers = {"requester", "invited"}
    Autosaved = {}
    Crashing = FALSE
    MaxCommands = 0
INVARIANT EverythingOnce
PROPERTIES BusyEnds RetirementEnds
CHECK_DEADLOCK FALSE
