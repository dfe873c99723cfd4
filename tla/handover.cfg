SPECIFICATION FairHandover
CONSTANTS
    NumEndpoints = 2
    MaxSessions = 2
    MaxGains = 1
    MaxRefusals = 1
    Served = {1}
 
PROPERTIES SourceStaysSilent EndpointIsFreed
CHECK_DEADLOCK FALSE
