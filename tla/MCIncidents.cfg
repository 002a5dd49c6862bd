SPECIFICATION FairIncidentsSpec
CONSTANTS
    IncidentIds = {i1}
    Exposures = {"community", "members", "internal"}
    Requests = {r1, r2}
    MaxToken = 2
    MaxEra = 2
    MaxStarts = 3
    MaxFaults = 1
INVARIANTS
    IncidentsTypeOK
    
PROPERTIES
    PurgeKeepsRetention
    StoppingEnds
CHECK_DEADLOCK FALSE
