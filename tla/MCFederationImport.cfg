SPECIFICATION FairImportSpec
CONSTANTS
    MaxRemoteId = 4
    ImportCap = 3
    PageLimit = 2
    MaxForgets = 1
    MaxFaults = 1
INVARIANTS
    ImportTypeOK
    ImportsSound
PROPERTY LiveCallsImported
CHECK_DEADLOCK FALSE
