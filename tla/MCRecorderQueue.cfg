SPECIFICATION FairSpec
CONSTANTS
    Clips = {1, 3}
    StampOf <- MCStampOf
    MaxEntries = 4
    MaxSent = 3
    MaxFaults = 2
INVARIANTS
    TypeOK
    ClipsAccounted
    QueuedInOrder

    
CHECK_DEADLOCK FALSE
