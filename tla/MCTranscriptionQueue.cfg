SPECIFICATION FairSpec
CONSTANTS
    Calls = {1, 2}
    TalkgroupOf <- MCTalkgroupOf
    ShortCalls = {2}
    Workers = {w1, w2}
    MaxSaves = 1
    MaxFaults = 1
    PolicyMayFail = TRUE
INVARIANTS
    TypeOK
    
PROPERTIES
    DoneKept
    EveryJobEnds
CHECK_DEADLOCK FALSE
