SPECIFICATION FairSpec
CONSTANTS
    Calls = {1, 2, 3}
    DateOf <- MCDateOf
    DayOf <- MCDayOf
    Requests = {"r1"}
    Retention = 1
    BatchLimit = 2
    MaxTime = 3
    MaxStarts = 1
    MaxFaults = 1
INVARIANTS
    TypeOK
    SweepsSafe
PROPERTIES
    SweepsProgress
CHECK_DEADLOCK FALSE
