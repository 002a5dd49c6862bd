SPECIFICATION FairSpec
CONSTANTS
    Requests = {r1, r2}
    Clips = {c1}
    RadioSets = {s1, s2}
    MaxCalls = 3
    MaxRestarts = 1
    DbMayFail = TRUE
INVARIANTS
    TypeOK
    DeliveredOnce
    AnswersStand
PROPERTIES
    ImplementsDelivery
CHECK_DEADLOCK FALSE
