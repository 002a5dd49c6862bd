SPECIFICATION FairSpec
CONSTANTS
    Uploaders = {u1, u2}
    Clients = {c1}
    SendBuffer = 2
    ReplayLimit = 2
    MaxCalls = 4
    MaxBeats = 1
    MaxDrops = 1
    ListMayFail = TRUE
INVARIANTS
    TypeOK
    ReplaySound
    NothingElseLosesTraffic
PROPERTIES
    BroadcastReachesClient
CHECK_DEADLOCK FALSE
