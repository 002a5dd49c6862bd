CONSTANTS
    c1 = c1
    c2 = c2
    g1 = g1
    g2 = g2
    Loop = loop
    Channels = {c1, c2}
    Groups = {g1, g2}
    GroupOf <- MCGroupOf
    Virtual = {"own"}
    Sources = {s1}
    Choices <- MCChoices
    Listeners = {l1}
    Uploaders = {u1}
    Requests = {r1}
    ChannelSize = 1
    SeedLimit = 1
    MaxCalls = 2
    MaxEdits = 1
SPECIFICATION StreamSpec
INVARIANT PttReachesListeners
CHECK_DEADLOCK FALSE
