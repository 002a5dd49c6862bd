SPECIFICATION Spec
CONSTANTS
    Hubs = {a, b}
    Configured = {a}
    Known = {b}
    Official = {b}
    Levels <- MCLevels
    MaxInvites = 1
    MaxActs = 3
INVARIANTS
    TypeOK
    HandshakeSound
    IdentitySound
CHECK_DEADLOCK FALSE
