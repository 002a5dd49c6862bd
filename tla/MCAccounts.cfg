CONSTANTS
    Users = {a, b}
    Bootstrap = a
    AutoApprove = TRUE
    Requests = {r1, r2}
    MaxLinks = 1
    MaxSessions = 2
    MaxPasswords = 2
    MaxActs = 3
SPECIFICATION Spec
INVARIANTS TypeOK SessionsSound AdminRemains
CHECK_DEADLOCK FALSE
