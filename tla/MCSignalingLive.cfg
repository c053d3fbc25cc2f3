SPECIFICATION FairSpec
CONSTANTS
    None = None
    Conns = {c1, c2}
    Users = {u1, u2}
    Rooms = {r1, r2}
    MaxJoins = 2
    MaxCalls = 4
PROPERTIES
    GhostsAreReaped
CHECK_DEADLOCK FALSE
