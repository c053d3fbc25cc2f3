SPECIFICATION Spec
CONSTANTS
    None = None
    Conns = {c1, c2}
    Users = {u1, u2}
    Rooms = {r1}
    MaxJoins = 2
    MaxCalls = 4
PROPERTIES
    CleanupRemovesItsOwn
CHECK_DEADLOCK FALSE
