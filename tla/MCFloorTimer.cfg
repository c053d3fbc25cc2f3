SPECIFICATION Spec
CONSTANTS
    a = a
    b = b
    c1 = c1
    c2 = c2
    NoOne = NoOne
    Users <- MCUsers
    Connections <- MCConnections
    MaxBurst = 5
    PingTimeout = 3
    Interval = 2
    Delay = 1
    MaxTime = 11
SYMMETRY Alike
INVARIANTS
    TypeOK
    BurstBounded
    SilenceBounded
PROPERTIES
    RevokeJustified
    LeaseSpec
CHECK_DEADLOCK FALSE
