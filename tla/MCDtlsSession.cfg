SPECIFICATION FairSpec
CONSTANTS
    None = None
    Stale = Stale
    Clients = {k1, k2}
    Subscribers = {k2}
    Addrs = {a1, a2}
    Tasks = {t1, t2}
    Capacity = 1
    Flights = 2
    MaxMishaps = 1
INVARIANTS
    LiveSessionIsMapped
    KeysAreTheClients
    OneEgressTask
PROPERTIES
    WorkerIsReleased
    ClientGetsItsKeys
CHECK_DEADLOCK FALSE
