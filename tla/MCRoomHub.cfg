SPECIFICATION Spec
CONSTANTS
    None = None
    Participants = {p1, p2}
    Users = {u1, u2}
    Rooms = {r1}
    capacity = 1
    Shards = 2
    shard <- MCShard
    Addrs = {a1, a2}
    Workers = {w1, w2}
    MaxBindings = 2
SYMMETRY Alike
INVARIANTS
    JoinedIsRegistered
    RemovedLeavesNoTrace
    MediaIsFound
    OverbookingIsBounded
CHECK_DEADLOCK FALSE
