SPECIFICATION Spec
CONSTANTS
    None = None
    Conns = {c1, c2}
    Users = {u1, u2}
    Rooms = {r1}
    MaxJoins = 3
    MaxCalls = 5
SYMMETRY Alike
INVARIANTS
    TypeOK
    TracksAreKnown
    NoPhantomTrack
    MuteStateIsKnown
    MembersAreKnown
CHECK_DEADLOCK FALSE
