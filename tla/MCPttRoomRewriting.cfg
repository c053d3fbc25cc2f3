SPECIFICATION Spec
CONSTANTS
    a = a
    b = b
    c = c
    NoOne = NoOne
    Nothing = Nothing
    Timer = Timer
    Users <- TwoUsers
    MaxEvents = 3
INVARIANTS
    HolderIsRewritten
CHECK_DEADLOCK FALSE
