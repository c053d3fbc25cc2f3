SPECIFICATION FairSpec
CONSTANTS
    a = a
    b = b
    c = c
    NoOne = NoOne
    Nothing = Nothing
    Timer = Timer
    Users <- TwoUsers
    MaxEvents = 3
PROPERTIES
    FloorIsFreed
    BeliefIsCorrected
CHECK_DEADLOCK FALSE
