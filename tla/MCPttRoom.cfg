SPECIFICATION Spec
CONSTANTS
    a = a
    b = b
    c = c
    NoOne = NoOne
    Nothing = Nothing
    Timer = Timer
    Users <- ThreeUsers
    MaxEvents = 3
SYMMETRY ThreeUserSymmetry
INVARIANTS
    TypeOK
    FormerSpeakerIsCleared
    RevokedSpeakerIsTold
    NoPhantomSpeaker
CHECK_DEADLOCK FALSE
