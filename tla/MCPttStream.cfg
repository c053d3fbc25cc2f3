SPECIFICATION Spec
CONSTANTS
    a = a
    b = b
    NoOne = NoOne
    Nothing = Nothing
    Timer = Timer
    Users <- TwoUsers
    SeqSpace = 16
    require_keyframe = TRUE
    first_seq <- NearTheEnd
    sent_before = 14
    MaxPackets = 3
    MaxCalls = 3
SYMMETRY UserSymmetry
INVARIANTS
    VirtualStreamAdvances
    DecodableFromKeyframe
    RelativeOrderIsKept
    NackOfThisTurnIsExact
PROPERTIES
    AnswerOfThisTurnIsExact
CHECK_DEADLOCK FALSE
