SPECIFICATION Spec
CONSTANTS
    None = None
    ExtId = 6
    SeqRange = 8
    Capacity = 4
    StepBack = 1
    Symbols = 3
    Byte = 4
    LargeDeltas <- Large
    RefMod = 4
    FeedbackMod = 2
    Tick = 2
    Gaps <- Waits
    Extensions <- Shapes
    Jump = 3
    Overtaking = 2
    MaxSent = 9
    MaxTime = 21
INVARIANTS
    TypeOK
    ReportsWhatArrived
    TimesAreTrue
    EachIsCoveredOnce
CHECK_DEADLOCK FALSE
