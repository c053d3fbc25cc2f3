SPECIFICATION FairSpec
CONSTANTS
    None = None
    v = v
    a = a
    Videos = {v}
    Audios = {a}
    SeqRange = 8
    CacheSize = 4
    QueueSize = 2
    NackBits = 1
    Window = 1
    Overtaking = 1
    Mantissa = 18
    Bitrates <- Hints
    Compounds <- Asked
    Earlier <- BeforeIt
    FirstPacket <- InitialPacket
    LastPacket <- FinalPacket
    MaxLosses = 1
    MaxReports = 1
INVARIANTS
    TypeOK
    RtxFillsTheGap
    RelayIsComplete
    RembIsClose

    
CHECK_DEADLOCK FALSE
