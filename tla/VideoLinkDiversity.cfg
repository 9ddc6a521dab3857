\* Two ground adapters, losses, no damaged frame, no restart.
SPECIFICATION Spec
CONSTANTS
    NumData = 2
    NumFec = 1
    UintRange = 64
    LenField = 1
    MinPacketLength = 2
    PackSize = 2
    NumInterfaces = 1
    RestartWindow = 2
    PastEndWords = {0}
    Adapters = {a1, a2}
    DamagedSeqs = {}
    MaxBlocks = 3
    MaxEpoch = 0
    MaxQueue = 3
INVARIANTS
    TypeOK
    SlotsHoldOwnBlock
    UndamagedIsIntact
    LenCountsStored
PROPERTY
    ForeignFrameIgnored
    VideoIsLossyStream
