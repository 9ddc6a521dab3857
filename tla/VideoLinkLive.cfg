\* One restart, the radio clears at some time; 4 blocks pass the restart window.
SPECIFICATION LiveSpec
CONSTANTS
    NumData = 1
    NumFec = 1
    UintRange = 64
    LenField = 1
    MinPacketLength = 2
    PackSize = 2
    NumInterfaces = 1
    RestartWindow = 1
    PastEndWords = {0}
    Adapters = {a1}
    DamagedSeqs = {}
    MaxBlocks = 4
    MaxEpoch = 1
    MaxQueue = 1
PROPERTY
    StreamResumes
