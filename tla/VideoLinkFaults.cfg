\* Two interfaces on the UAV and one adapter on the ground, losses, damaged copies
\* that show a place of the second block, and one restart of the transmitter,
\* whose blocks reach past the restart window.
SPECIFICATION Spec
CONSTANTS
    NumData = 2
    NumFec = 1
    UintRange = 64
    LenField = 1
    MinPacketLength = 2
    PackSize = 2
    NumInterfaces = 2
    RestartWindow = 1
    PastEndWords = {0}
    Adapters = {a1}
    DamagedSeqs = {3}
    MaxBlocks = 3
    MaxEpoch = 1
    MaxQueue = 1
INVARIANTS
    OutputInOrder
    PublishesOwnBlock
    RestartDropsOldRun
    RestartsCounted
