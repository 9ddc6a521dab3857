\* Copies of one chunk at the proxy.
SPECIFICATION Spec
CONSTANTS
    Chucksize = 1
    ReadBuf = 1
    Spare = 2
    Retransmissions = 2
    NumAir = 1
    SeqRange = 4
    MaxBytes = 2
    Clients = {c1}
    Empty = Empty
    Failed = Failed
    MaxClients = 1
    ServedSlots = 1
    MaxMessages = 0
    MaxFailures = 0
    GndAdapters = {a1}
    MaxQueue = 1
CHECK_DEADLOCK FALSE
INVARIANT
    ChunkLoggedOnce
