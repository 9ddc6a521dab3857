\* Two clients and a failing accept for a table of two slots, both served; two
\* ground adapters, one of which may lag; chunks of two or three bytes, sent twice.
SPECIFICATION LiveSpec
CONSTANTS
    Chucksize = 2
    ReadBuf = 2
    Spare = 2
    Retransmissions = 2
    NumAir = 1
    SeqRange = 2
    MaxBytes = 3
    Clients = {c1, c2}
    Empty = Empty
    Failed = Failed
    MaxClients = 2
    ServedSlots = 2
    MaxMessages = 1
    MaxFailures = 1
    GndAdapters = {a1, a2}
    MaxQueue = 2
CHECK_DEADLOCK FALSE
INVARIANTS
    TelemetryTypeOK
    ChunkCoversSerial
    LogInOrder
    NewFrameLogged
    ServedClientFollowsLog
PROPERTY
    StoredClientRelayed
