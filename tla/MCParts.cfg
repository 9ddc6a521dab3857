\* Blocks of 4 DATA and 2 FEC packets, the transmission scheme drawn in
\* video_main_air.c; packets of 3 to 5 bytes with a length field of 1 byte, so
\* that read() fills a packet in one to two calls or leaves it between the
\* limits; three messages of the flight controller and one byte of noise, which
\* may be a size the parser takes (8) or does not take (36, also '$').  Three
\* plugins for two slots, and telemetry for two chunks on two adapters.
SPECIFICATION Spec
SYMMETRY PluginSymmetry
CONSTANTS
    NumData = 4
    NumFec = 2
    UintRange = 16
    LenField = 1
    MinPacketLength = 3
    PackSize = 5
    NumInterfaces = 2
    MaxBlocks = 2
    MaxEpoch = 1
    Positions = {0, 999, 1000, 1063, 1064, 1255, 1256, 1500, 1999, 2000, 2001, 65535}
    MaxMoved = 2
    InBufSize = 8
    NoiseBytes = {8, 36}
    MaxMsgs = 3
    MaxNoise = 1
    Chucksize = 2
    ReadBuf = 2
    Spare = 2
    Retransmissions = 2
    NumAir = 2
    SeqRange = 16
    MaxBytes = 5
    Plugins = {p1, p2, p3}
    MaxClients = 2
    MaxCommands = 1
CHECK_DEADLOCK FALSE
INVARIANTS
    FecRepairsBlock
    NothingStalePublished
    GoodDataAlwaysPublished
    ReadHasRoom
    BlockCoversStream
    RcRoundTrip
    MspV2CarriesChannels
    SumdCarriesChannels
    InBufHolds
    CleanStreamCut
    WholeMessagesOnly
    ParserFindsBack
    PluginKeepsPlace
    PluginGetsStream
