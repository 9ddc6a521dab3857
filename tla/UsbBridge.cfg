\* A header of 2 bytes, packets of 3: messages of 1 byte go in one packet, of
\* 4 in two, of 7 (as much as the parser takes) in three; 8 are too many.  One
\* port belongs to a module that is not activated.
SPECIFICATION Spec
CONSTANTS
    HeaderLength = 2
    MaxPayload = 7
    MaxPacket = 3
    UsbBufferSize = 8
    UshortRange = 32
    Ports = {1}
    AppPorts = {1, 2}
    Sizes = {1, 4, 7, 8}
    MaxSent = 4
    MaxFaults = 2
    MaxWaiting = 0
CHECK_DEADLOCK FALSE
INVARIANTS
    UsbTypeOK
    NoOverrun
    RoutedInOrder
    FindsBack
