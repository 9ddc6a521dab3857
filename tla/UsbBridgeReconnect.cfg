\* The device is unplugged once, plugged in again, and the app sends on.
SPECIFICATION LiveSpec
CONSTANTS
    HeaderLength = 2
    MaxPayload = 7
    MaxPacket = 3
    UsbBufferSize = 8
    UshortRange = 32
    Ports = {1}
    AppPorts = {1}
    Sizes = {1}
    MaxSent = 2
    MaxFaults = 1
    MaxWaiting = 0
CHECK_DEADLOCK FALSE
PROPERTY
    AppIsHeard
