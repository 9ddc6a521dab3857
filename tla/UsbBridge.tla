------------------------------ MODULE UsbBridge ------------------------------
(***************************************************************************)
(* The USB bridge of the ground station (usbbridge_main.c, linux_aoa.c):   *)
(* messages of the app arrive over USB in one or several packets, are put  *)
(* together by process_db_usb_proto and go to the sockets of the other     *)
(* modules.  The device may be unplugged and plugged in again, and the app *)
(* may stop in the middle of a message.                                    *)
(*                                                                         *)
(* A byte is the number of its message and its place in it, the header     *)
(* first; no payload looks like a header.  The app is not part of the      *)
(* repository: it splits its messages as db_usb_write_async_zc does.       *)
(***************************************************************************)
EXTENDS Integers, Sequences, FiniteSets

CONSTANTS
    HeaderLength,   \* DB_AOA_HEADER_LENGTH, 6
    MaxPayload,     \* DB_AOA_MAX_PAY_LENGTH, 1530
    MaxPacket,      \* get_db_usb_max_packet_size: wMaxPacketSize - 7
    UsbBufferSize,  \* USB_BUFFER_SIZ, 1024
    UshortRange,    \* 2^16
    Ports,          \* ports of modules that are activated
    AppPorts,       \* ports the app sends to
    Sizes,          \* payload sizes of the messages of the app
    MaxSent,        \* bound: messages of the app
    MaxFaults,      \* bound: unplugged, or stopped within a message
    MaxWaiting      \* bound: packets on the way before the app sends on

ASSUME UsbAssumption ==
    /\ HeaderLength \in Nat \ {0} /\ MaxPayload \in Nat \ {0}
    /\ MaxPacket \in Nat /\ HeaderLength < MaxPacket
    /\ UsbBufferSize \in Nat /\ UshortRange \in Nat \ {0}
    /\ MaxPacket + HeaderLength <= UsbBufferSize
    /\ UsbBufferSize - HeaderLength <= MaxPayload
    /\ Ports \subseteq AppPorts /\ Sizes \subseteq Nat \ {0}
    /\ MaxSent \in Nat /\ MaxFaults \in Nat /\ MaxWaiting \in Nat

VARIABLES
    parser,            \* usb_parser_state and the static variables of the parser
    device_connected,
    keeprunning,
    poll_usb,          \* the descriptor of the device in poll_fds
    notifiers,         \* usb_fd_added is registered with the libusb context
    device,            \* "open": the accessory is the one the bridge talks to
    usb_in,            \* packets of the app on their way
    sent,              \* history: messages of the app
    whole,             \* history: messages the app did not break off
    safe,              \* history: messages sent before the last fault
    routed,            \* history: what went to the sockets of the modules
    faults             \* history: number of faults

vars == <<parser, device_connected, keeprunning, poll_usb, notifiers, device,
          usb_in, sent, whole, safe, routed, faults>>
linkVars == <<device_connected, keeprunning, poll_usb, notifiers, device>>
appVars == <<usb_in, sent, whole, safe, faults>>

-----------------------------------------------------------------------------
(* db_usb_write_async_zc: how a message is cut into packets.               *)

TotalLength(size) == size + HeaderLength
Minimum(a, b) == IF a <= b THEN a ELSE b

NumChunks(size) ==
    IF size <= MaxPacket THEN 1
    ELSE (TotalLength(size) + MaxPacket - 1) \div MaxPacket
ChunkEnd(size, i) ==
    IF size <= MaxPacket THEN TotalLength(size)
    ELSE Minimum(i * MaxPacket, TotalLength(size))
ChunkStart(i) == (i - 1) * MaxPacket

Packet(m, port, size, i) ==
    [msg |-> m, port |-> port, size |-> size, first |-> ChunkStart(i),
     len |-> ChunkEnd(size, i) - ChunkStart(i)]

-----------------------------------------------------------------------------
(* process_db_usb_proto.                                                   *)

Searching == "SEARCHING_HEADER"
Awaiting  == "AWAITING_PAYLOAD"
Nothing   == [msg |-> 0, at |-> 0]

\* db_usb_parser_buffer and as many bytes behind it as a packet could reach.
Memory == 0 .. MaxPayload + UsbBufferSize - 1

PacketByte(pkt, i) == [msg |-> pkt.msg, at |-> pkt.first + i]

\* Mutant: what comes later goes to the start of the buffer as well.
CopyToStart(buffer, dest, pkt, from) ==
    [j \in Memory |-> IF j \in 0 .. pkt.len - from - 1
                      THEN PacketByte(pkt, from + j) ELSE buffer[j]]

\* memcpy of the bytes of pkt from place from on.
Copy(buffer, dest, pkt, from) ==
    [j \in Memory |-> IF j \in dest .. dest + pkt.len - from - 1
                      THEN PacketByte(pkt, from + j - dest) ELSE buffer[j]]

HasHeader(pkt) == pkt.first = 0 /\ pkt.len >= HeaderLength

\* Mutant: the size is not compared with the buffer.
TooBigNever(size) == FALSE

TooBig(size) == size > MaxPayload

\* What goes to the module: payload_size bytes of the buffer, or of the packet.
FromBuffer(buffer, size) == [i \in 1 .. size |-> buffer[i - 1]]
FromPacket(pkt, size) == [i \in 1 .. size |-> PacketByte(pkt, HeaderLength + i - 1)]

\* db_usb_route_data_tcp; send() to a module that does not take it fails.
Route(port, bytes) ==
    routed' = IF port \in Ports THEN Append(routed, [port |-> port, bytes |-> bytes])
                                ELSE routed

HeaderPacket(pkt) ==
    LET known == [parser EXCEPT !.port = pkt.port, !.payload_size = pkt.size]
        rest  == pkt.len - HeaderLength
    IN  CASE TooBig(pkt.size) -> parser' = known /\ UNCHANGED routed
          [] ~TooBig(pkt.size) /\ rest = pkt.size ->
                parser' = known /\ Route(pkt.port, FromPacket(pkt, pkt.size))
          [] OTHER ->
                /\ parser' = [known EXCEPT
                                !.state     = Awaiting,
                                !.buff_size = (@ + rest) % UshortRange,
                                !.buffer    = Copy(@, 0, pkt, HeaderLength)]
                /\ UNCHANGED routed

\* Mutants: what does not fit is left counted; it is taken back.
DroppedKeepsSize(p) == [p EXCEPT !.state = Searching]
DroppedSubtracts(p) == [p EXCEPT !.state = Searching, !.buff_size = @ - p.payload_size]

Dropped(p) == [p EXCEPT !.state = Searching, !.buff_size = 0]

PayloadPacket(pkt) ==
    LET filled == parser.buff_size + pkt.len
        copied == Copy(parser.buffer, parser.buff_size, pkt, 0)
    IN  CASE filled = parser.payload_size ->
                /\ parser' = [parser EXCEPT !.state = Searching, !.buff_size = 0,
                                            !.buffer = copied]
                /\ Route(parser.port, FromBuffer(copied, parser.payload_size))
          [] filled < parser.payload_size ->
                /\ parser' = [parser EXCEPT !.buff_size = filled, !.buffer = copied]
                /\ UNCHANGED routed
          [] filled > parser.payload_size ->
                parser' = Dropped(parser) /\ UNCHANGED routed

process_db_usb_proto(pkt) ==
    CASE parser.state = Searching /\ HasHeader(pkt) -> HeaderPacket(pkt)
      [] parser.state = Awaiting -> PayloadPacket(pkt)
      [] OTHER -> UNCHANGED <<parser, routed>>

-----------------------------------------------------------------------------
Init ==
    /\ parser = [state |-> Searching, port |-> 0, payload_size |-> 0, buff_size |-> 0,
                 buffer |-> [j \in Memory |-> Nothing]]
    /\ device_connected = TRUE
    /\ keeprunning = TRUE
    /\ poll_usb = "device"
    /\ notifiers = TRUE
    /\ device = "open"
    /\ usb_in = <<>>
    /\ sent = <<>>
    /\ whole = {}
    /\ safe = 0
    /\ routed = <<>>
    /\ faults = 0

(* The app and the cable.                                                  *)

\* The app writes the first n packets of a message; it breaks off if n is not
\* all of them.
AppSends(port, size, n) ==
    LET m == Len(sent) + 1
        all == n = NumChunks(size)
    IN  /\ device = "open" /\ device_connected
        /\ m <= MaxSent /\ Len(usb_in) <= MaxWaiting
        /\ n \in 1 .. NumChunks(size)
        /\ all \/ faults < MaxFaults
        /\ usb_in' = usb_in \o [i \in 1 .. n |-> Packet(m, port, size, i)]
        /\ sent' = Append(sent, [port |-> port, size |-> size])
        /\ whole' = IF all THEN whole \cup {m} ELSE whole
        /\ safe' = IF all THEN safe ELSE m
        /\ faults' = IF all THEN faults ELSE faults + 1
        /\ UNCHANGED <<parser, linkVars, routed>>

Unplug ==
    /\ device # "gone" /\ faults < MaxFaults
    /\ device' = "gone"
    /\ usb_in' = <<>>
    /\ safe' = Len(sent)
    /\ faults' = faults + 1
    /\ UNCHANGED <<parser, device_connected, keeprunning, poll_usb, notifiers,
                   sent, whole, routed>>

Plug ==
    /\ device = "gone"
    /\ device' = "new"
    /\ UNCHANGED <<parser, device_connected, keeprunning, poll_usb, notifiers,
                   usb_in, sent, whole, safe, routed, faults>>

(* The poll loop.                                                          *)

\* callback_usb_async_complete for the reading transfer, which is submitted
\* again.  Without the descriptor in poll_fds nobody calls libusb.
ReceivePacket ==
    /\ keeprunning /\ device_connected /\ poll_usb # "none"
    /\ usb_in # <<>>
    /\ process_db_usb_proto(Head(usb_in))
    /\ usb_in' = Tail(usb_in)
    /\ UNCHANGED <<linkVars, sent, whole, safe, faults>>

\* The device is gone: the transfer ends with LIBUSB_TRANSFER_NO_DEVICE, and
\* its descriptor, which reports an error, is taken out of poll_fds.
DeviceGone ==
    /\ keeprunning /\ device_connected /\ poll_usb # "none"
    /\ device # "open"
    /\ device_connected' = FALSE
    /\ poll_usb' = "none"
    /\ UNCHANGED <<parser, keeprunning, notifiers, device, appVars, routed>>

\* A message of a module for the app cannot be submitted.  (With the device
\* there, it is handed to the driver and nothing in the bridge changes.)
WriteFails ==
    /\ keeprunning /\ device_connected /\ device # "open"
    /\ device_connected' = FALSE
    /\ UNCHANGED <<parser, keeprunning, poll_usb, notifiers, device, appVars, routed>>

\* libusb_exit deletes the context and with it the notifiers; libusb_init
\* makes a new one, which reports the descriptor of the device to nobody.  The
\* handle of a device that is gone is not closed: its descriptor stays in
\* poll_fds if DeviceGone did not remove it.
NotifiersAfterExit == FALSE
UsbFdAdded(registered) ==
    IF registered THEN "device"
    ELSE IF poll_usb = "device" THEN "left over" ELSE poll_usb

ParserAfterReconnect(p) == [p EXCEPT !.state = Searching]

Reconnect ==
    /\ keeprunning /\ ~device_connected /\ device = "new"
    /\ notifiers' = NotifiersAfterExit
    /\ poll_usb' = UsbFdAdded(NotifiersAfterExit)
    /\ parser' = ParserAfterReconnect(parser)
    /\ device_connected' = TRUE
    /\ device' = "open"
    /\ UNCHANGED <<keeprunning, appVars, routed>>

\* The device does not show up in accessory mode: init_db_accessory gives up
\* and the bridge ends.
InitFails ==
    /\ keeprunning /\ ~device_connected /\ device = "new"
    /\ keeprunning' = FALSE
    /\ UNCHANGED <<parser, device_connected, poll_usb, notifiers, device, appVars, routed>>

\* usb_fd_removed for the descriptor of the device before, which poll()
\* reports at once; until then its events make the bridge call libusb.
LeftOverRemoved ==
    /\ keeprunning /\ device_connected /\ poll_usb = "left over"
    /\ poll_usb' = "none"
    /\ UNCHANGED <<parser, device_connected, keeprunning, notifiers, device, appVars, routed>>

Next ==
    \/ \E port \in AppPorts, size \in Sizes, n \in 1 .. MaxPayload : AppSends(port, size, n)
    \/ Unplug
    \/ Plug
    \/ ReceivePacket
    \/ DeviceGone
    \/ WriteFails
    \/ Reconnect
    \/ InitFails
    \/ LeftOverRemoved

Spec == Init /\ [][Next]_vars

-----------------------------------------------------------------------------
MessageBytes == [msg : Nat, at : Nat]
PacketsOf == [msg : Nat, port : AppPorts, size : Sizes, first : Nat, len : Nat]

UsbTypeOK ==
    /\ parser \in [state : {Searching, Awaiting}, port : AppPorts \cup {0},
                   payload_size : Nat, buff_size : Nat,
                   buffer : [Memory -> MessageBytes]]
    /\ device_connected \in BOOLEAN /\ keeprunning \in BOOLEAN
    /\ poll_usb \in {"device", "left over", "none"} /\ notifiers \in BOOLEAN
    /\ device \in {"open", "gone", "new"}
    /\ usb_in \in Seq(PacketsOf)
    /\ sent \in Seq([port : AppPorts, size : Sizes])
    /\ whole \subseteq Nat /\ safe \in Nat /\ faults \in Nat
    /\ routed \in Seq([port : Ports, bytes : Seq(MessageBytes)])

\* process_db_usb_proto never writes behind db_usb_parser_buffer, whatever
\* sizes the headers announce and whatever the parser kept from a message
\* that was broken off, by the app or by the cable.
NoOverrun == \A j \in Memory : j >= MaxPayload => parser.buffer[j] = Nothing

\* "Forward to sockets if complete" (usbbridge_main.c:259): until the first
\* fault, what the modules got are the messages of the app, each one entire, once, in
\* order and on its port, however it was split.
Entry(m) == [port  |-> sent[m].port,
             bytes |-> [i \in 1 .. sent[m].size |-> [msg |-> m, at |-> HeaderLength + i - 1]]]
Accepted(m) == ~TooBig(sent[m].size) /\ sent[m].port \in Ports
Arrived(m) == \A i \in 1 .. Len(usb_in) : usb_in[i].msg # m

RoutedInOrder ==
    faults = 0 =>
        LET due == {m \in 1 .. Len(sent) : Accepted(m) /\ Arrived(m)}
        IN  /\ Len(routed) = Cardinality(due)
            /\ \A m \in due :
                  routed[Cardinality({k \in due : k <= m})] = Entry(m)

\* The parser finds back after a fault.  Of the messages sent whole since the
\* last one, those that were swallowed or garbled are fewer bytes than the
\* longest message has, not counting the one at which the parser gave up: no
\* sequence of messages is lost for ever.
Lost == {m \in whole : /\ m > safe /\ Accepted(m) /\ Arrived(m)
                        /\ \A i \in 1 .. Len(routed) : routed[i] # Entry(m)}
BytesOf(S) == UNION {[msg : {m}, at : 0 .. TotalLength(sent[m].size) - 1] : m \in S}

FindsBack == \A m \in Lost : Cardinality(BytesOf({k \in Lost : k < m})) < MaxPayload

-----------------------------------------------------------------------------
\* The loop polls, the kernel delivers, and some module always has something
\* for the app, so that a lost device is noticed by a failing write.
Fairness ==
    /\ WF_vars(ReceivePacket)
    /\ WF_vars(DeviceGone)
    /\ WF_vars(WriteFails)
    /\ WF_vars(Reconnect)

LiveSpec == Spec /\ Fairness

\* "Resubmit reading request no matter what happened" (usbbridge_main.c:351):
\* what the app sends over an established connection is read.
AppIsHeard ==
    (device_connected /\ usb_in # <<>>) ~> (usb_in = <<>> \/ ~keeprunning)
=============================================================================
