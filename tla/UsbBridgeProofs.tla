--------------------------- MODULE UsbBridgeProofs ---------------------------
(***************************************************************************)
(* Proofs about UsbBridge, for every packet size, payload limit and set of *)
(* message sizes: process_db_usb_proto stays within its buffer, until the  *)
(* first fault the modules get the messages of the app in order, and after *)
(* any fault the parser gets back in step within one payload.              *)
(***************************************************************************)
EXTENDS UsbBridge, FiniteSetTheorems, TLAPS

\* No packet is longer than the transfer buffer it is read into.
PacketsFit == \A i \in 1 .. Len(usb_in) : usb_in[i].len <= UsbBufferSize

\* A payload is awaited only if its size was found good.
AwaitedFits == parser.state = Awaiting => parser.payload_size <= MaxPayload

\* What concerns the parser, the link and the app.
ParserStates == [state : {Searching, Awaiting}, port : AppPorts \cup {0},
                 payload_size : Nat, buff_size : Nat, buffer : [Memory -> MessageBytes]]
RoutedOK == routed \in Seq([port : Ports, bytes : Seq(MessageBytes)])
ParserOK == parser \in ParserStates /\ RoutedOK /\ NoOverrun /\ AwaitedFits
LinkOK ==
    /\ device_connected \in BOOLEAN /\ keeprunning \in BOOLEAN
    /\ poll_usb \in {"device", "left over", "none"} /\ notifiers \in BOOLEAN
    /\ device \in {"open", "gone", "new"}
AppOK ==
    /\ usb_in \in Seq(PacketsOf)
    /\ sent \in Seq([port : AppPorts, size : Sizes])
    /\ whole \subseteq Nat /\ safe \in Nat /\ faults \in Nat

UsbInv == LinkOK /\ AppOK /\ PacketsFit /\ ParserOK

USE UsbAssumption

-----------------------------------------------------------------------------
(* How a message is cut.                                                   *)

\* What (a + b - 1) / b counts: the pieces of length b that begin within a.
LEMMA PiecesBegin ==
    ASSUME NEW a \in Nat \ {0}, NEW b \in Nat \ {0}, NEW i \in Nat \ {0},
           i <= (a + b - 1) \div b
    PROVE  (i - 1) * b < a
<1>. DEFINE q == (a + b - 1) \div b
<1>1. q \in Nat /\ b * q <= a + b - 1
  OBVIOUS
<1>. HIDE DEF q
<1>2. i * b <= b * q
  BY <1>1 DEF q
<1>3. (i - 1) * b = i * b - b
  OBVIOUS
<1>. QED BY <1>1, <1>2, <1>3

\* Every packet has a length, and it fits into the buffer of the transfer.
LEMMA PacketFits ==
    ASSUME NEW m \in Nat, NEW port \in AppPorts, NEW size \in Sizes,
           NEW i \in 1 .. NumChunks(size)
    PROVE  Packet(m, port, size, i) \in PacketsOf
           /\ Packet(m, port, size, i).len <= UsbBufferSize
<1>. DEFINE first == ChunkStart(i)
            len   == ChunkEnd(size, i) - ChunkStart(i)
<1>1. size \in Nat \ {0} /\ TotalLength(size) \in Nat \ {0} /\ MaxPacket \in Nat \ {0}
  BY DEF TotalLength
<1>2. first \in Nat /\ len \in Nat /\ len <= UsbBufferSize
  <2>1. CASE size <= MaxPacket
    <3>1. i = 1
      BY <1>1, <2>1 DEF NumChunks
    <3>2. first = 0
      BY <3>1 DEF ChunkStart
    <3>3. len = size + HeaderLength
      BY <1>1, <2>1, <3>2 DEF ChunkEnd, TotalLength
    <3>. QED BY <1>1, <2>1, <3>2, <3>3
  <2>2. CASE ~(size <= MaxPacket)
    <3>1. i \in Nat \ {0} /\ i <= (TotalLength(size) + MaxPacket - 1) \div MaxPacket
      BY <1>1, <2>2 DEF NumChunks
    <3>2. (i - 1) * MaxPacket < TotalLength(size)
      BY <1>1, <3>1, PiecesBegin
    <3>3. (i - 1) * MaxPacket \in Nat /\ i * MaxPacket = (i - 1) * MaxPacket + MaxPacket
      BY <1>1, <3>1
    <3>4. /\ first = (i - 1) * MaxPacket
          /\ ChunkEnd(size, i) = Minimum(i * MaxPacket, TotalLength(size))
      BY <2>2 DEF ChunkStart, ChunkEnd
    <3>5. ChunkEnd(size, i) \in Nat /\ first <= ChunkEnd(size, i)
          /\ ChunkEnd(size, i) <= first + MaxPacket
      BY <1>1, <3>2, <3>3, <3>4 DEF Minimum
    <3>. QED BY <3>3, <3>4, <3>5
  <2>. QED BY <2>1, <2>2
<1>. HIDE DEF first, len
<1>3. Packet(m, port, size, i) =
        [msg |-> m, port |-> port, size |-> size, first |-> first, len |-> len]
  BY DEF Packet, first, len
<1>. QED BY <1>2, <1>3 DEF PacketsOf

-----------------------------------------------------------------------------
(* The parser.                                                             *)

\* A byte of a packet is a byte.
LEMMA PacketByteType ==
    ASSUME NEW pkt \in PacketsOf, NEW i \in Nat
    PROVE  PacketByte(pkt, i) \in MessageBytes
BY DEF PacketByte, PacketsOf, MessageBytes

\* memcpy keeps the type of the buffer and writes only what it is told.
LEMMA CopyWithin ==
    ASSUME NEW buffer \in [Memory -> MessageBytes], NEW pkt \in PacketsOf,
           NEW dest \in Nat, NEW from \in Nat,
           dest + pkt.len - from <= MaxPayload,
           \A j \in Memory : j >= MaxPayload => buffer[j] = Nothing
    PROVE  /\ Copy(buffer, dest, pkt, from) \in [Memory -> MessageBytes]
           /\ \A j \in Memory : j >= MaxPayload => Copy(buffer, dest, pkt, from)[j] = Nothing
<1>1. pkt.len \in Nat
  BY DEF PacketsOf
<1>2. ASSUME NEW j \in Memory
      PROVE  /\ j \in Nat
             /\ (IF j \in dest .. dest + pkt.len - from - 1
                 THEN PacketByte(pkt, from + j - dest) ELSE buffer[j]) \in MessageBytes
             /\ j >= MaxPayload => j \notin dest .. dest + pkt.len - from - 1
  <2>1. j \in Nat
    BY DEF Memory
  <2>2. ASSUME j \in dest .. dest + pkt.len - from - 1
        PROVE  PacketByte(pkt, from + j - dest) \in MessageBytes
    <3>1. from + j - dest \in Nat
      BY <2>1, <2>2
    <3>. QED BY <3>1, PacketByteType
  <2>. QED BY <1>1, <2>1, <2>2
<1>. QED BY <1>2 DEF Copy

\* What is routed is a sequence of bytes.
LEMMA RouteType ==
    ASSUME RoutedOK, NEW port, NEW bytes \in Seq(MessageBytes), Route(port, bytes)
    PROVE  RoutedOK'
<1>. DEFINE R == [port : Ports, bytes : Seq(MessageBytes)]
            r == [port |-> port, bytes |-> bytes]
<1>1. port \in Ports => r \in R
  OBVIOUS
<1>2. routed \in Seq(R) /\ routed' = IF port \in Ports THEN Append(routed, r) ELSE routed
  BY DEF RoutedOK, Route
<1>. HIDE DEF R, r
<1>3. routed' \in Seq(R)
  BY <1>1, <1>2
<1>. QED BY <1>3 DEF RoutedOK, R

\* The parser reads a packet while it looks for a header.
LEMMA HeaderPacketStep ==
    ASSUME parser \in ParserStates, RoutedOK, NoOverrun, AwaitedFits, parser.state = Searching,
           NEW pkt \in PacketsOf, pkt.len <= UsbBufferSize, HasHeader(pkt), HeaderPacket(pkt)
    PROVE  parser' \in ParserStates /\ RoutedOK' /\ NoOverrun' /\ AwaitedFits'
<1>. DEFINE known == [parser EXCEPT !.port = pkt.port, !.payload_size = pkt.size]
            rest  == pkt.len - HeaderLength
<1>1. pkt.size \in Nat /\ pkt.port \in AppPorts /\ pkt.len \in Nat
  BY DEF PacketsOf
<1>2. rest \in Nat /\ rest <= MaxPayload
  BY <1>1 DEF HasHeader
<1>3. /\ known \in ParserStates /\ known.state = Searching
      /\ known.buffer = parser.buffer /\ known.payload_size = pkt.size
      /\ known.buff_size = parser.buff_size
  BY <1>1 DEF ParserStates
<1>4. CASE TooBig(pkt.size)
  <2>1. parser' = known /\ routed' = routed
    BY <1>4 DEF HeaderPacket
  <2>. QED BY <1>3, <2>1 DEF RoutedOK, NoOverrun, AwaitedFits, Searching, Awaiting
<1>5. CASE ~TooBig(pkt.size) /\ rest = pkt.size
  <2>1. parser' = known /\ Route(pkt.port, FromPacket(pkt, pkt.size))
    BY <1>5 DEF HeaderPacket
  <2>2. FromPacket(pkt, pkt.size) \in Seq(MessageBytes)
    <3>1. \A i \in 1 .. pkt.size : HeaderLength + i - 1 \in Nat
      BY <1>1
    <3>2. \A i \in 1 .. pkt.size : PacketByte(pkt, HeaderLength + i - 1) \in MessageBytes
      BY <3>1, PacketByteType
    <3>. QED BY <1>1, <3>2 DEF FromPacket
  <2>3. RoutedOK'
    BY <2>1, <2>2, RouteType
  <2>. QED BY <1>3, <2>1, <2>3 DEF NoOverrun, AwaitedFits, Searching, Awaiting
<1>6. CASE ~TooBig(pkt.size) /\ rest # pkt.size
  <2>. DEFINE c == Copy(parser.buffer, 0, pkt, HeaderLength)
              n == (parser.buff_size + rest) % UshortRange
  <2>1. /\ parser' = [known EXCEPT !.state = Awaiting, !.buff_size = (@ + rest) % UshortRange,
                                   !.buffer = Copy(@, 0, pkt, HeaderLength)]
        /\ routed' = routed
    BY <1>6 DEF HeaderPacket
  <2>2. parser.buffer \in [Memory -> MessageBytes] /\ parser.buff_size \in Nat
    BY DEF ParserStates
  <2>3. c \in [Memory -> MessageBytes] /\ \A j \in Memory : j >= MaxPayload => c[j] = Nothing
    BY <1>1, <1>2, <2>2, CopyWithin DEF NoOverrun
  <2>4. n \in Nat
    BY <1>2, <2>2
  <2>5. parser' = [state |-> Awaiting, port |-> pkt.port, payload_size |-> pkt.size,
                   buff_size |-> n, buffer |-> c]
    BY <1>3, <2>1 DEF ParserStates
  <2>. HIDE DEF c, n
  <2>6. pkt.size <= MaxPayload
    BY <1>1, <1>6 DEF TooBig
  <2>7. parser' \in ParserStates
    BY <1>1, <2>3, <2>4, <2>5 DEF ParserStates
  <2>8. NoOverrun'
    BY <2>3, <2>5 DEF NoOverrun, Memory, Nothing
  <2>9. AwaitedFits'
    BY <2>5, <2>6 DEF AwaitedFits
  <2>. QED BY <2>1, <2>7, <2>8, <2>9 DEF RoutedOK
<1>. QED BY <1>4, <1>5, <1>6

\* The parser reads a packet while it waits for the rest of a payload.
LEMMA PayloadPacketStep ==
    ASSUME parser \in ParserStates, RoutedOK, NoOverrun, AwaitedFits, parser.state = Awaiting,
           NEW pkt \in PacketsOf, PayloadPacket(pkt)
    PROVE  parser' \in ParserStates /\ RoutedOK' /\ NoOverrun' /\ AwaitedFits'
<1>. DEFINE filled == parser.buff_size + pkt.len
            copied == Copy(parser.buffer, parser.buff_size, pkt, 0)
<1>1. /\ parser.buff_size \in Nat /\ parser.payload_size \in Nat /\ pkt.len \in Nat
      /\ parser.payload_size <= MaxPayload /\ parser.buffer \in [Memory -> MessageBytes]
      /\ filled \in Nat
  BY DEF ParserStates, PacketsOf, AwaitedFits
<1>2. ASSUME filled <= parser.payload_size
      PROVE  /\ copied \in [Memory -> MessageBytes]
             /\ \A j \in Memory : j >= MaxPayload => copied[j] = Nothing
  BY <1>1, <1>2, CopyWithin DEF NoOverrun
<1>3. CASE filled = parser.payload_size
  <2>1. /\ parser' = [parser EXCEPT !.state = Searching, !.buff_size = 0, !.buffer = copied]
        /\ Route(parser.port, FromBuffer(copied, parser.payload_size))
    <3>1. ~(filled < parser.payload_size) /\ ~(filled > parser.payload_size)
      BY <1>1, <1>3
    <3>. QED BY <1>3, <3>1, Zenon DEF PayloadPacket
  <2>2. /\ copied \in [Memory -> MessageBytes]
        /\ \A j \in Memory : j >= MaxPayload => copied[j] = Nothing
    BY <1>1, <1>2, <1>3
  <2>. HIDE DEF copied
  <2>3. FromBuffer(copied, parser.payload_size) \in Seq(MessageBytes)
    <3>1. \A i \in 1 .. parser.payload_size : i - 1 \in Memory
      BY <1>1 DEF Memory
    <3>2. \A i \in 1 .. parser.payload_size : copied[i - 1] \in MessageBytes
      BY <2>2, <3>1
    <3>. DEFINE n == parser.payload_size
    <3>3. n \in Nat
      BY <1>1
    <3>. HIDE DEF n
    <3>4. [i \in 1 .. n |-> copied[i - 1]] \in [1 .. n -> MessageBytes]
      BY <3>2 DEF n
    <3>5. [i \in 1 .. n |-> copied[i - 1]] \in Seq(MessageBytes)
      BY <3>3, <3>4
    <3>. QED BY <3>5 DEF FromBuffer, n
  <2>4. RoutedOK'
    BY <2>1, <2>3, RouteType
  <2>5. parser' \in ParserStates /\ parser'.buffer = copied /\ parser'.state = Searching
    BY <2>1, <2>2 DEF ParserStates
  <2>6. NoOverrun'
    BY <2>2, <2>5 DEF NoOverrun, Memory, Nothing
  <2>. QED BY <2>4, <2>5, <2>6 DEF AwaitedFits, Searching, Awaiting
<1>4. CASE filled < parser.payload_size
  <2>1. /\ parser' = [parser EXCEPT !.buff_size = filled, !.buffer = copied]
        /\ routed' = routed
    <3>1. filled # parser.payload_size /\ ~(filled > parser.payload_size)
      BY <1>1, <1>4
    <3>. QED BY <1>4, <3>1, Zenon DEF PayloadPacket
  <2>2. /\ copied \in [Memory -> MessageBytes]
        /\ \A j \in Memory : j >= MaxPayload => copied[j] = Nothing
    BY <1>1, <1>2, <1>4
  <2>. HIDE DEF copied, filled
  <2>3. /\ parser' \in ParserStates /\ parser'.buffer = copied
        /\ parser'.payload_size = parser.payload_size
    BY <1>1, <2>1, <2>2 DEF ParserStates
  <2>4. NoOverrun'
    BY <2>2, <2>3 DEF NoOverrun, Memory, Nothing
  <2>. QED BY <1>1, <2>1, <2>3, <2>4 DEF AwaitedFits, RoutedOK
<1>5. CASE filled > parser.payload_size
  <2>1. parser' = Dropped(parser) /\ routed' = routed
    BY <1>1, <1>5 DEF PayloadPacket
  <2>2. parser' \in ParserStates /\ parser'.buffer = parser.buffer /\ parser'.state = Searching
    BY <2>1 DEF Dropped, ParserStates
  <2>3. NoOverrun'
    BY <2>2 DEF NoOverrun, Memory, Nothing
  <2>. QED BY <2>1, <2>2, <2>3 DEF AwaitedFits, RoutedOK, Searching, Awaiting
<1>. QED BY <1>1, <1>3, <1>4, <1>5

\* Whatever packet arrives, the parser keeps within its buffer.
LEMMA ParserStep ==
    ASSUME parser \in ParserStates, RoutedOK, NoOverrun, AwaitedFits,
           NEW pkt \in PacketsOf, pkt.len <= UsbBufferSize, process_db_usb_proto(pkt)
    PROVE  parser' \in ParserStates /\ RoutedOK' /\ NoOverrun' /\ AwaitedFits'
<1>1. CASE parser.state = Searching /\ HasHeader(pkt)
  BY <1>1, HeaderPacketStep DEF process_db_usb_proto, Searching, Awaiting
<1>2. CASE parser.state = Awaiting
  BY <1>2, PayloadPacketStep DEF process_db_usb_proto, Searching, Awaiting
<1>3. CASE ~(parser.state = Searching /\ HasHeader(pkt)) /\ parser.state # Awaiting
  BY <1>3 DEF process_db_usb_proto, RoutedOK, NoOverrun, AwaitedFits
<1>. QED BY <1>1, <1>2, <1>3

-----------------------------------------------------------------------------
(* The steps.                                                              *)

\* The app writes packets that fit.
LEMMA AppSendsStep ==
    ASSUME UsbInv, NEW port \in AppPorts, NEW size \in Sizes, NEW n \in 1 .. MaxPayload,
           AppSends(port, size, n)
    PROVE  UsbInv'
<1>. DEFINE m == Len(sent) + 1
            new == [i \in 1 .. n |-> Packet(m, port, size, i)]
<1>1. LinkOK /\ AppOK /\ PacketsFit /\ ParserOK
  BY DEF UsbInv
<1>2. m \in Nat /\ n \in 1 .. NumChunks(size) /\ n \in Nat
  BY <1>1 DEF AppOK, AppSends
<1>3. NumChunks(size) \in Int
  <2>1. size \in Nat /\ MaxPacket \in Nat \ {0} /\ TotalLength(size) \in Nat
    BY DEF TotalLength
  <2>. QED BY <2>1 DEF NumChunks
<1>. HIDE DEF m
<1>4. \A i \in 1 .. n : /\ Packet(m, port, size, i) \in PacketsOf
                        /\ Packet(m, port, size, i).len <= UsbBufferSize
  <2>1. \A i \in 1 .. n : i \in 1 .. NumChunks(size)
    BY <1>2, <1>3
  <2>. QED BY <1>2, <2>1, PacketFits
<1>5. /\ new \in Seq(PacketsOf) /\ Len(new) = n
      /\ \A i \in 1 .. n : new[i].len <= UsbBufferSize
  BY <1>2, <1>4
<1>6. usb_in' = usb_in \o new
  BY DEF AppSends, m
<1>. HIDE DEF new
<1>7. usb_in' \in Seq(PacketsOf) /\ PacketsFit'
  <2>1. usb_in \in Seq(PacketsOf) /\ Len(usb_in) \in Nat
    BY <1>1 DEF AppOK
  <2>2. /\ Len(usb_in') = Len(usb_in) + n
        /\ \A i \in 1 .. Len(usb_in) + n :
              usb_in'[i] = IF i <= Len(usb_in) THEN usb_in[i] ELSE new[i - Len(usb_in)]
    BY <1>5, <1>6, <2>1
  <2>3. ASSUME NEW i \in 1 .. Len(usb_in) + n
        PROVE  usb_in'[i].len <= UsbBufferSize
    <3>1. CASE i <= Len(usb_in)
      BY <1>1, <2>1, <2>2, <3>1 DEF PacketsFit
    <3>2. CASE ~(i <= Len(usb_in))
      <4>1. i - Len(usb_in) \in 1 .. n
        BY <1>2, <2>1, <3>2
      <4>. QED BY <1>5, <2>2, <3>2, <4>1
    <3>. QED BY <3>1, <3>2
  <2>. QED BY <1>5, <1>6, <2>1, <2>2, <2>3 DEF PacketsFit
<1>8. AppOK'
  <2>1. sent' \in Seq([port : AppPorts, size : Sizes])
    BY <1>1 DEF AppOK, AppSends
  <2>2. whole' \subseteq Nat /\ safe' \in Nat /\ faults' \in Nat
    <3>1. \/ UNCHANGED <<safe, faults>> /\ whole' = whole \cup {m}
          \/ safe' = m /\ faults' = faults + 1 /\ whole' = whole
      BY DEF AppSends, m
    <3>2. whole \subseteq Nat /\ safe \in Nat /\ faults \in Nat
      BY <1>1 DEF AppOK
    <3>3. safe' \in Nat /\ faults' \in Nat
      BY <1>2, <3>1, <3>2
    <3>4. whole' \subseteq Nat
      BY <1>2, <3>1, <3>2, Zenon
    <3>. QED BY <3>3, <3>4
  <2>. QED BY <1>7, <2>1, <2>2 DEF AppOK
<1>9. LinkOK' /\ ParserOK'
  BY <1>1 DEF AppSends, linkVars, LinkOK, ParserOK, RoutedOK, NoOverrun, AwaitedFits
<1>. QED BY <1>7, <1>8, <1>9 DEF UsbInv

\* A packet is taken from the queue and parsed.
LEMMA ReceivePacketStep ==
    ASSUME UsbInv, ReceivePacket
    PROVE  UsbInv'
<1>1. LinkOK /\ AppOK /\ PacketsFit /\ ParserOK
  BY DEF UsbInv
<1>2. usb_in \in Seq(PacketsOf) /\ usb_in # <<>>
  BY <1>1 DEF AppOK, ReceivePacket
<1>3. /\ Head(usb_in) \in PacketsOf /\ Tail(usb_in) \in Seq(PacketsOf)
      /\ Head(usb_in) = usb_in[1] /\ Len(usb_in) \in Nat /\ Len(usb_in) >= 1
      /\ Len(Tail(usb_in)) = Len(usb_in) - 1
      /\ \A i \in 1 .. Len(usb_in) - 1 : Tail(usb_in)[i] = usb_in[i + 1]
  BY <1>2
<1>4. Head(usb_in).len <= UsbBufferSize
  BY <1>1, <1>3 DEF PacketsFit
<1>5. ParserOK'
  BY <1>1, <1>3, <1>4, ParserStep DEF ReceivePacket, ParserOK
<1>6. PacketsFit'
  <2>1. usb_in' = Tail(usb_in)
    BY DEF ReceivePacket
  <2>2. \A i \in 1 .. Len(usb_in) - 1 : i + 1 \in 1 .. Len(usb_in)
    BY <1>3
  <2>. QED BY <1>1, <1>3, <2>1, <2>2 DEF PacketsFit
<1>7. AppOK' /\ LinkOK'
  BY <1>1, <1>3 DEF AppOK, ReceivePacket, LinkOK, linkVars
<1>. QED BY <1>5, <1>6, <1>7 DEF UsbInv

\* Unplugging empties the queue.
LEMMA UnplugStep ==
    ASSUME UsbInv, Unplug
    PROVE  UsbInv'
<1>1. LinkOK /\ AppOK /\ PacketsFit /\ ParserOK
  BY DEF UsbInv
<1>2. AppOK'
  <2>1. Len(sent) \in Nat /\ <<>> \in Seq(PacketsOf)
    BY <1>1 DEF AppOK
  <2>. QED BY <1>1, <2>1 DEF AppOK, Unplug
<1>3. PacketsFit'
  BY DEF Unplug, PacketsFit
<1>4. LinkOK' /\ ParserOK'
  BY <1>1 DEF Unplug, LinkOK, ParserOK, RoutedOK, NoOverrun, AwaitedFits
<1>. QED BY <1>2, <1>3, <1>4 DEF UsbInv

\* A new connection makes the parser look for a header, and touches no more.
LEMMA ReconnectStep ==
    ASSUME UsbInv, Reconnect
    PROVE  UsbInv'
<1>1. LinkOK /\ AppOK /\ PacketsFit /\ ParserOK
  BY DEF UsbInv
<1>2. LinkOK'
  BY <1>1 DEF Reconnect, LinkOK, NotifiersAfterExit, UsbFdAdded
<1>3. parser' \in ParserStates /\ parser'.state = Searching /\ parser'.buffer = parser.buffer
  BY <1>1 DEF Reconnect, ParserAfterReconnect, ParserOK, ParserStates
<1>4. ParserOK'
  BY <1>1, <1>3 DEF Reconnect, ParserOK, RoutedOK, NoOverrun, AwaitedFits, Searching, Awaiting
<1>5. AppOK' /\ PacketsFit'
  BY <1>1 DEF Reconnect, AppOK, PacketsFit, appVars
<1>. QED BY <1>2, <1>4, <1>5 DEF UsbInv

\* The other steps concern the link alone.
LEMMA LinkStep ==
    ASSUME UsbInv,
           Plug \/ DeviceGone \/ WriteFails \/ InitFails \/ LeftOverRemoved \/ UNCHANGED vars
    PROVE  UsbInv'
<1>1. LinkOK /\ AppOK /\ PacketsFit /\ ParserOK
  BY DEF UsbInv
<1>2. UNCHANGED <<parser, appVars, routed>>
  BY DEF Plug, DeviceGone, WriteFails, InitFails, LeftOverRemoved, vars, appVars
<1>3. LinkOK'
  BY <1>1 DEF Plug, DeviceGone, WriteFails, InitFails, LeftOverRemoved, vars, LinkOK
<1>4. AppOK' /\ PacketsFit' /\ ParserOK'
  BY <1>1, <1>2 DEF appVars, AppOK, PacketsFit, ParserOK, RoutedOK, NoOverrun, AwaitedFits
<1>. QED BY <1>3, <1>4 DEF UsbInv

\* The initial state satisfies the invariant.
LEMMA UsbInitial == Init => UsbInv
<1>. SUFFICES ASSUME Init
              PROVE  UsbInv
  OBVIOUS
<1>1. Nothing \in MessageBytes
  BY DEF Nothing, MessageBytes
<1>2. parser \in ParserStates /\ NoOverrun /\ AwaitedFits
  BY <1>1 DEF Init, ParserStates, NoOverrun, AwaitedFits, Searching, Awaiting
<1>3. LinkOK /\ AppOK /\ PacketsFit /\ RoutedOK
  BY DEF Init, LinkOK, AppOK, PacketsFit, RoutedOK
<1>. QED BY <1>2, <1>3 DEF UsbInv, ParserOK

\* Every step keeps the invariant.
LEMMA UsbStep == UsbInv /\ [Next]_vars => UsbInv'
BY AppSendsStep, ReceivePacketStep, UnplugStep, ReconnectStep, LinkStep DEF Next

\* The variables of the bridge keep their types; among them the fill level of
\* the parser, which Dropped must not take below zero.
THEOREM UsbTypeCorrect == Spec => []UsbTypeOK
<1>1. UsbInv => UsbTypeOK
  BY DEF UsbInv, UsbTypeOK, LinkOK, AppOK, ParserOK, ParserStates, RoutedOK
<1>. QED BY <1>1, UsbInitial, UsbStep, PTL DEF Spec

\* For every packet size, payload limit and sequence of messages, faults
\* included, process_db_usb_proto writes nothing behind db_usb_parser_buffer.
\* The limit on a transfer (UsbBufferSize - HeaderLength <= MaxPayload) is what
\* protects the copy that follows a header, which no test in the code guards.
THEOREM UsbNoOverrun == Spec => []NoOverrun
<1>1. UsbInv => NoOverrun
  BY DEF UsbInv, ParserOK
<1>. QED BY <1>1, UsbInitial, UsbStep, PTL DEF Spec

-----------------------------------------------------------------------------
(* Until the first fault the messages get through in order.                *)

\* The i-th packet of message m, and how many it has.
Chunk(m, i) == Packet(m, sent[m].port, sent[m].size, i)
Chunks(m) == NumChunks(sent[m].size)

\* Packet j of the queue is followed by what the app wrote after it; behind
\* the last packet of a message there are later messages only, and the queue
\* ends with the last packet of the last message.
InPlace(j) ==
    \E i \in 1 .. Chunks(usb_in[j].msg) :
        /\ usb_in[j] = Chunk(usb_in[j].msg, i)
        /\ i # Chunks(usb_in[j].msg) =>
              j < Len(usb_in) /\ usb_in[j + 1] = Chunk(usb_in[j].msg, i + 1)
        /\ i = Chunks(usb_in[j].msg) =>
              /\ \A k \in j + 1 .. Len(usb_in) : usb_in[k].msg > usb_in[j].msg
              /\ IF j < Len(usb_in) THEN usb_in[j + 1] = Chunk(usb_in[j].msg + 1, 1)
                                    ELSE usb_in[j].msg = Len(sent)

\* The app's packets wait in order, and no message is missing.
QueueInPlace ==
    /\ \A j \in 1 .. Len(usb_in) : usb_in[j].msg \in 1 .. Len(sent) /\ InPlace(j)
    /\ Len(usb_in) > 0 => \A m \in usb_in[1].msg .. Len(sent) : ~Arrived(m)

\* The parser has seen the packets of message m before the i-th one.
Idle == parser.state = Searching /\ parser.buff_size = 0
HoldsPart(m, i) ==
    /\ parser.state = Awaiting
    /\ parser.port = sent[m].port /\ parser.payload_size = sent[m].size
    /\ parser.buff_size = ChunkStart(i) - HeaderLength
    /\ \A j \in 0 .. parser.buff_size - 1 :
          parser.buffer[j] = [msg |-> m, at |-> HeaderLength + j]
Expects(m, i) == IF i = 1 \/ TooBig(sent[m].size) THEN Idle ELSE HoldsPart(m, i)

ParserInPlace ==
    IF Len(usb_in) = 0 THEN Idle
    ELSE \E i \in 1 .. Chunks(usb_in[1].msg) :
            usb_in[1] = Chunk(usb_in[1].msg, i) /\ Expects(usb_in[1].msg, i)

\* RoutedInOrder with what makes it inductive.
InOrderInv ==
    faults = 0 => /\ device = "open" /\ device_connected
                  /\ QueueInPlace
                  /\ ParserInPlace
                  /\ RoutedInOrder

\* A message is cut into packets without gaps.
LEMMA CutWithoutGaps ==
    ASSUME NEW size \in Nat \ {0}
    PROVE  /\ NumChunks(size) \in Nat \ {0}
           /\ ChunkStart(1) = 0
           /\ ChunkEnd(size, NumChunks(size)) = TotalLength(size)
           /\ \A i \in 1 .. NumChunks(size) : i # NumChunks(size) =>
                 /\ i + 1 \in 1 .. NumChunks(size)
                 /\ ChunkEnd(size, i) = ChunkStart(i + 1)
                 /\ ChunkStart(i + 1) \in Nat
                 /\ MaxPacket <= ChunkStart(i + 1)
                 /\ ChunkStart(i + 1) < TotalLength(size)
<1>. DEFINE a == TotalLength(size)
            b == MaxPacket
            n == NumChunks(size)
<1>1. a \in Nat \ {0} /\ b \in Nat \ {0} /\ a > size /\ a = size + HeaderLength
  BY DEF TotalLength
<1>2. ChunkStart(1) = 0
  BY <1>1 DEF ChunkStart
<1>3. CASE size <= MaxPacket
  <2>1. n = 1 /\ ChunkEnd(size, n) = a
    BY <1>1, <1>3 DEF NumChunks, ChunkEnd
  <2>. QED BY <1>2, <2>1
<1>4. CASE ~(size <= MaxPacket)
  <2>1. n = (a + b - 1) \div b
    BY <1>4 DEF NumChunks
  <2>2. \A i \in Nat : ChunkEnd(size, i) = Minimum(i * b, a) /\ ChunkStart(i + 1) = i * b
    BY <1>4 DEF ChunkStart, ChunkEnd
  <2>3. n \in Nat /\ a <= b * n
    <3>. HIDE DEF a, b, n
    <3>. QED BY <1>1, <2>1
  <2>4. n # 0
    <3>. HIDE DEF a, b, n
    <3>. QED BY <1>1, <2>3
  <2>5. ChunkEnd(size, n) = a
    <3>1. n * b = b * n
      BY <1>1, <2>3
    <3>2. n * b \in Nat /\ a <= n * b
      BY <1>1, <2>3, <3>1
    <3>3. Minimum(n * b, a) = a
      <4>. HIDE DEF a, b, n
      <4>. QED BY <1>1, <3>2 DEF Minimum
    <3>. QED BY <2>2, <2>3, <3>3
  <2>6. ASSUME NEW i \in 1 .. n, i # n
        PROVE  /\ i + 1 \in 1 .. n /\ ChunkEnd(size, i) = ChunkStart(i + 1)
               /\ ChunkStart(i + 1) \in Nat /\ b <= ChunkStart(i + 1)
               /\ ChunkStart(i + 1) < a
    <3>. HIDE DEF a, b, n
    <3>1. i \in Nat \ {0} /\ i + 1 \in Nat \ {0} /\ i + 1 <= n /\ i + 1 \in 1 .. n
      BY <2>3, <2>6
    <3>2. ((i + 1) - 1) * b < a
      BY <1>1, <2>1, <3>1, PiecesBegin
    <3>3. i * b < a /\ i * b \in Nat
      BY <1>1, <3>1, <3>2
    <3>4. b <= i * b
      <4>1. i * b = (i - 1) * b + b /\ (i - 1) * b \in Nat
        BY <1>1, <3>1
      <4>. QED BY <1>1, <3>3, <4>1
    <3>5. ChunkEnd(size, i) = Minimum(i * b, a) /\ ChunkStart(i + 1) = i * b
      BY <2>2, <3>1
    <3>6. Minimum(i * b, a) = i * b
      BY <1>1, <3>3 DEF Minimum
    <3>. QED BY <3>1, <3>3, <3>4, <3>5, <3>6
  <2>. QED BY <1>2, <2>3, <2>4, <2>5, <2>6
<1>. QED BY <1>3, <1>4

\* The packets of message m.
LEMMA ChunkFacts ==
    ASSUME AppOK, NEW m \in 1 .. Len(sent)
    PROVE  /\ sent[m].size \in Nat \ {0} /\ sent[m].size \in Sizes /\ sent[m].port \in AppPorts
           /\ Chunks(m) \in Nat \ {0} /\ 1 \in 1 .. Chunks(m)
           /\ \A i \in 1 .. Chunks(m) :
                 /\ Chunk(m, i) \in PacketsOf /\ Chunk(m, i).len \in Nat
                 /\ Chunk(m, i).msg = m /\ Chunk(m, i).port = sent[m].port
                 /\ Chunk(m, i).size = sent[m].size /\ Chunk(m, i).first = ChunkStart(i)
                 /\ ChunkStart(i) \in Nat /\ ChunkEnd(sent[m].size, i) \in Nat
                 /\ Chunk(m, i).len = ChunkEnd(sent[m].size, i) - ChunkStart(i)
                 /\ (i = 1 \/ ChunkStart(i) >= MaxPacket)
                 /\ (i = Chunks(m) \/ (i + 1 \in 1 .. Chunks(m)
                                       /\ ChunkEnd(sent[m].size, i) = ChunkStart(i + 1)))
<1>1. sent[m] \in [port : AppPorts, size : Sizes] /\ Len(sent) \in Nat /\ m \in Nat
  <2>. DEFINE S == [port : AppPorts, size : Sizes]
  <2>1. sent \in Seq(S)
    BY DEF AppOK
  <2>. HIDE DEF S
  <2>2. sent[m] \in S /\ Len(sent) \in Nat /\ m \in Nat
    BY <2>1
  <2>. QED BY <2>2 DEF S
<1>2. sent[m].size \in Nat \ {0} /\ sent[m].size \in Sizes /\ sent[m].port \in AppPorts
  BY <1>1
<1>. DEFINE sz == sent[m].size
            po == sent[m].port
<1>3. sz \in Nat \ {0} /\ sz \in Sizes /\ po \in AppPorts /\ Chunks(m) = NumChunks(sz)
  BY <1>2 DEF Chunks
<1>4. Chunks(m) \in Nat \ {0} /\ 1 \in 1 .. Chunks(m)
  BY <1>3, CutWithoutGaps
<1>5. ASSUME NEW i \in 1 .. Chunks(m)
      PROVE  /\ Chunk(m, i) \in PacketsOf /\ Chunk(m, i).len \in Nat
             /\ Chunk(m, i).msg = m /\ Chunk(m, i).port = sent[m].port
             /\ Chunk(m, i).size = sent[m].size /\ Chunk(m, i).first = ChunkStart(i)
             /\ Chunk(m, i).len = ChunkEnd(sent[m].size, i) - ChunkStart(i)
  <2>1. Chunk(m, i) \in PacketsOf
    BY <1>1, <1>3, PacketFits DEF Chunk
  <2>2. Chunk(m, i).len \in Nat
    BY <2>1 DEF PacketsOf
  <2>. QED BY <2>1, <2>2 DEF Chunk, Packet
<1>6. ASSUME NEW i \in 1 .. Chunks(m)
      PROVE  ChunkStart(i) \in Nat /\ (i = 1 \/ ChunkStart(i) >= MaxPacket)
  <2>1. CASE i = 1
    BY <1>3, <2>1, CutWithoutGaps
  <2>2. CASE i # 1
    <3>1. i - 1 \in 1 .. NumChunks(sz) /\ i - 1 # NumChunks(sz) /\ (i - 1) + 1 = i
      BY <1>3, <1>4, <2>2
    <3>2. ChunkStart((i - 1) + 1) \in Nat /\ MaxPacket <= ChunkStart((i - 1) + 1)
      BY <1>3, <3>1, CutWithoutGaps
    <3>. QED BY <3>1, <3>2
  <2>. QED BY <2>1, <2>2
<1>7. ASSUME NEW i \in 1 .. Chunks(m)
      PROVE  /\ ChunkEnd(sz, i) \in Nat
             /\ \/ i = Chunks(m)
                \/ i + 1 \in 1 .. Chunks(m) /\ ChunkEnd(sz, i) = ChunkStart(i + 1)
  <2>1. CASE i = Chunks(m)
    <3>1. ChunkEnd(sz, Chunks(m)) = TotalLength(sz)
      BY <1>3, CutWithoutGaps
    <3>. QED BY <1>3, <2>1, <3>1 DEF TotalLength
  <2>2. CASE i # Chunks(m)
    BY <1>3, <2>2, CutWithoutGaps
  <2>. QED BY <2>1, <2>2
<1>. QED BY <1>2, <1>4, <1>5, <1>6, <1>7

\* The parser takes the i-th packet of message m: either it expects the next
\* one, or the message is routed.
LEMMA ParserTakes ==
    ASSUME MaxPacket < UshortRange, AppOK, ParserOK, NEW m \in 1 .. Len(sent),
           NEW i \in 1 .. Chunks(m), Expects(m, i),
           process_db_usb_proto(Chunk(m, i)), sent' = sent
    PROVE  /\ i # Chunks(m) => Expects(m, i + 1)' /\ routed' = routed
           /\ i = Chunks(m) =>
                 /\ Idle'
                 /\ routed' = IF Accepted(m) THEN Append(routed, Entry(m)) ELSE routed
<1>. DEFINE pkt == Chunk(m, i)
            sz  == sent[m].size
            po  == sent[m].port
            n   == Chunks(m)
<1>1. /\ sz \in Nat \ {0} /\ n \in Nat \ {0} /\ n = NumChunks(sz)
      /\ pkt \in PacketsOf /\ pkt.len \in Nat /\ pkt.msg = m /\ pkt.port = po /\ pkt.size = sz
      /\ pkt.first = ChunkStart(i) /\ pkt.len = ChunkEnd(sz, i) - ChunkStart(i)
      /\ ChunkStart(i) \in Nat /\ ChunkEnd(sz, i) \in Nat
      /\ i = 1 \/ ChunkStart(i) >= MaxPacket
  BY ChunkFacts DEF Chunks
<1>2. /\ ChunkStart(1) = 0 /\ ChunkEnd(sz, n) = sz + HeaderLength
      /\ i # n => /\ i + 1 \in 1 .. n /\ i + 1 # 1
                  /\ ChunkEnd(sz, i) = ChunkStart(i + 1) /\ ChunkStart(i + 1) \in Nat
                  /\ MaxPacket <= ChunkStart(i + 1) /\ ChunkStart(i + 1) < sz + HeaderLength
  <2>. HIDE DEF sz, n, pkt, po
  <2>1. i \in 1 .. NumChunks(sz) /\ sz \in Nat \ {0} /\ TotalLength(sz) = sz + HeaderLength
    BY <1>1 DEF n, TotalLength
  <2>2. ChunkStart(1) = 0 /\ ChunkEnd(sz, n) = sz + HeaderLength
    BY <1>1, <2>1, CutWithoutGaps
  <2>3. ASSUME i # n
        PROVE  /\ i + 1 \in 1 .. n
               /\ ChunkEnd(sz, i) = ChunkStart(i + 1) /\ ChunkStart(i + 1) \in Nat
               /\ MaxPacket <= ChunkStart(i + 1) /\ ChunkStart(i + 1) < sz + HeaderLength
    BY <1>1, <2>1, <2>3, CutWithoutGaps
  <2>4. i + 1 # 1
    BY <2>1
  <2>. QED BY <2>2, <2>3, <2>4
<1>3. /\ parser.state \in {Searching, Awaiting} /\ parser.buff_size \in Nat
      /\ parser.buffer \in [Memory -> MessageBytes] /\ parser \in ParserStates
  BY DEF ParserOK, ParserStates
<1>. HIDE DEF pkt, sz, po, n
<1>4. CASE i = 1
  <2>1. Idle
    BY <1>4 DEF Expects
  <2>2. HasHeader(pkt)
    <3>1. pkt.len >= HeaderLength
      <4>1. CASE i = n
        BY <1>1, <1>2, <1>4, <4>1
      <4>2. CASE i # n
        BY <1>1, <1>2, <1>4, <4>2
      <4>. QED BY <4>1, <4>2
    <3>. QED BY <1>1, <1>2, <1>4, <3>1 DEF HasHeader
  <2>3. HeaderPacket(pkt)
    BY <2>1, <2>2 DEF process_db_usb_proto, Idle, pkt, Searching, Awaiting
  <2>. DEFINE known == [parser EXCEPT !.port = pkt.port, !.payload_size = pkt.size]
              rest  == pkt.len - HeaderLength
  <2>4. /\ known \in ParserStates => known.state = Searching /\ known.buff_size = 0
        /\ known.state = Searching /\ known.buff_size = 0 /\ known.buffer = parser.buffer
        /\ known.port = po /\ known.payload_size = sz
    BY <1>1, <1>3, <2>1 DEF Idle, ParserStates
  <2>5. CASE TooBig(sz)
    <3>1. parser' = known /\ routed' = routed
      BY <1>1, <2>3, <2>5 DEF HeaderPacket
    <3>2. Idle'
      BY <2>4, <3>1 DEF Idle
    <3>3. ~Accepted(m)
      BY <2>5 DEF Accepted, sz
    <3>4. Expects(m, i + 1)'
      BY <2>5, <3>2 DEF Expects, sz, TooBig
    <3>. QED BY <3>1, <3>2, <3>3, <3>4
  <2>6. CASE ~TooBig(sz) /\ i = n
    <3>1. rest = sz
      BY <1>1, <1>2, <1>4, <2>6
    <3>2. parser' = known /\ Route(po, FromPacket(pkt, sz))
      BY <1>1, <2>3, <2>6, <3>1 DEF HeaderPacket
    <3>3. Idle'
      BY <2>4, <3>2 DEF Idle
    <3>4. [port |-> po, bytes |-> FromPacket(pkt, sz)] = Entry(m)
      <4>1. \A j \in 1 .. sz : PacketByte(pkt, HeaderLength + j - 1)
                                  = [msg |-> m, at |-> HeaderLength + j - 1]
        <5>1. pkt.msg = m /\ pkt.first = 0
          BY <1>1, <1>2, <1>4
        <5>2. \A j \in 1 .. sz : 0 + (HeaderLength + j - 1) = HeaderLength + j - 1
          BY <1>1
        <5>. QED BY <5>1, <5>2 DEF PacketByte
      <4>2. FromPacket(pkt, sz) = [j \in 1 .. sz |-> [msg |-> m, at |-> HeaderLength + j - 1]]
        BY <4>1 DEF FromPacket
      <4>. QED BY <4>2 DEF Entry, sz, po
    <3>5. Accepted(m) <=> po \in Ports
      BY <2>6 DEF Accepted, sz, po
    <3>6. routed' = IF Accepted(m) THEN Append(routed, Entry(m)) ELSE routed
      BY <3>2, <3>4, <3>5 DEF Route
    <3>. QED BY <2>6, <3>3, <3>6 DEF n
  <2>7. CASE ~TooBig(sz) /\ i # n
    <3>1. rest = ChunkStart(i + 1) - HeaderLength /\ rest # sz /\ rest \in Nat
      BY <1>1, <1>2, <1>4, <2>7
    <3>. DEFINE c == Copy(parser.buffer, 0, pkt, HeaderLength)
    <3>2. /\ parser' = [known EXCEPT !.state = Awaiting, !.buff_size = (@ + rest) % UshortRange,
                                     !.buffer = Copy(@, 0, pkt, HeaderLength)]
          /\ routed' = routed
      BY <1>1, <2>3, <2>7, <3>1 DEF HeaderPacket
    <3>3. rest < UshortRange
      <4>1. sz > MaxPacket
        BY <1>1, <1>2, <1>4, <2>7 DEF NumChunks
      <4>2. ChunkEnd(sz, i) <= MaxPacket
        BY <1>1, <1>4, <4>1 DEF ChunkEnd, Minimum, TotalLength
      <4>. QED BY <1>1, <1>2, <1>4, <4>2
    <3>4. (0 + rest) % UshortRange = rest
      <4>. HIDE DEF rest
      <4>. QED BY <3>1, <3>3
    <3>5. known \in ParserStates
      BY <1>1, <1>3 DEF ParserStates, PacketsOf
    <3>. HIDE DEF rest
    <3>6. parser' = [state |-> Awaiting, port |-> po, payload_size |-> sz,
                     buff_size |-> rest, buffer |-> c]
      <4>1. known = [state |-> Searching, port |-> po, payload_size |-> sz, buff_size |-> 0,
                     buffer |-> parser.buffer]
        <5>1. known.state = Searching /\ known.buff_size = 0 /\ known.buffer = parser.buffer
              /\ known.port = po /\ known.payload_size = sz
          BY <2>4
        <5>. HIDE DEF known
        <5>. QED BY <3>5, <5>1 DEF ParserStates
      <4>. HIDE DEF known
      <4>. QED BY <3>2, <3>4, <4>1
    <3>7. \A j \in 0 .. rest - 1 : c[j] = [msg |-> m, at |-> HeaderLength + j]
      <4>. SUFFICES ASSUME NEW j \in 0 .. rest - 1
                    PROVE  c[j] = [msg |-> m, at |-> HeaderLength + j]
        OBVIOUS
      <4>1. j \in Memory
        <5>1. rest <= pkt.len /\ pkt.len <= UsbBufferSize
          <6>1. pkt.len <= UsbBufferSize
            <7>1. sent[m].size \in Sizes /\ sent[m].port \in AppPorts
              BY ChunkFacts
            <7>2. m \in Nat /\ i \in 1 .. NumChunks(sent[m].size)
              BY DEF AppOK, Chunks
            <7>3. Packet(m, sent[m].port, sent[m].size, i).len <= UsbBufferSize
              BY <7>1, <7>2, PacketFits
            <7>. QED BY <7>3 DEF pkt, Chunk
          <6>. QED BY <1>1, <6>1 DEF rest
        <5>. QED BY <1>1, <3>1, <5>1 DEF Memory
      <4>2. j \in 0 .. 0 + pkt.len - HeaderLength - 1 /\ HeaderLength + j - 0 = HeaderLength + j
        BY <1>1, <3>1 DEF rest
      <4>3. c[j] = PacketByte(pkt, HeaderLength + j - 0)
        BY <4>1, <4>2 DEF Copy
      <4>4. pkt.first + (HeaderLength + j) = HeaderLength + j
        BY <1>1, <1>2, <1>4, <3>1
      <4>. QED BY <1>1, <4>2, <4>3, <4>4 DEF PacketByte
    <3>. HIDE DEF c
    <3>8. HoldsPart(m, i + 1)'
      BY <3>1, <3>6, <3>7 DEF HoldsPart, sz, po, ChunkStart
    <3>9. Expects(m, i + 1)'
      BY <1>2, <2>7, <3>8 DEF Expects, sz, TooBig
    <3>. QED BY <2>7, <3>2, <3>9 DEF n
  <2>. QED BY <2>5, <2>6, <2>7
<1>5. CASE i # 1 /\ TooBig(sz)
  <2>1. Idle /\ ~Accepted(m)
    BY <1>5 DEF Expects, Accepted, sz
  <2>2. ~HasHeader(pkt)
    BY <1>1, <1>5 DEF HasHeader
  <2>3. UNCHANGED <<parser, routed>>
    BY <2>1, <2>2 DEF process_db_usb_proto, Idle, pkt, Searching, Awaiting
  <2>4. Idle' /\ routed' = routed
    BY <2>1, <2>3 DEF Idle
  <2>5. Expects(m, i + 1)'
    BY <1>5, <2>4 DEF Expects, sz, TooBig
  <2>. QED BY <2>1, <2>4, <2>5
<1>6. CASE i # 1 /\ ~TooBig(sz)
  <2>1. HoldsPart(m, i)
    BY <1>6 DEF Expects, sz
  <2>2. /\ parser.state = Awaiting /\ parser.port = po /\ parser.payload_size = sz
        /\ parser.buff_size = ChunkStart(i) - HeaderLength
        /\ \A j \in 0 .. parser.buff_size - 1 :
              parser.buffer[j] = [msg |-> m, at |-> HeaderLength + j]
    BY <2>1 DEF HoldsPart, sz, po
  <2>3. PayloadPacket(pkt)
    BY <2>2 DEF process_db_usb_proto, pkt, Searching, Awaiting
  <2>. DEFINE filled == parser.buff_size + pkt.len
              copied == Copy(parser.buffer, parser.buff_size, pkt, 0)
  <2>4. filled = ChunkEnd(sz, i) - HeaderLength /\ filled \in Nat /\ filled <= sz
    <3>1. filled = ChunkEnd(sz, i) - HeaderLength
      BY <1>1, <1>3, <2>2
    <3>2. ChunkEnd(sz, i) <= sz + HeaderLength
      <4>1. CASE i = n
        BY <1>1, <1>2, <4>1
      <4>2. CASE i # n
        BY <1>1, <1>2, <4>2
      <4>. QED BY <4>1, <4>2
    <3>3. parser.buff_size \in Nat /\ pkt.len \in Nat
      BY <1>1, <1>3
    <3>4. filled \in Nat
      BY <3>3
    <3>5. ChunkEnd(sz, i) \in Nat /\ sz \in Nat /\ HeaderLength \in Nat
      BY <1>1
    <3>. HIDE DEF filled
    <3>. QED BY <3>1, <3>2, <3>4, <3>5
  <2>5. sz <= MaxPayload
    BY <1>1, <1>6 DEF TooBig
  <2>6. \A j \in 0 .. filled - 1 : j \in Memory /\ copied[j] = [msg |-> m, at |-> HeaderLength + j]
    <3>. SUFFICES ASSUME NEW j \in 0 .. filled - 1
                  PROVE  j \in Memory /\ copied[j] = [msg |-> m, at |-> HeaderLength + j]
      OBVIOUS
    <3>1. j \in Memory
      BY <1>1, <2>4, <2>5 DEF Memory
    <3>2. CASE j < parser.buff_size
      <4>1. ~(j \in parser.buff_size .. parser.buff_size + pkt.len - 0 - 1)
        BY <1>1, <1>3, <3>2
      <4>2. copied[j] = parser.buffer[j]
        BY <3>1, <4>1 DEF Copy
      <4>3. j \in 0 .. parser.buff_size - 1
        BY <1>3, <2>4, <3>2
      <4>. QED BY <2>2, <3>1, <4>2, <4>3
    <3>3. CASE ~(j < parser.buff_size)
      <4>1. j \in parser.buff_size .. parser.buff_size + pkt.len - 0 - 1
        <5>. DEFINE b == parser.buff_size
                    l == pkt.len
        <5>1. b \in Nat /\ l \in Nat /\ ~(j < b) /\ j \in 0 .. b + l - 1
          <6>1. b \in Nat /\ l \in Nat
            BY <1>1, <1>3
          <6>2. ~(j < b)
            BY <3>3
          <6>3. filled = b + l
            OBVIOUS
          <6>4. j \in 0 .. b + l - 1
            <7>. HIDE DEF b, l, filled
            <7>. QED BY <6>1, <6>3
          <6>. QED BY <6>1, <6>2, <6>4
        <5>. HIDE DEF b, l
        <5>2. j \in b .. b + l - 0 - 1
          BY <5>1
        <5>. QED BY <5>2 DEF b, l
      <4>2. copied[j] = PacketByte(pkt, 0 + j - parser.buff_size)
        BY <3>1, <4>1 DEF Copy
      <4>3. pkt.first + (0 + j - parser.buff_size) = HeaderLength + j
        <5>1. j \in Int /\ parser.buff_size = ChunkStart(i) - HeaderLength
              /\ pkt.first = ChunkStart(i) /\ ChunkStart(i) \in Int
          BY <1>1, <2>2, <2>4
        <5>. QED BY <5>1
      <4>. QED BY <1>1, <3>1, <4>2, <4>3 DEF PacketByte
    <3>. QED BY <3>2, <3>3
  <2>7. CASE i = n
    <3>1. filled = sz /\ parser.payload_size = sz
      BY <1>1, <1>2, <2>2, <2>4, <2>7
    <3>2. /\ parser' = [parser EXCEPT !.state = Searching, !.buff_size = 0, !.buffer = copied]
          /\ Route(po, FromBuffer(copied, sz))
      <4>1. filled = parser.payload_size /\ ~(filled < parser.payload_size)
            /\ ~(filled > parser.payload_size)
        BY <2>4, <3>1
      <4>. QED BY <2>2, <2>3, <4>1, Zenon DEF PayloadPacket
    <3>3. Idle'
      BY <1>3, <3>2 DEF Idle, ParserStates
    <3>4. [port |-> po, bytes |-> FromBuffer(copied, sz)] = Entry(m)
      <4>. HIDE DEF copied
      <4>1. \A j \in 1 .. sz : copied[j - 1] = [msg |-> m, at |-> HeaderLength + j - 1]
        <5>. SUFFICES ASSUME NEW j \in 1 .. sz
                      PROVE  copied[j - 1] = [msg |-> m, at |-> HeaderLength + j - 1]
          OBVIOUS
        <5>1. j - 1 \in 0 .. filled - 1 /\ HeaderLength + (j - 1) = HeaderLength + j - 1
          BY <1>1, <3>1
        <5>2. copied[j - 1] = [msg |-> m, at |-> HeaderLength + (j - 1)]
          BY <2>6, <5>1
        <5>. QED BY <5>1, <5>2
      <4>2. FromBuffer(copied, sz) = [j \in 1 .. sz |-> [msg |-> m, at |-> HeaderLength + j - 1]]
        BY <4>1 DEF FromBuffer
      <4>. QED BY <4>2 DEF Entry, sz, po
    <3>5. Accepted(m) <=> po \in Ports
      BY <1>6 DEF Accepted, sz, po
    <3>6. routed' = IF Accepted(m) THEN Append(routed, Entry(m)) ELSE routed
      BY <3>2, <3>4, <3>5 DEF Route
    <3>. QED BY <2>7, <3>3, <3>6 DEF n
  <2>8. CASE i # n
    <3>1. filled = ChunkStart(i + 1) - HeaderLength /\ filled < sz
      BY <1>1, <1>2, <2>4, <2>8
    <3>2. /\ parser' = [parser EXCEPT !.buff_size = filled, !.buffer = copied]
          /\ routed' = routed
      <4>1. filled < parser.payload_size /\ filled # parser.payload_size
            /\ ~(filled > parser.payload_size)
        BY <1>1, <2>2, <2>4, <3>1
      <4>. QED BY <2>3, <4>1, Zenon DEF PayloadPacket
    <3>. HIDE DEF copied, filled
    <3>3. /\ parser'.state = Awaiting /\ parser'.port = po /\ parser'.payload_size = sz
          /\ parser'.buff_size = filled /\ parser'.buffer = copied
      BY <1>3, <2>2, <3>2 DEF ParserStates
    <3>4. HoldsPart(m, i + 1)'
      BY <2>6, <3>1, <3>3 DEF HoldsPart, sz, po, ChunkStart
    <3>5. Expects(m, i + 1)'
      BY <1>2, <1>6, <2>8, <3>4 DEF Expects, sz, TooBig
    <3>. QED BY <2>8, <3>2, <3>5 DEF n
  <2>. QED BY <2>7, <2>8
<1>. QED BY <1>4, <1>5, <1>6

\* The packets of a message differ.
LEMMA ChunksDiffer ==
    ASSUME NEW m, NEW i \in Nat \ {0}, NEW k \in Nat \ {0}, Chunk(m, i) = Chunk(m, k)
    PROVE  i = k
<1>1. (i - 1) * MaxPacket = (k - 1) * MaxPacket
  BY DEF Chunk, Packet, ChunkStart
<1>2. ASSUME NEW x \in Nat, NEW y \in Nat, x < y
      PROVE  x * MaxPacket # y * MaxPacket
  <2>1. y = x + (y - x) /\ y - x \in Nat \ {0}
    BY <1>2
  <2>2. y * MaxPacket = x * MaxPacket + (y - x) * MaxPacket
    BY <2>1
  <2>3. (y - x) * MaxPacket > 0
    BY <2>1
  <2>. QED BY <2>2, <2>3
<1>3. i - 1 \in Nat /\ k - 1 \in Nat
  OBVIOUS
<1>4. ~(i - 1 < k - 1) /\ ~(k - 1 < i - 1)
  BY <1>1, <1>2, <1>3
<1>. QED BY <1>3, <1>4

\* RoutedInOrder for a set of messages.
Due == {m \in 1 .. Len(sent) : Accepted(m) /\ Arrived(m)}
RoutedAre(D, r) ==
    /\ Len(r) = Cardinality(D)
    /\ \A m \in D : r[Cardinality({k \in D : k <= m})] = Entry(m)

\* A later message is routed behind the others.
LEMMA RoutedGrows ==
    ASSUME AppOK, NEW D \in SUBSET (1 .. Len(sent)), NEW m \in 1 .. Len(sent),
           \A k \in D : k < m, NEW X, NEW r \in Seq(X), Entry(m) \in X, RoutedAre(D, r)
    PROVE  RoutedAre(D \cup {m}, Append(r, Entry(m)))
<1>. DEFINE new == Append(r, Entry(m))
            DM  == D \cup {m}
<1>1. Len(sent) \in Nat /\ m \in Nat /\ D \subseteq Nat
  BY DEF AppOK
<1>2. m \notin D
  BY <1>1
<1>3. IsFiniteSet(D) /\ Cardinality(D) \in Nat
  <2>1. IsFiniteSet(1 .. Len(sent))
    BY <1>1, FS_Interval
  <2>. QED BY <2>1, FS_Subset, FS_CardinalityType
<1>4. Cardinality(DM) = Cardinality(D) + 1
  BY <1>2, <1>3, FS_AddElement
<1>5. Len(r) = Cardinality(D) /\ \A k \in D : r[Cardinality({x \in D : x <= k})] = Entry(k)
  BY DEF RoutedAre
<1>6. /\ Len(new) = Len(r) + 1 /\ new[Len(r) + 1] = Entry(m)
      /\ \A j \in 1 .. Len(r) : new[j] = r[j]
  OBVIOUS
<1>. HIDE DEF new
<1>7. ASSUME NEW k \in D
      PROVE  new[Cardinality({x \in DM : x <= k})] = Entry(k)
  <2>. DEFINE S == {x \in D : x <= k}
  <2>1. {x \in DM : x <= k} = S
    <3>1. ~(m <= k)
      BY <1>1, <1>7
    <3>. QED BY <3>1
  <2>2. S \subseteq D /\ k \in S
    BY <1>1, <1>7
  <2>. HIDE DEF S
  <2>3. IsFiniteSet(S) /\ Cardinality(S) \in Nat /\ Cardinality(S) <= Cardinality(D)
    BY <1>3, <2>2, FS_Subset, FS_CardinalityType
  <2>4. Cardinality(S) # 0
    BY <2>2, <2>3, FS_EmptySet
  <2>5. Cardinality(S) \in 1 .. Len(r)
    BY <1>3, <1>5, <2>3, <2>4
  <2>6. r[Cardinality(S)] = Entry(k)
    BY <1>5, <1>7 DEF S
  <2>. QED BY <1>6, <2>1, <2>5, <2>6
<1>8. new[Cardinality({x \in DM : x <= m})] = Entry(m)
  <2>1. {x \in DM : x <= m} = DM
    <3>1. \A x \in D : x \in Nat /\ x < m
      BY <1>1
    <3>2. \A x \in DM : x <= m
      BY <1>1, <3>1
    <3>. HIDE DEF DM
    <3>. QED BY <3>2
  <2>. QED BY <1>4, <1>5, <1>6, <2>1
<1>9. Len(new) = Cardinality(DM)
  BY <1>4, <1>5, <1>6
<1>. QED BY <1>7, <1>8, <1>9 DEF RoutedAre, new

\* What is routed is a message and its port.
LEMMA EntryType ==
    ASSUME AppOK, NEW m \in 1 .. Len(sent), Accepted(m)
    PROVE  Entry(m) \in [port : Ports, bytes : Seq(MessageBytes)]
<1>. DEFINE sz == sent[m].size
            bs == [i \in 1 .. sz |-> [msg |-> m, at |-> HeaderLength + i - 1]]
<1>1. sz \in Nat /\ m \in Nat
  <2>1. sent[m].size \in Nat \ {0}
    BY ChunkFacts
  <2>2. m \in Nat
    BY DEF AppOK
  <2>. QED BY <2>1, <2>2
<1>2. \A i \in 1 .. sz : HeaderLength + i - 1 \in Nat
  BY <1>1
<1>3. \A i \in 1 .. sz : [msg |-> m, at |-> HeaderLength + i - 1] \in MessageBytes
  BY <1>1, <1>2 DEF MessageBytes
<1>. HIDE DEF sz
<1>4. bs \in Seq(MessageBytes)
  <2>1. bs \in [1 .. sz -> MessageBytes]
    BY <1>3
  <2>. HIDE DEF bs
  <2>. QED BY <1>1, <2>1
<1>5. Entry(m) = [port |-> sent[m].port, bytes |-> bs]
  BY DEF Entry, sz
<1>. HIDE DEF bs
<1>. QED BY <1>4, <1>5 DEF Accepted

\* The elements of a concatenation.
LEMMA ConcatAt ==
    ASSUME NEW S, NEW s \in Seq(S), NEW t \in Seq(S)
    PROVE  /\ Len(s \o t) = Len(s) + Len(t)
           /\ \A j \in 1 .. Len(s) + Len(t) :
                 (s \o t)[j] = IF j <= Len(s) THEN s[j] ELSE t[j - Len(s)]
OBVIOUS

\* A message that the app writes whole waits behind the others.
LEMMA SendsInOrder ==
    ASSUME UsbInv, faults = 0, QueueInPlace, ParserInPlace, RoutedInOrder,
           NEW m \in Nat, m = Len(sent) + 1, NEW L \in Nat, L = Len(usb_in),
           NEW port \in AppPorts, NEW size \in Sizes, NEW n \in 1 .. MaxPayload,
           AppSends(port, size, n), faults' = 0
    PROVE  (QueueInPlace /\ ParserInPlace /\ RoutedInOrder)'
<1>. DEFINE new == [i \in 1 .. n |-> Packet(m, port, size, i)]
            msgs == [port : AppPorts, size : Sizes]
<1>1. AppOK /\ sent \in Seq(msgs) /\ usb_in \in Seq(PacketsOf) /\ L \in Nat /\ Len(sent) \in Nat
  BY DEF UsbInv, AppOK
<1>2. n = NumChunks(size) /\ n \in Nat \ {0}
  <2>1. n = NumChunks(size)
    BY DEF AppSends
  <2>. QED BY <2>1
<1>3. /\ usb_in' = usb_in \o new /\ sent' = Append(sent, [port |-> port, size |-> size])
      /\ parser' = parser /\ routed' = routed
  BY DEF AppSends
<1>4. /\ Len(sent') = m
      /\ sent'[m] = [port |-> port, size |-> size]
      /\ \A k \in 1 .. Len(sent) : sent'[k] = sent[k]
  <2>1. [port |-> port, size |-> size] \in msgs
    OBVIOUS
  <2>. HIDE DEF msgs
  <2>. QED BY <1>1, <1>3, <2>1
<1>5. \A i \in 1 .. n : new[i] = Packet(m, port, size, i) /\ new[i] \in PacketsOf /\ new[i].msg = m
  <2>1. \A i \in 1 .. n : Packet(m, port, size, i) \in PacketsOf
    BY <1>2, PacketFits
  <2>. QED BY <2>1 DEF Packet
<1>6. /\ Len(usb_in') = L + n
      /\ \A j \in 1 .. L : usb_in'[j] = usb_in[j]
      /\ \A j \in 1 .. n : usb_in'[L + j] = new[j]
  <2>1. new \in Seq(PacketsOf) /\ Len(new) = n
    BY <1>2, <1>5
  <2>. HIDE DEF new
  <2>2. /\ Len(usb_in') = L + n
        /\ \A j \in 1 .. L + n : usb_in'[j] = IF j <= L THEN usb_in[j] ELSE new[j - L]
    <3>1. usb_in \in Seq(PacketsOf) /\ Len(usb_in) = L /\ usb_in' = usb_in \o new
      BY <1>1, <1>3
    <3>2. /\ Len(usb_in') = Len(usb_in) + n
          /\ \A j \in 1 .. Len(usb_in) + n :
                usb_in'[j] = IF j <= Len(usb_in) THEN usb_in[j] ELSE new[j - Len(usb_in)]
      BY <2>1, <3>1, ConcatAt
    <3>. QED BY <3>1, <3>2
  <2>3. \A j \in 1 .. L : j \in 1 .. L + n /\ j <= L
    BY <1>2
  <2>4. \A j \in 1 .. n : L + j \in 1 .. L + n /\ ~(L + j <= L) /\ (L + j) - L = j
    BY <1>2
  <2>. QED BY <2>2, <2>3, <2>4
<1>. HIDE DEF new, msgs
<1>7. /\ \A k \in 1 .. Len(sent) : /\ Chunks(k)' = Chunks(k) /\ Entry(k)' = Entry(k)
                                   /\ Accepted(k)' = Accepted(k)
                                   /\ \A i : Chunk(k, i)' = Chunk(k, i)
      /\ Chunks(m)' = n /\ \A i : Chunk(m, i)' = Packet(m, port, size, i)
  <2>1. ASSUME NEW k \in 1 .. Len(sent)
        PROVE  Chunks(k)' = Chunks(k) /\ Entry(k)' = Entry(k) /\ Accepted(k)' = Accepted(k)
    <3>1. sent'[k] = sent[k]
      BY <1>4
    <3>. QED BY <3>1, Zenon DEF Chunks, NumChunks, TotalLength, Entry, Accepted, TooBig
  <2>2. ASSUME NEW k \in 1 .. Len(sent), NEW i
        PROVE  Chunk(k, i)' = Chunk(k, i)
    <3>1. sent'[k] = sent[k]
      BY <1>4
    <3>. QED BY <3>1, Zenon DEF Chunk, Packet, ChunkStart, ChunkEnd, Minimum, TotalLength
  <2>3. sent'[m].port = port /\ sent'[m].size = size
    BY <1>4
  <2>4. Chunks(m)' = n
    BY <1>2, <2>3, Zenon DEF Chunks, NumChunks, TotalLength
  <2>5. ASSUME NEW i PROVE Chunk(m, i)' = Packet(m, port, size, i)
    BY <2>3, Zenon DEF Chunk, Packet, ChunkStart, ChunkEnd, Minimum, TotalLength
  <2>. QED BY <2>1, <2>2, <2>4, <2>5
<1>8. \A j \in 1 .. L : usb_in[j].msg \in 1 .. Len(sent) /\ InPlace(j)
  BY DEF QueueInPlace
<1>9. \A j \in 1 .. L + n : \/ j \in 1 .. L
                            \/ j - L \in 1 .. n /\ j = L + (j - L)
  BY <1>1, <1>2
<1>10. \A k \in 1 .. L + n : k \notin 1 .. L => usb_in'[k].msg = m
  <2>1. ASSUME NEW k \in 1 .. L + n, k \notin 1 .. L
        PROVE  usb_in'[k].msg = m
    <3>1. k - L \in 1 .. n /\ k = L + (k - L)
      BY <1>9, <2>1
    <3>2. usb_in'[L + (k - L)] = new[k - L]
      BY <1>6, <3>1
    <3>. QED BY <1>5, <3>1, <3>2
  <2>. QED BY <2>1
<1>11. ASSUME NEW j \in 1 .. L + n
       PROVE  usb_in'[j].msg \in 1 .. Len(sent') /\ InPlace(j)'
  <2>1. CASE j \in 1 .. L
    <3>1. PICK x \in 1 .. Len(sent) : x = usb_in[j].msg
      BY <1>8, <2>1
    <3>2. usb_in'[j] = usb_in[j] /\ x \in 1 .. Len(sent) /\ InPlace(j)
      BY <1>6, <1>8, <2>1
    <3>3. PICK i \in 1 .. Chunks(x) :
             /\ usb_in[j] = Chunk(x, i)
             /\ i # Chunks(x) => j < L /\ usb_in[j + 1] = Chunk(x, i + 1)
             /\ i = Chunks(x) =>
                   /\ \A k \in j + 1 .. L : usb_in[k].msg > x
                   /\ IF j < L THEN usb_in[j + 1] = Chunk(x + 1, 1) ELSE x = Len(sent)
      BY <3>1, <3>2 DEF InPlace
    <3>4. Chunks(x)' = Chunks(x) /\ \A y : Chunk(x, y)' = Chunk(x, y)
      BY <1>7, <3>2
    <3>5. i # Chunks(x) => j < L + n /\ usb_in'[j + 1] = Chunk(x, i + 1)'
      BY <1>1, <1>2, <1>6, <2>1, <3>3, <3>4
    <3>6. i = Chunks(x) => \A k \in j + 1 .. L + n : usb_in'[k].msg > x
      <4>. SUFFICES ASSUME i = Chunks(x), NEW k \in j + 1 .. L + n
                    PROVE  usb_in'[k].msg > x
        OBVIOUS
      <4>1. CASE k \in 1 .. L
        <5>1. k \in j + 1 .. L
          BY <4>1
        <5>. QED BY <1>6, <3>3, <4>1, <5>1
      <4>2. CASE k \notin 1 .. L
        <5>1. k \in 1 .. L + n
          BY <1>1, <1>2, <2>1
        <5>2. usb_in'[k].msg = m
          BY <1>10, <4>2, <5>1
        <5>. QED BY <1>1, <3>2, <5>2
      <4>. QED BY <4>1, <4>2
    <3>7. i = Chunks(x) => j < L + n /\ usb_in'[j + 1] = Chunk(x + 1, 1)'
      <4>. SUFFICES ASSUME i = Chunks(x)
                    PROVE  j < L + n /\ usb_in'[j + 1] = Chunk(x + 1, 1)'
        OBVIOUS
      <4>1. CASE j < L
        <5>1. j + 1 \in 1 .. L /\ usb_in[j + 1] = Chunk(x + 1, 1) /\ j < L + n
          BY <1>1, <1>2, <2>1, <3>3, <4>1
        <5>2. usb_in[j + 1].msg = x + 1
          BY <5>1 DEF Chunk, Packet
        <5>3. x + 1 \in 1 .. Len(sent)
          BY <1>8, <5>1, <5>2
        <5>. QED BY <1>6, <1>7, <5>1, <5>3
      <4>2. CASE ~(j < L)
        <5>1. j = L /\ x + 1 = m /\ j < L + n /\ 1 \in 1 .. n /\ j + 1 = L + 1
          BY <1>1, <1>2, <2>1, <3>3, <4>2
        <5>2. usb_in'[L + 1] = Packet(m, port, size, 1)
          BY <1>5, <1>6, <5>1
        <5>. QED BY <1>7, <5>1, <5>2
      <4>. QED BY <4>1, <4>2
    <3>8. usb_in'[j].msg = x /\ usb_in'[j] = Chunk(x, i)' /\ i \in 1 .. Chunks(x)'
      BY <3>1, <3>2, <3>3, <3>4
    <3>9. InPlace(j)'
      BY <1>6, <3>4, <3>5, <3>6, <3>7, <3>8 DEF InPlace
    <3>10. x \in 1 .. Len(sent')
      BY <1>1, <1>4, <3>2
    <3>. QED BY <3>8, <3>9, <3>10
  <2>2. CASE j \notin 1 .. L
    <3>. DEFINE i == j - L
    <3>1. i \in 1 .. n /\ j = L + i
      BY <1>9, <2>2
    <3>. HIDE DEF i
    <3>2. usb_in'[j] = Packet(m, port, size, i) /\ usb_in'[j].msg = m
      BY <1>5, <1>6, <3>1
    <3>3. i \in 1 .. Chunks(m)' /\ usb_in'[j] = Chunk(m, i)'
      BY <1>7, <3>1, <3>2
    <3>4. i # n => j < L + n /\ usb_in'[j + 1] = Chunk(m, i + 1)'
      <4>. SUFFICES ASSUME i # n
                    PROVE  j < L + n /\ usb_in'[j + 1] = Chunk(m, i + 1)'
        OBVIOUS
      <4>1. i + 1 \in 1 .. n /\ j + 1 = L + (i + 1) /\ j < L + n
        BY <1>1, <1>2, <3>1
      <4>2. usb_in'[j + 1] = new[i + 1] /\ new[i + 1] = Packet(m, port, size, i + 1)
        BY <1>5, <1>6, <4>1
      <4>3. Chunk(m, i + 1)' = Packet(m, port, size, i + 1)
        BY <1>7
      <4>. QED BY <4>1, <4>2, <4>3
    <3>5. i = n => j = L + n /\ j + 1 .. L + n = {} /\ ~(j < L + n)
      BY <1>1, <1>2, <3>1
    <3>6. InPlace(j)'
      BY <1>4, <1>6, <1>7, <3>2, <3>3, <3>4, <3>5 DEF InPlace
    <3>7. m \in 1 .. Len(sent')
      BY <1>1, <1>4
    <3>. QED BY <3>2, <3>6, <3>7
  <2>. QED BY <2>1, <2>2
<1>12. ASSUME NEW k \in 1 .. Len(sent)
       PROVE  Arrived(k)' = Arrived(k)
  <2>1. k # m
    BY <1>1
  <2>2. ASSUME Arrived(k) PROVE Arrived(k)'
    BY <1>6, <1>10, <2>1, <2>2 DEF Arrived
  <2>3. ASSUME ~Arrived(k) PROVE ~Arrived(k)'
    <3>1. PICK j \in 1 .. L : usb_in[j].msg = k
      BY <2>3 DEF Arrived
    <3>2. j \in 1 .. L + n /\ usb_in'[j].msg = k
      BY <1>1, <1>2, <1>6, <3>1
    <3>. QED BY <1>6, <3>2 DEF Arrived
  <2>4. Arrived(k) \in BOOLEAN /\ Arrived(k)' \in BOOLEAN
    BY DEF Arrived
  <2>. QED BY <2>2, <2>3, <2>4
<1>13. ~Arrived(m)'
  <2>1. L + 1 \in 1 .. L + n /\ 1 \in 1 .. n
    BY <1>1, <1>2
  <2>2. usb_in'[L + 1].msg = m
    BY <1>5, <1>6, <2>1
  <2>. QED BY <1>6, <2>1, <2>2 DEF Arrived
<1>14. QueueInPlace'
  <2>1. ASSUME NEW k \in usb_in'[1].msg .. Len(sent')
        PROVE  ~Arrived(k)'
    <3>1. 1 \in 1 .. L + n /\ usb_in'[1].msg \in 1 .. m
      BY <1>1, <1>2, <1>4, <1>11
    <3>2. CASE k = m
      BY <1>13, <3>2
    <3>3. CASE k # m
      <4>1. k \in 1 .. Len(sent)
        BY <1>1, <1>4, <3>1, <3>3
      <4>2. CASE L = 0
        <5>1. usb_in'[1].msg = m
          BY <1>10, <3>1, <4>2
        <5>. QED BY <1>1, <4>1, <5>1
      <4>3. CASE L # 0
        <5>1. usb_in'[1] = usb_in[1] /\ L > 0
          BY <1>1, <1>6, <4>3
        <5>2. usb_in[1].msg \in 1 .. Len(sent)
          BY <1>1, <1>8, <5>1
        <5>3. k \in usb_in[1].msg .. Len(sent)
          BY <1>1, <4>1, <5>1, <5>2
        <5>4. ~Arrived(k)
          BY <5>1, <5>3 DEF QueueInPlace
        <5>. QED BY <1>12, <4>1, <5>4
      <4>. QED BY <4>2, <4>3
    <3>. QED BY <3>2, <3>3
  <2>. QED BY <1>6, <1>11, <2>1 DEF QueueInPlace
<1>15. ParserInPlace'
  <2>1. Len(usb_in') # 0 /\ 1 \in 1 .. L + n
    BY <1>1, <1>2, <1>6
  <2>2. CASE L = 0
    <3>1. usb_in'[1] = Packet(m, port, size, 1) /\ usb_in'[1].msg = m /\ 1 \in 1 .. n
      BY <1>1, <1>2, <1>5, <1>6, <2>2
    <3>2. Idle'
      BY <1>3, <2>2 DEF ParserInPlace, Idle
    <3>3. Expects(m, 1)'
      BY <3>2 DEF Expects
    <3>. QED BY <1>7, <2>1, <3>1, <3>3 DEF ParserInPlace
  <2>3. CASE L # 0
    <3>1. 1 \in 1 .. L /\ usb_in'[1] = usb_in[1]
      BY <1>1, <1>6, <2>3
    <3>2. PICK x \in 1 .. Len(sent) : x = usb_in[1].msg
      BY <1>8, <3>1
    <3>3. PICK i \in 1 .. Chunks(x) : usb_in[1] = Chunk(x, i) /\ Expects(x, i)
      BY <2>3, <3>2 DEF ParserInPlace
    <3>4. usb_in'[1].msg = x
      BY <3>2, <3>1
    <3>5. Expects(x, i)'
      BY <1>3, <1>4, <3>1, <3>3 DEF Expects, Idle, HoldsPart, TooBig, ChunkStart
    <3>6. i \in 1 .. Chunks(x)' /\ usb_in'[1] = Chunk(x, i)'
      BY <1>7, <3>1, <3>3
    <3>. QED BY <2>1, <3>4, <3>5, <3>6 DEF ParserInPlace
  <2>. QED BY <2>2, <2>3
<1>16. RoutedInOrder'
  <2>1. RoutedAre(Due, routed)
    BY DEF RoutedInOrder, RoutedAre, Due
  <2>2. Due' = Due
    <3>1. \A k \in 1 .. Len(sent') : k \in 1 .. Len(sent) \/ k = m
      BY <1>1, <1>4
    <3>2. \A k \in 1 .. Len(sent) : k \in 1 .. Len(sent')
      BY <1>1, <1>4
    <3>. QED BY <1>7, <1>12, <1>13, <3>1, <3>2 DEF Due
  <2>3. RoutedAre(Due, routed)'
    <3>1. Due \subseteq 1 .. Len(sent)
      BY DEF Due
    <3>. HIDE DEF Due
    <3>. QED BY <1>3, <1>7, <2>1, <2>2, <3>1 DEF RoutedAre
  <2>. QED BY <2>3 DEF RoutedInOrder, RoutedAre, Due
<1>. QED BY <1>14, <1>15, <1>16

\* A packet that the parser takes is the next one it expects.
LEMMA ReceivesInOrder ==
    ASSUME MaxPacket < UshortRange,
           UsbInv, faults = 0, QueueInPlace, ParserInPlace, RoutedInOrder, ReceivePacket
    PROVE  (QueueInPlace /\ ParserInPlace /\ RoutedInOrder)'
<1>1. AppOK /\ ParserOK /\ usb_in \in Seq(PacketsOf) /\ Len(sent) \in Nat
  BY DEF UsbInv, AppOK
<1>2. /\ usb_in # <<>> /\ process_db_usb_proto(Head(usb_in)) /\ usb_in' = Tail(usb_in)
      /\ sent' = sent /\ faults' = 0
  BY DEF ReceivePacket
<1>3. PICK L \in Nat \ {0} : L = Len(usb_in)
  BY <1>1, <1>2
<1>4. /\ Head(usb_in) = usb_in[1] /\ Len(usb_in') = L - 1
      /\ \A j \in 1 .. L - 1 : usb_in'[j] = usb_in[j + 1]
  BY <1>1, <1>2, <1>3
<1>5. \A j \in 1 .. L : usb_in[j].msg \in 1 .. Len(sent) /\ InPlace(j)
  BY <1>3 DEF QueueInPlace
<1>6. PICK m \in 1 .. Len(sent) : m = usb_in[1].msg
  BY <1>3, <1>5
<1>7. PICK i \in 1 .. Chunks(m) :
         /\ usb_in[1] = Chunk(m, i)
         /\ i # Chunks(m) => 1 < L /\ usb_in[2] = Chunk(m, i + 1)
         /\ i = Chunks(m) =>
               /\ \A k \in 2 .. L : usb_in[k].msg > m
               /\ IF 1 < L THEN usb_in[2] = Chunk(m + 1, 1) ELSE m = Len(sent)
  <2>1. InPlace(1)
    BY <1>3, <1>5
  <2>. QED BY <1>3, <1>6, <2>1 DEF InPlace
<1>8. Expects(m, i)
  <2>1. PICK k \in 1 .. Chunks(m) : usb_in[1] = Chunk(m, k) /\ Expects(m, k)
    BY <1>3, <1>6 DEF ParserInPlace
  <2>2. i \in Nat \ {0} /\ k \in Nat \ {0}
    BY <1>1, ChunkFacts
  <2>3. i = k
    BY <1>7, <2>1, <2>2, ChunksDiffer
  <2>. QED BY <2>1, <2>3
<1>9. /\ i # Chunks(m) => Expects(m, i + 1)' /\ routed' = routed
      /\ i = Chunks(m) =>
            /\ Idle'
            /\ routed' = IF Accepted(m) THEN Append(routed, Entry(m)) ELSE routed
  BY <1>1, <1>2, <1>4, <1>7, <1>8, ParserTakes
<1>10. \A k, n : /\ Chunk(k, n)' = Chunk(k, n) /\ Chunks(k)' = Chunks(k)
                 /\ Entry(k)' = Entry(k) /\ Accepted(k)' = Accepted(k)
  BY <1>2, Zenon DEF Chunk, Packet, ChunkStart, ChunkEnd, Minimum, TotalLength, Chunks, NumChunks,
                     Entry, Accepted, TooBig
<1>11. ASSUME NEW k, k # m
       PROVE  Arrived(k)' = Arrived(k)
  <2>1. ASSUME ~Arrived(k) PROVE ~Arrived(k)'
    <3>1. PICK j \in 1 .. L : usb_in[j].msg = k
      BY <1>3, <2>1 DEF Arrived
    <3>2. j # 1
      BY <1>6, <1>11, <3>1
    <3>3. j - 1 \in 1 .. L - 1 /\ (j - 1) + 1 = j
      BY <1>3, <3>1, <3>2
    <3>4. usb_in'[j - 1].msg = k
      BY <1>4, <3>1, <3>3
    <3>. QED BY <1>4, <3>3, <3>4 DEF Arrived
  <2>2. ASSUME Arrived(k) PROVE Arrived(k)'
    <3>1. \A j \in 1 .. L - 1 : j + 1 \in 1 .. L
      BY <1>3
    <3>. QED BY <1>3, <1>4, <2>2, <3>1 DEF Arrived
  <2>3. Arrived(k) \in BOOLEAN /\ Arrived(k)' \in BOOLEAN
    BY DEF Arrived
  <2>. QED BY <2>1, <2>2, <2>3
<1>12. ASSUME NEW k \in m .. Len(sent) PROVE ~Arrived(k)
  BY <1>3, <1>6 DEF QueueInPlace
<1>13. i # Chunks(m) => ~Arrived(m)' /\ 1 \in 1 .. L - 1 /\ usb_in'[1].msg = m
                        /\ usb_in'[1] = Chunk(m, i + 1)
  <2>. SUFFICES ASSUME i # Chunks(m)
                PROVE  ~Arrived(m)' /\ 1 \in 1 .. L - 1 /\ usb_in'[1].msg = m
                       /\ usb_in'[1] = Chunk(m, i + 1)
    OBVIOUS
  <2>1. 1 \in 1 .. L - 1 /\ usb_in'[1] = Chunk(m, i + 1)
    BY <1>3, <1>4, <1>7
  <2>2. usb_in'[1].msg = m
    BY <2>1 DEF Chunk, Packet
  <2>. QED BY <1>4, <2>1, <2>2 DEF Arrived
<1>14. i = Chunks(m) => Arrived(m)'
  <2>. SUFFICES ASSUME i = Chunks(m), NEW j \in 1 .. L - 1
                PROVE  usb_in'[j].msg # m
    BY <1>4 DEF Arrived
  <2>1. j + 1 \in 2 .. L
    BY <1>3
  <2>2. usb_in[j + 1].msg > m /\ m \in Int
    BY <1>1, <1>7, <2>1
  <2>. QED BY <1>4, <2>2
<1>15. i = Chunks(m) /\ 1 < L => /\ 1 \in 1 .. L - 1 /\ usb_in'[1] = Chunk(m + 1, 1)
                                 /\ usb_in'[1].msg = m + 1 /\ m + 1 \in 1 .. Len(sent)
  <2>. SUFFICES ASSUME i = Chunks(m), 1 < L
                PROVE  /\ 1 \in 1 .. L - 1 /\ usb_in'[1] = Chunk(m + 1, 1)
                       /\ usb_in'[1].msg = m + 1 /\ m + 1 \in 1 .. Len(sent)
    OBVIOUS
  <2>1. 1 \in 1 .. L - 1 /\ usb_in'[1] = usb_in[2] /\ usb_in[2] = Chunk(m + 1, 1) /\ 2 \in 1 .. L
    BY <1>3, <1>4, <1>7
  <2>2. usb_in[2].msg = m + 1
    BY <2>1 DEF Chunk, Packet
  <2>. QED BY <1>5, <2>1, <2>2
<1>16. QueueInPlace'
  <2>1. ASSUME NEW j \in 1 .. L - 1
        PROVE  usb_in'[j].msg \in 1 .. Len(sent') /\ InPlace(j)'
    <3>1. j + 1 \in 1 .. L /\ usb_in'[j] = usb_in[j + 1]
      BY <1>3, <1>4
    <3>2. PICK x \in 1 .. Len(sent) : x = usb_in[j + 1].msg
      BY <1>5, <3>1
    <3>3. PICK n \in 1 .. Chunks(x) :
             /\ usb_in[j + 1] = Chunk(x, n)
             /\ n # Chunks(x) => j + 1 < L /\ usb_in[(j + 1) + 1] = Chunk(x, n + 1)
             /\ n = Chunks(x) =>
                   /\ \A k \in (j + 1) + 1 .. L : usb_in[k].msg > x
                   /\ IF j + 1 < L THEN usb_in[(j + 1) + 1] = Chunk(x + 1, 1) ELSE x = Len(sent)
      <4>1. InPlace(j + 1)
        BY <1>5, <3>1
      <4>. QED BY <1>3, <3>2, <4>1 DEF InPlace
    <3>4. /\ j + 1 < L <=> j < L - 1
          /\ j < L - 1 => usb_in'[j + 1] = usb_in[(j + 1) + 1]
      BY <1>3, <1>4
    <3>5. n = Chunks(x) => \A k \in j + 1 .. L - 1 : usb_in'[k].msg > x
      <4>. SUFFICES ASSUME n = Chunks(x), NEW k \in j + 1 .. L - 1
                    PROVE  usb_in'[k].msg > x
        OBVIOUS
      <4>1. k \in 1 .. L - 1 /\ k + 1 \in (j + 1) + 1 .. L
        BY <1>3
      <4>. QED BY <1>4, <3>3, <4>1
    <3>6. usb_in'[j].msg = x
      BY <3>1, <3>2
    <3>7. /\ n \in 1 .. Chunks(x)' /\ usb_in'[j] = Chunk(x, n)'
          /\ n # Chunks(x)' => j < L - 1 /\ usb_in'[j + 1] = Chunk(x, n + 1)'
          /\ n = Chunks(x)' =>
               /\ \A k \in j + 1 .. L - 1 : usb_in'[k].msg > x
               /\ IF j < L - 1 THEN usb_in'[j + 1] = Chunk(x + 1, 1)' ELSE x = Len(sent')
      BY <1>2, <1>10, <3>1, <3>3, <3>4, <3>5
    <3>8. InPlace(j)'
      BY <1>4, <3>6, <3>7 DEF InPlace
    <3>. QED BY <1>2, <3>6, <3>8
  <2>2. ASSUME L - 1 > 0, NEW k \in usb_in'[1].msg .. Len(sent')
        PROVE  ~Arrived(k)'
    <3>1. CASE i # Chunks(m)
      <4>1. k \in m .. Len(sent)
        BY <1>2, <1>13, <2>2, <3>1
      <4>2. CASE k = m
        BY <1>13, <3>1, <4>2
      <4>3. CASE k # m
        BY <1>11, <1>12, <4>1, <4>3
      <4>. QED BY <4>2, <4>3
    <3>2. CASE i = Chunks(m)
      <4>1. k \in m + 1 .. Len(sent)
        BY <1>2, <1>3, <1>15, <2>2, <3>2
      <4>2. k \in m .. Len(sent) /\ k # m
        BY <1>1, <4>1
      <4>. QED BY <1>11, <1>12, <4>2
    <3>. QED BY <3>1, <3>2
  <2>. QED BY <1>4, <2>1, <2>2 DEF QueueInPlace
<1>17. ParserInPlace'
  <2>1. CASE i # Chunks(m)
    <3>1. i + 1 \in 1 .. Chunks(m)
      BY <1>1, <2>1, ChunkFacts
    <3>2. Len(usb_in') # 0
      BY <1>3, <1>4, <1>13, <2>1
    <3>3. Expects(m, i + 1)' /\ usb_in'[1].msg = m /\ usb_in'[1] = Chunk(m, i + 1)'
      BY <1>9, <1>10, <1>13, <2>1
    <3>4. i + 1 \in 1 .. Chunks(m)'
      BY <1>10, <3>1
    <3>. QED BY <3>2, <3>3, <3>4 DEF ParserInPlace
  <2>2. CASE i = Chunks(m) /\ 1 < L
    <3>1. /\ usb_in'[1].msg = m + 1 /\ usb_in'[1] = Chunk(m + 1, 1)'
          /\ 1 \in 1 .. Chunks(m + 1)'
      BY <1>1, <1>10, <1>15, <2>2, ChunkFacts
    <3>2. Expects(m + 1, 1)'
      BY <1>9, <2>2 DEF Expects
    <3>3. Len(usb_in') # 0
      BY <1>3, <1>4, <2>2
    <3>. QED BY <3>1, <3>2, <3>3 DEF ParserInPlace
  <2>3. CASE i = Chunks(m) /\ ~(1 < L)
    <3>1. Len(usb_in') = 0
      BY <1>3, <1>4, <2>3
    <3>. QED BY <1>9, <2>3, <3>1 DEF ParserInPlace
  <2>. QED BY <2>1, <2>2, <2>3
<1>18. RoutedInOrder'
  <2>1. RoutedAre(Due, routed) /\ Due \subseteq 1 .. Len(sent)
    BY DEF RoutedInOrder, RoutedAre, Due
  <2>2. m \notin Due /\ \A k \in Due : k < m
    <3>1. m \in m .. Len(sent) /\ m \in Nat
      BY <1>1
    <3>2. ASSUME NEW k \in Due PROVE k < m
      <4>1. k \in 1 .. Len(sent) /\ Arrived(k)
        BY <3>2 DEF Due
      <4>2. ~(k \in m .. Len(sent))
        BY <1>12, <4>1
      <4>. QED BY <1>1, <3>1, <4>1, <4>2
    <3>. QED BY <1>12, <3>1, <3>2 DEF Due
  <2>3. CASE i = Chunks(m) /\ Accepted(m)
    <3>. DEFINE X == [port : Ports, bytes : Seq(MessageBytes)]
    <3>1. Due' = Due \cup {m}
      <4>1. \A k \in 1 .. Len(sent) : k # m => (Accepted(k) /\ Arrived(k))' = (Accepted(k) /\ Arrived(k))
        BY <1>10, <1>11
      <4>2. (Accepted(m) /\ Arrived(m))'
        BY <1>10, <1>14, <2>3
      <4>3. Due' = {k \in 1 .. Len(sent) : (Accepted(k) /\ Arrived(k))'}
        BY <1>2 DEF Due
      <4>. QED BY <4>1, <4>2, <4>3 DEF Due
    <3>2. Entry(m) \in X /\ routed \in Seq(X)
      BY <1>1, <2>3, EntryType DEF ParserOK, RoutedOK
    <3>3. routed' = Append(routed, Entry(m))
      BY <1>9, <2>3
    <3>4. RoutedAre(Due \cup {m}, routed')
      <4>. HIDE DEF X
      <4>1. RoutedAre(Due \cup {m}, Append(routed, Entry(m)))
        BY <1>1, <2>1, <2>2, <3>2, RoutedGrows
      <4>. QED BY <3>3, <4>1
    <3>5. RoutedAre(Due, routed)'
      BY <1>10, <3>1, <3>4 DEF RoutedAre
    <3>. QED BY <3>5 DEF RoutedInOrder, RoutedAre, Due
  <2>4. CASE ~(i = Chunks(m) /\ Accepted(m))
    <3>1. routed' = routed
      BY <1>9, <2>4
    <3>2. \A k \in 1 .. Len(sent) : (Accepted(k) /\ Arrived(k))' = (Accepted(k) /\ Arrived(k))
      <4>1. \A k \in 1 .. Len(sent) : k # m => (Accepted(k) /\ Arrived(k))' = (Accepted(k) /\ Arrived(k))
        BY <1>10, <1>11
      <4>2. ~(Accepted(m) /\ Arrived(m)) /\ ~(Accepted(m) /\ Arrived(m))'
        <5>1. m \in m .. Len(sent)
          BY <1>1
        <5>. QED BY <1>10, <1>12, <1>13, <2>4, <5>1
      <4>3. (Accepted(m) /\ Arrived(m))' = (Accepted(m) /\ Arrived(m))
        BY <4>2
      <4>. QED BY <4>1, <4>3
    <3>3. Due' = Due
      <4>1. Due' = {k \in 1 .. Len(sent) : (Accepted(k) /\ Arrived(k))'}
        BY <1>2 DEF Due
      <4>. QED BY <3>2, <4>1 DEF Due
    <3>4. RoutedAre(Due, routed)'
      BY <1>10, <2>1, <3>1, <3>3 DEF RoutedAre
    <3>. QED BY <3>4 DEF RoutedInOrder, RoutedAre, Due
  <2>. QED BY <2>3, <2>4
<1>. QED BY <1>16, <1>17, <1>18

\* Every step keeps the order until the first fault.
LEMMA InOrderNext ==
    ASSUME MaxPacket < UshortRange, UsbInv, InOrderInv, [Next]_vars
    PROVE  InOrderInv'
<1>. SUFFICES ASSUME faults' = 0
              PROVE  (/\ device = "open" /\ device_connected
                      /\ QueueInPlace /\ ParserInPlace /\ RoutedInOrder)'
  BY DEF InOrderInv
<1>1. faults \in Nat
  BY DEF UsbInv, AppOK
<1>2. faults = 0
  <2>1. faults' \in {faults, faults + 1}
    <3>1. ASSUME NEW port \in AppPorts, NEW size \in Sizes, NEW n \in 1 .. MaxPayload,
                 AppSends(port, size, n)
          PROVE  faults' \in {faults, faults + 1}
      BY <3>1, Zenon DEF AppSends
    <3>2. Unplug => faults' = faults + 1
      BY DEF Unplug
    <3>3. Plug \/ ReceivePacket \/ DeviceGone \/ WriteFails \/ Reconnect \/ InitFails
            \/ LeftOverRemoved \/ UNCHANGED vars => faults' = faults
      BY DEF Plug, ReceivePacket, DeviceGone, WriteFails, Reconnect, InitFails, LeftOverRemoved,
             vars, appVars
    <3>. QED BY <3>1, <3>2, <3>3 DEF Next
  <2>. QED BY <1>1, <2>1
<1>3. device = "open" /\ device_connected /\ QueueInPlace /\ ParserInPlace /\ RoutedInOrder
  BY <1>2 DEF InOrderInv
<1>4. CASE \E port \in AppPorts, size \in Sizes, n \in 1 .. MaxPayload : AppSends(port, size, n)
  <2>1. PICK port \in AppPorts, size \in Sizes, n \in 1 .. MaxPayload : AppSends(port, size, n)
    BY <1>4
  <2>2. Len(sent) + 1 \in Nat /\ Len(usb_in) \in Nat
    BY DEF UsbInv, AppOK
  <2>3. (QueueInPlace /\ ParserInPlace /\ RoutedInOrder)'
    BY <1>2, <1>3, <2>1, <2>2, SendsInOrder
  <2>. QED BY <1>3, <2>1, <2>3 DEF AppSends, linkVars
<1>5. CASE ReceivePacket
  <2>1. (QueueInPlace /\ ParserInPlace /\ RoutedInOrder)'
    BY <1>2, <1>3, <1>5, ReceivesInOrder
  <2>. QED BY <1>3, <1>5, <2>1 DEF ReceivePacket, linkVars
<1>6. CASE LeftOverRemoved \/ UNCHANGED vars
  <2>1. UNCHANGED <<parser, usb_in, sent, routed, device, device_connected>>
    BY <1>6 DEF LeftOverRemoved, vars, appVars
  <2>2. \A k, n : Chunk(k, n)' = Chunk(k, n) /\ Chunks(k)' = Chunks(k)
    BY <2>1, Zenon DEF Chunk, Packet, ChunkStart, ChunkEnd, Minimum, TotalLength, Chunks,
                       NumChunks
  <2>3. QueueInPlace'
    <3>1. ASSUME NEW j, InPlace(j) PROVE InPlace(j)'
      <4>1. PICK x : x = usb_in[j].msg
        OBVIOUS
      <4>2. usb_in'[j].msg = x
        BY <2>1, <4>1
      <4>. QED BY <2>2, <2>1, <3>1, <4>1, <4>2 DEF InPlace
    <3>. QED BY <1>3, <2>1, <3>1 DEF QueueInPlace, Arrived
  <2>4. ParserInPlace'
    <3>1. \A k, n : Expects(k, n)' <=> Expects(k, n)
      BY <2>1, Zenon DEF Expects, Idle, HoldsPart, TooBig, ChunkStart
    <3>2. Idle' <=> Idle
      BY <2>1 DEF Idle
    <3>3. CASE Len(usb_in) = 0
      BY <1>3, <2>1, <3>2, <3>3 DEF ParserInPlace
    <3>4. CASE Len(usb_in) # 0
      <4>1. PICK f : f = usb_in[1].msg
        OBVIOUS
      <4>2. PICK i \in 1 .. Chunks(f) : usb_in[1] = Chunk(f, i) /\ Expects(f, i)
        BY <1>3, <3>4, <4>1 DEF ParserInPlace
      <4>3. usb_in'[1].msg = f /\ usb_in'[1] = usb_in[1]
        BY <2>1, <4>1
      <4>4. i \in 1 .. Chunks(f)' /\ usb_in'[1] = Chunk(f, i)' /\ Expects(f, i)'
        BY <2>2, <3>1, <4>2, <4>3
      <4>5. Len(usb_in') # 0
        BY <2>1, <3>4
      <4>. QED BY <4>3, <4>4, <4>5 DEF ParserInPlace
    <3>. QED BY <3>3, <3>4
  <2>5. RoutedInOrder'
    <3>1. Due' = Due
      BY <2>1 DEF Due, Accepted, Arrived, TooBig
    <3>2. \A k : Entry(k)' = Entry(k)
      BY <2>1, Zenon DEF Entry
    <3>3. RoutedAre(Due, routed)
      BY <1>2, <1>3 DEF RoutedInOrder, RoutedAre, Due
    <3>4. RoutedAre(Due, routed)'
      BY <2>1, <3>1, <3>2, <3>3 DEF RoutedAre
    <3>. QED BY <3>4 DEF RoutedInOrder, RoutedAre, Due
  <2>. QED BY <1>3, <2>1, <2>3, <2>4, <2>5
<1>7. ~(Unplug \/ Plug \/ DeviceGone \/ WriteFails \/ Reconnect \/ InitFails)
  BY <1>2, <1>3 DEF Unplug, Plug, DeviceGone, WriteFails, Reconnect, InitFails
<1>. QED BY <1>4, <1>5, <1>6, <1>7 DEF Next

\* Until the first fault, what the modules got are the messages of the app,
\* each one entire, once, in order and on its port: for every packet size, however
\* db_usb_write_async_zc splits the messages and however many wait.  The fill
\* level of the parser, an unsigned short, must hold the length of a packet.
THEOREM UsbRoutedInOrder ==
    ASSUME MaxPacket < UshortRange
    PROVE  Spec => []RoutedInOrder
<1>1. Init => InOrderInv
  <2>. SUFFICES ASSUME Init PROVE InOrderInv
    OBVIOUS
  <2>1. /\ Len(usb_in) = 0 /\ Len(sent) = 0 /\ Len(routed) = 0
        /\ device = "open" /\ device_connected
    BY DEF Init
  <2>2. QueueInPlace
    BY <2>1 DEF QueueInPlace
  <2>3. ParserInPlace
    BY <2>1 DEF ParserInPlace, Idle, Init
  <2>4. RoutedInOrder
    <3>1. {m \in 1 .. Len(sent) : Accepted(m) /\ Arrived(m)} = {}
      BY <2>1
    <3>. QED BY <2>1, <3>1, FS_EmptySet DEF RoutedInOrder
  <2>. QED BY <2>1, <2>2, <2>3, <2>4 DEF InOrderInv
<1>2. UsbInv /\ InOrderInv /\ [Next]_vars => InOrderInv'
  BY InOrderNext
<1>3. InOrderInv => RoutedInOrder
  BY DEF InOrderInv, RoutedInOrder
<1>. QED BY <1>1, <1>2, <1>3, UsbInitial, UsbStep, PTL DEF Spec
-----------------------------------------------------------------------------
(* After a fault the parser finds back.                                    *)

\* The bytes of the messages that are lost.
LostBytes == BytesOf(Lost)

\* What the parser may be doing when the i-th packet of message m is next.  It
\* still waits for a payload from before the fault and swallows what comes; it
\* is in step with the app; the cable was pulled within a message, and
\* usb_parser_buff_size was left at what had been read of it; this is added to
\* what the next long message brings; or it gave up within message m.
Swallows(i) ==
    /\ parser.state = Awaiting
    /\ Cardinality(LostBytes) + ChunkStart(i) <= parser.buff_size
    /\ Cardinality(LostBytes) < parser.payload_size
InStep(m, i) == Expects(m, i) /\ FindsBack
Stale(m, i) ==
    /\ parser.state = Searching /\ parser.buff_size > 0 /\ Lost = {}
    /\ (i = 1 \/ TooBig(sent[m].size))
Overfull(m, i) ==
    /\ parser.state = Awaiting /\ i > 1 /\ Lost = {}
    /\ parser.payload_size = sent[m].size
    /\ parser.buff_size + HeaderLength > ChunkStart(i)
Skips(i) == Idle /\ i > 1 /\ Cardinality(LostBytes) < MaxPayload
Phase(m, i) == Swallows(i) \/ InStep(m, i) \/ Stale(m, i) \/ Overfull(m, i) \/ Skips(i)

PhaseInv ==
    IF Len(usb_in) = 0 THEN Phase(Len(sent) + 1, 1)
    ELSE usb_in[1].msg > safe =>
            \E i \in 1 .. Chunks(usb_in[1].msg) :
               usb_in[1] = Chunk(usb_in[1].msg, i) /\ Phase(usb_in[1].msg, i)

\* Behind the last fault the packets of the app wait in order, and no message
\* is missing.
InPlaceSince(j) ==
    /\ usb_in[j].msg > safe => InPlace(j)
    /\ usb_in[j].msg <= safe =>
          IF j < Len(usb_in)
          THEN usb_in[j + 1].msg <= safe \/ usb_in[j + 1] = Chunk(safe + 1, 1)
          ELSE safe = Len(sent)
QueueSince ==
    /\ \A j \in 1 .. Len(usb_in) : usb_in[j].msg \in 1 .. Len(sent) /\ InPlaceSince(j)
    /\ Len(usb_in) > 0 => \A m \in usb_in[1].msg .. Len(sent) : m > safe => ~Arrived(m)

\* Each fault leaves at most one more message in usb_parser_buff_size.
FillBound ==
    parser.buff_size <= IF parser.state = Awaiting /\ device = "open"
                        THEN MaxPayload * (faults + 1) ELSE MaxPayload * faults
Bounds ==
    /\ whole \subseteq 1 .. Len(sent) /\ safe <= Len(sent) /\ faults <= MaxFaults
    /\ parser.state = Awaiting => parser.payload_size > 0
    /\ device # "open" => Len(usb_in) = 0 /\ safe = Len(sent)
    /\ FillBound

FindsBackInv == Bounds /\ QueueSince /\ IsFiniteSet(LostBytes) /\ PhaseInv

-----------------------------------------------------------------------------
\* A message of n bytes has n bytes.
LEMMA BytesOfOne ==
    ASSUME NEW m, NEW n \in Nat
    PROVE  /\ IsFiniteSet([msg : {m}, at : 0 .. n - 1])
           /\ Cardinality([msg : {m}, at : 0 .. n - 1]) = n
<1>. DEFINE T == [msg : {m}, at : 0 .. n - 1]
            f == [k \in 0 .. n - 1 |-> [msg |-> m, at |-> k]]
<1>1. IsFiniteSet(0 .. n - 1) /\ Cardinality(0 .. n - 1) = n
  <2>1. n - 1 \in Int /\ 0 \in Int
    OBVIOUS
  <2>. QED BY <2>1, FS_Interval
<1>2. f \in Bijection(0 .. n - 1, T)
  <2>1. f \in [0 .. n - 1 -> T]
    OBVIOUS
  <2>2. \A a, b \in 0 .. n - 1 : f[a] = f[b] => a = b
    OBVIOUS
  <2>3. \A t \in T : \E a \in 0 .. n - 1 : f[a] = t
    OBVIOUS
  <2>. HIDE DEF f, T
  <2>. QED BY <2>1, <2>2, <2>3, Zenon DEF Bijection, Injection, Surjection, IsInjective
<1>3. ExistsBijection(0 .. n - 1, T)
  BY <1>2, Zenon DEF ExistsBijection
<1>. QED BY <1>1, <1>3, FS_Bijection

\* Fewer messages have fewer bytes.
LEMMA BytesOfFewer ==
    ASSUME NEW S, NEW T \in SUBSET S, IsFiniteSet(BytesOf(S))
    PROVE  /\ IsFiniteSet(BytesOf(T)) /\ Cardinality(BytesOf(T)) <= Cardinality(BytesOf(S))
           /\ Cardinality(BytesOf(T)) \in Nat /\ Cardinality(BytesOf(S)) \in Nat
<1>1. BytesOf(T) \subseteq BytesOf(S)
  BY Zenon DEF BytesOf
<1>. QED BY <1>1, FS_Subset, FS_CardinalityType

\* One more message adds as many bytes as it has.
LEMMA BytesOfMore ==
    ASSUME NEW S, NEW m, TotalLength(sent[m].size) \in Nat, NEW T \in SUBSET (S \cup {m}),
           IsFiniteSet(BytesOf(S))
    PROVE  /\ IsFiniteSet(BytesOf(T)) /\ Cardinality(BytesOf(T)) \in Nat
           /\ Cardinality(BytesOf(T)) <= Cardinality(BytesOf(S)) + TotalLength(sent[m].size)
<1>1. PICK n \in Nat : n = TotalLength(sent[m].size)
  OBVIOUS
<1>. DEFINE one == [msg : {m}, at : 0 .. n - 1]
<1>2. BytesOf(T) \subseteq BytesOf(S) \cup one
  BY <1>1, Zenon DEF BytesOf
<1>3. IsFiniteSet(one) /\ Cardinality(one) = n
  BY BytesOfOne
<1>. HIDE DEF one
<1>4. /\ IsFiniteSet(BytesOf(S) \cup one)
      /\ Cardinality(BytesOf(S) \cup one)
           = Cardinality(BytesOf(S)) + Cardinality(one) - Cardinality(BytesOf(S) \cap one)
  BY <1>3, FS_Union
<1>5. Cardinality(BytesOf(S) \cap one) \in Nat
  BY <1>3, FS_Intersection, FS_CardinalityType
<1>6. Cardinality(BytesOf(S)) \in Nat
  BY FS_CardinalityType
<1>7. Cardinality(BytesOf(S) \cup one) <= Cardinality(BytesOf(S)) + n
  BY <1>3, <1>4, <1>5, <1>6
<1>8. /\ IsFiniteSet(BytesOf(T)) /\ Cardinality(BytesOf(T)) \in Nat
      /\ Cardinality(BytesOf(T)) <= Cardinality(BytesOf(S) \cup one)
  BY <1>2, <1>4, FS_Subset, FS_CardinalityType
<1>9. Cardinality(BytesOf(S) \cup one) \in Nat
  BY <1>4, FS_CardinalityType
<1>. QED BY <1>1, <1>6, <1>7, <1>8, <1>9

\* No message has no bytes.
LEMMA BytesOfNone == BytesOf({}) = {} /\ IsFiniteSet(BytesOf({})) /\ Cardinality(BytesOf({})) = 0
<1>1. BytesOf({}) = {}
  BY Zenon DEF BytesOf
<1>. QED BY <1>1, FS_EmptySet

\* The parser as any fault may leave it, and nothing lost since.
LEMMA Fresh ==
    ASSUME ParserOK, parser.state = Awaiting => parser.payload_size > 0, Lost = {}, NEW m
    PROVE  Phase(m, 1) /\ IsFiniteSet(LostBytes)
<1>1. parser.state \in {Searching, Awaiting} /\ parser.buff_size \in Nat
  BY DEF ParserOK, ParserStates
<1>2. Cardinality(LostBytes) = 0 /\ IsFiniteSet(LostBytes)
  BY BytesOfNone DEF LostBytes
<1>3. ChunkStart(1) = 0
  BY DEF ChunkStart
<1>4. CASE parser.state = Awaiting
  BY <1>1, <1>2, <1>3, <1>4 DEF Phase, Swallows
<1>5. CASE parser.state = Searching /\ parser.buff_size = 0
  <2>1. FindsBack
    BY Zenon DEF FindsBack
  <2>. QED BY <1>2, <1>5, <2>1 DEF Phase, InStep, Expects, Idle
<1>6. CASE parser.state = Searching /\ parser.buff_size # 0
  BY <1>1, <1>2, <1>6 DEF Phase, Stale
<1>. QED BY <1>1, <1>2, <1>4, <1>5, <1>6

\* The same of the state after a step.
LEMMA FreshNext ==
    ASSUME NEW m
    PROVE  (/\ ParserOK /\ (parser.state = Awaiting => parser.payload_size > 0)
            /\ Lost = {})' => (Phase(m, 1) /\ IsFiniteSet(LostBytes))'
<1>1. (/\ ParserOK /\ (parser.state = Awaiting => parser.payload_size > 0)
       /\ Lost = {}) => (Phase(m, 1) /\ IsFiniteSet(LostBytes))
  BY Fresh
<1>. QED BY <1>1, PTL

\* Whatever the parser does, few messages are lost.
LEMMA PhaseFindsBack ==
    ASSUME AwaitedFits, ParserOK, NEW m, NEW i \in Nat, IsFiniteSet(LostBytes), Phase(m, i)
    PROVE  FindsBack
<1>1. \A x : {k \in Lost : k < x} \in SUBSET Lost
  OBVIOUS
<1>2. ASSUME NEW n \in Nat, n <= MaxPayload, Cardinality(LostBytes) < n PROVE FindsBack
  <2>1. ASSUME NEW x \in Lost
        PROVE  Cardinality(BytesOf({k \in Lost : k < x})) < MaxPayload
    <3>. DEFINE T == {k \in Lost : k < x}
    <3>1. T \in SUBSET Lost
      OBVIOUS
    <3>. HIDE DEF T
    <3>2. /\ Cardinality(BytesOf(T)) <= Cardinality(BytesOf(Lost)) /\ Cardinality(BytesOf(T)) \in Nat
          /\ Cardinality(BytesOf(Lost)) \in Nat
      BY <3>1, BytesOfFewer DEF LostBytes
    <3>3. Cardinality(BytesOf(T)) < MaxPayload
      BY <1>2, <3>2 DEF LostBytes
    <3>. QED BY <3>3 DEF T
  <2>. QED BY <2>1 DEF FindsBack
<1>3. CASE Swallows(i)
  <2>1. parser.payload_size \in Nat /\ parser.payload_size <= MaxPayload
    BY <1>3 DEF Swallows, AwaitedFits, ParserOK, ParserStates
  <2>. QED BY <1>2, <1>3, <2>1 DEF Swallows
<1>4. CASE Stale(m, i) \/ Overfull(m, i)
  <2>1. Lost = {}
    BY <1>4 DEF Stale, Overfull
  <2>. QED BY <2>1, Zenon DEF FindsBack
<1>5. CASE Skips(i)
  BY <1>2, <1>5 DEF Skips
<1>. QED BY <1>3, <1>4, <1>5 DEF Phase, InStep

\* Where the i-th packet of message m begins and ends.
LEMMA ChunkCut ==
    ASSUME AppOK, NEW m \in 1 .. Len(sent), NEW i \in 1 .. Chunks(m)
    PROVE  /\ sent[m].size \in Nat \ {0} /\ i \in Nat \ {0} /\ Chunks(m) \in Nat
           /\ Chunk(m, i) \in PacketsOf /\ Chunk(m, i).len \in Nat /\ ChunkStart(i) \in Nat
           /\ Chunk(m, i).port = sent[m].port /\ Chunk(m, i).size = sent[m].size
           /\ Chunk(m, i).msg = m /\ Chunk(m, i).first = ChunkStart(i)
           /\ i = Chunks(m) => Chunk(m, i).len = sent[m].size + HeaderLength - ChunkStart(i)
           /\ i # Chunks(m) =>
                 /\ i + 1 \in 1 .. Chunks(m) /\ ChunkStart(i + 1) \in Nat
                 /\ Chunk(m, i).len = ChunkStart(i + 1) - ChunkStart(i)
                 /\ ChunkStart(i + 1) < sent[m].size + HeaderLength
                 /\ ChunkStart(i + 1) >= MaxPacket
           /\ HasHeader(Chunk(m, i)) <=> i = 1
           /\ i = 1 => ChunkStart(i) = 0
<1>. DEFINE pkt == Chunk(m, i)
            sz  == sent[m].size
            n   == Chunks(m)
<1>1. /\ sz \in Nat \ {0} /\ n \in Nat \ {0} /\ n = NumChunks(sz)
      /\ pkt \in PacketsOf /\ pkt.len \in Nat /\ pkt.msg = m /\ pkt.port = sent[m].port
      /\ pkt.size = sz /\ pkt.first = ChunkStart(i)
      /\ pkt.len = ChunkEnd(sz, i) - ChunkStart(i)
      /\ ChunkStart(i) \in Nat /\ ChunkEnd(sz, i) \in Nat
      /\ i = 1 \/ ChunkStart(i) >= MaxPacket
  BY ChunkFacts DEF Chunks
<1>. HIDE DEF pkt, sz, n
<1>2. i \in 1 .. NumChunks(sz) /\ i \in Nat \ {0} /\ TotalLength(sz) = sz + HeaderLength
  BY <1>1 DEF n, TotalLength
<1>3. ChunkStart(1) = 0 /\ ChunkEnd(sz, n) = sz + HeaderLength
  BY <1>1, <1>2, CutWithoutGaps
<1>4. ASSUME i # n
      PROVE  /\ i + 1 \in 1 .. n
             /\ ChunkEnd(sz, i) = ChunkStart(i + 1) /\ ChunkStart(i + 1) \in Nat
             /\ MaxPacket <= ChunkStart(i + 1) /\ ChunkStart(i + 1) < sz + HeaderLength
  BY <1>1, <1>2, <1>4, CutWithoutGaps
<1>5. i = n => pkt.len = sz + HeaderLength - ChunkStart(i)
  BY <1>1, <1>3
<1>6. i # n => pkt.len = ChunkStart(i + 1) - ChunkStart(i)
  BY <1>1, <1>4
<1>7. HasHeader(pkt) <=> i = 1
  <2>1. CASE i = 1
    <3>1. CASE i = n
      BY <1>1, <1>3, <1>5, <2>1, <3>1 DEF HasHeader
    <3>2. CASE i # n
      BY <1>1, <1>3, <1>4, <1>6, <2>1, <3>2 DEF HasHeader
    <3>. QED BY <3>1, <3>2
  <2>2. CASE i # 1
    BY <1>1, <2>2 DEF HasHeader
  <2>. QED BY <2>1, <2>2
<1>. QED BY <1>1, <1>2, <1>3, <1>4, <1>5, <1>6, <1>7 DEF pkt, sz, n

\* What the i-th packet of message m can do to the messages that are lost.
LostStep(m, i) ==
    /\ \A k \in Lost : k \in Nat /\ k < m
    /\ Lost' \subseteq Lost \cup {m}
    /\ i # Chunks(m) \/ ~Accepted(m) \/ routed' = Append(routed, Entry(m)) => Lost' \subseteq Lost

\* The bytes that are lost after a step.
LEMMA LostBytesNext ==
    ASSUME NEW S, sent' = sent, Lost' = S
    PROVE  LostBytes' = BytesOf(S)
BY Zenon DEF LostBytes, BytesOf, TotalLength

\* The parser gave up within message m.
LEMMA GivesUp ==
    ASSUME NEW m \in Nat, NEW i \in Nat \ {0}, LostStep(m, i), sent' = sent, IsFiniteSet(LostBytes),
           Cardinality(LostBytes) < MaxPayload, Idle'
    PROVE  /\ i # Chunks(m) => Phase(m, i + 1)'
           /\ i = Chunks(m) => \A k : Phase(k, 1)'
<1>1. PICK S : S = Lost'
  OBVIOUS
<1>2. LostBytes' = BytesOf(S)
  BY <1>1, LostBytesNext
<1>3. CASE i # Chunks(m)
  <2>1. S \in SUBSET Lost
    BY <1>1, <1>3 DEF LostStep
  <2>2. Cardinality(BytesOf(S)) < MaxPayload
    <3>1. /\ Cardinality(BytesOf(S)) <= Cardinality(BytesOf(Lost))
          /\ Cardinality(BytesOf(S)) \in Nat /\ Cardinality(BytesOf(Lost)) \in Nat
      BY <2>1, BytesOfFewer DEF LostBytes
    <3>. QED BY <3>1 DEF LostBytes
  <2>3. Skips(i + 1)'
    <3>1. i + 1 > 1
      OBVIOUS
    <3>2. Cardinality(LostBytes') < MaxPayload
      BY <1>2, <2>2
    <3>. QED BY <3>1, <3>2 DEF Skips
  <2>. QED BY <1>3, <2>3 DEF Phase
<1>4. CASE i = Chunks(m)
  <2>1. S \subseteq Lost \cup {m} /\ \A k \in Lost : k \in Nat /\ k < m
    BY <1>1 DEF LostStep
  <2>2. ASSUME NEW x \in S
        PROVE  Cardinality(BytesOf({k \in S : k < x})) < MaxPayload
    <3>. DEFINE T == {k \in S : k < x}
    <3>1. T \in SUBSET Lost
      <4>1. ASSUME NEW k \in T PROVE k \in Lost
        <5>1. CASE k = m
          <6>1. m < x
            BY <5>1
          <6>2. x = m \/ x < m
            BY <2>1, <2>2
          <6>3. CASE x = m
            BY <6>1, <6>3
          <6>4. CASE x # m
            <7>1. x \in Lost
              BY <2>1, <2>2, <6>4
            <7>. QED BY <2>1, <5>1, <6>1, <7>1
          <6>. QED BY <6>3, <6>4
        <5>. QED BY <2>1, <5>1
      <4>. QED BY <4>1
    <3>. HIDE DEF T
    <3>2. /\ Cardinality(BytesOf(T)) <= Cardinality(BytesOf(Lost))
          /\ Cardinality(BytesOf(T)) \in Nat /\ Cardinality(BytesOf(Lost)) \in Nat
      BY <3>1, BytesOfFewer DEF LostBytes
    <3>3. Cardinality(BytesOf(T)) < MaxPayload
      BY <3>2 DEF LostBytes
    <3>. QED BY <3>3 DEF T
  <2>3. FindsBack'
    BY <1>1, <2>2, Zenon DEF FindsBack, BytesOf, TotalLength
  <2>4. ASSUME NEW k PROVE Phase(k, 1)'
    BY <2>3, Zenon DEF Phase, InStep, Expects
  <2>. QED BY <1>4, <2>4
<1>. QED BY <1>3, <1>4

\* What a packet of a payload does to the fill level of the parser.
LEMMA PayloadFills ==
    ASSUME parser \in ParserStates, NEW pkt \in PacketsOf, PayloadPacket(pkt)
    PROVE  /\ parser.buff_size + pkt.len >= parser.payload_size => Idle'
           /\ parser.buff_size + pkt.len < parser.payload_size =>
                 /\ parser'.state = parser.state /\ parser'.payload_size = parser.payload_size
                 /\ parser'.buff_size = parser.buff_size + pkt.len
<1>. DEFINE filled == parser.buff_size + pkt.len
            copied == Copy(parser.buffer, parser.buff_size, pkt, 0)
<1>1. /\ parser.buff_size \in Nat /\ parser.payload_size \in Nat /\ pkt.len \in Nat
      /\ filled \in Nat
  BY DEF ParserStates, PacketsOf
<1>2. CASE filled = parser.payload_size
  <2>1. parser' = [parser EXCEPT !.state = Searching, !.buff_size = 0, !.buffer = copied]
    <3>1. ~(filled < parser.payload_size) /\ ~(filled > parser.payload_size)
      BY <1>1, <1>2
    <3>. QED BY <1>2, <3>1, Zenon DEF PayloadPacket
  <2>. HIDE DEF copied
  <2>2. Idle'
    BY <2>1 DEF ParserStates, Idle
  <2>. QED BY <1>1, <1>2, <2>2
<1>3. CASE filled < parser.payload_size
  <2>1. parser' = [parser EXCEPT !.buff_size = filled, !.buffer = copied]
    <3>1. filled # parser.payload_size /\ ~(filled > parser.payload_size)
      BY <1>1, <1>3
    <3>. QED BY <1>3, <3>1, Zenon DEF PayloadPacket
  <2>2. ~(filled >= parser.payload_size)
    BY <1>1, <1>3
  <2>. HIDE DEF copied, filled
  <2>3. /\ parser'.state = parser.state /\ parser'.payload_size = parser.payload_size
        /\ parser'.buff_size = filled
    BY <2>1 DEF ParserStates
  <2>. QED BY <2>2, <2>3 DEF filled
<1>4. CASE filled > parser.payload_size
  <2>1. parser' = Dropped(parser)
    BY <1>1, <1>4 DEF PayloadPacket
  <2>2. Idle'
    BY <2>1 DEF Dropped, ParserStates, Idle
  <2>. QED BY <1>1, <1>4, <2>2
<1>. QED BY <1>1, <1>2, <1>3, <1>4

\* The next packet of the app goes on with what the parser was doing.
LEMMA SwallowsNext ==
    ASSUME AppOK, ParserOK, NEW m \in 1 .. Len(sent), NEW i \in 1 .. Chunks(m), Swallows(i),
           process_db_usb_proto(Chunk(m, i)), sent' = sent, LostStep(m, i), IsFiniteSet(LostBytes)
    PROVE  /\ i # Chunks(m) => Phase(m, i + 1)'
           /\ i = Chunks(m) => \A k : Phase(k, 1)'
<1>. DEFINE pkt == Chunk(m, i)
            sz  == sent[m].size
            n   == Chunks(m)
            filled == parser.buff_size + pkt.len
<1>1. /\ sz \in Nat \ {0} /\ i \in Nat \ {0} /\ n \in Nat /\ pkt.len \in Nat /\ ChunkStart(i) \in Nat
      /\ i = n => pkt.len = sz + HeaderLength - ChunkStart(i)
      /\ i # n => /\ i + 1 \in 1 .. n /\ ChunkStart(i + 1) \in Nat
                  /\ pkt.len = ChunkStart(i + 1) - ChunkStart(i)
  BY ChunkCut
<1>2. /\ parser.buff_size \in Nat /\ parser.payload_size \in Nat /\ parser \in ParserStates
      /\ parser.state = Awaiting /\ parser.payload_size <= MaxPayload
  BY DEF ParserOK, ParserStates, Swallows, AwaitedFits
<1>3. PayloadPacket(pkt)
  BY <1>2 DEF process_db_usb_proto, Searching, Awaiting
<1>4. PICK c \in Nat : c = Cardinality(LostBytes)
  BY FS_CardinalityType
<1>5. c + ChunkStart(i) <= parser.buff_size /\ c < parser.payload_size
  BY <1>4 DEF Swallows
<1>6. m \in Nat
  BY DEF AppOK
<1>7. pkt \in PacketsOf
  BY ChunkCut
<1>. HIDE DEF pkt, sz, n
<1>8. CASE filled >= parser.payload_size
  <2>1. Idle'
    BY <1>2, <1>3, <1>8, <1>7, PayloadFills
  <2>2. Cardinality(LostBytes) < MaxPayload
    BY <1>2, <1>4, <1>5
  <2>. QED BY <1>1, <1>6, <2>1, <2>2, GivesUp
<1>9. CASE ~(filled >= parser.payload_size)
  <2>1. filled < parser.payload_size
    BY <1>1, <1>2, <1>9
  <2>2. /\ parser'.state = Awaiting /\ parser'.buff_size = filled
        /\ parser'.payload_size = parser.payload_size
    BY <1>2, <1>3, <1>7, <2>1, PayloadFills
  <2>3. PICK S : S = Lost'
    OBVIOUS
  <2>4. LostBytes' = BytesOf(S)
    BY <2>3, LostBytesNext
  <2>5. CASE i # n
    <3>1. S \in SUBSET Lost
      BY <2>3, <2>5 DEF LostStep, n
    <3>2. Cardinality(BytesOf(S)) \in Nat /\ Cardinality(BytesOf(S)) <= c
      BY <1>4, <3>1, BytesOfFewer DEF LostBytes
    <3>3. PICK d \in Nat : d = Cardinality(BytesOf(S)) /\ d <= c
      BY <3>2
    <3>4. d + ChunkStart(i + 1) <= filled /\ d < parser.payload_size
      BY <1>1, <1>2, <1>5, <2>5, <3>3
    <3>5. Swallows(i + 1)'
      <4>1. ChunkStart(i + 1)' = ChunkStart(i + 1)
        BY DEF ChunkStart
      <4>. QED BY <2>2, <2>4, <3>3, <3>4, <4>1 DEF Swallows
    <3>. QED BY <2>5, <3>5 DEF Phase, n
  <2>6. CASE i = n
    <3>1. S \in SUBSET (Lost \cup {m})
      BY <2>3 DEF LostStep
    <3>2. TotalLength(sz) = sz + HeaderLength /\ TotalLength(sent[m].size) \in Nat
      BY <1>1 DEF TotalLength, sz
    <3>3. Cardinality(BytesOf(S)) \in Nat /\ Cardinality(BytesOf(S)) <= c + TotalLength(sz)
      BY <1>4, <3>1, <3>2, BytesOfMore DEF LostBytes, sz
    <3>4. PICK d \in Nat : d = Cardinality(BytesOf(S)) /\ d <= c + (sz + HeaderLength)
      BY <3>2, <3>3
    <3>5. d <= filled /\ d < parser.payload_size
      BY <1>1, <1>2, <1>5, <2>1, <2>6, <3>4
    <3>6. ChunkStart(1) = 0
      BY DEF ChunkStart
    <3>7. Swallows(1)'
      <4>1. ChunkStart(1)' = ChunkStart(1)
        BY DEF ChunkStart
      <4>. QED BY <1>1, <1>2, <2>2, <2>4, <3>4, <3>5, <3>6, <4>1 DEF Swallows
    <3>. QED BY <2>6, <3>7 DEF Phase, n
  <2>. QED BY <2>5, <2>6 DEF n
<1>. QED BY <1>8, <1>9

\* In step with the app, the parser stays in step: it reads a message to its end,
\* or gives up on one that is too big.
LEMMA InStepNext ==
    ASSUME MaxPacket < UshortRange, AppOK, ParserOK, NEW m \in 1 .. Len(sent),
           NEW i \in 1 .. Chunks(m), InStep(m, i),
           process_db_usb_proto(Chunk(m, i)), sent' = sent, LostStep(m, i), IsFiniteSet(LostBytes)
    PROVE  /\ i # Chunks(m) => Phase(m, i + 1)'
           /\ i = Chunks(m) => \A k : Phase(k, 1)'
<1>1. /\ i # Chunks(m) => Expects(m, i + 1)' /\ routed' = routed
      /\ i = Chunks(m) =>
            /\ Idle'
            /\ routed' = IF Accepted(m) THEN Append(routed, Entry(m)) ELSE routed
  BY ParserTakes DEF InStep
<1>2. PICK S : S = Lost'
  OBVIOUS
<1>3. S \subseteq Lost
  BY <1>1, <1>2 DEF LostStep
<1>4. ASSUME NEW x \in S
      PROVE  Cardinality(BytesOf({k \in S : k < x})) < MaxPayload
  <2>. DEFINE T == {k \in S : k < x}
              U == {k \in Lost : k < x}
  <2>1. T \in SUBSET U /\ U \in SUBSET Lost
    BY <1>3
  <2>2. Cardinality(BytesOf(U)) < MaxPayload
    <3>1. x \in Lost
      BY <1>3, <1>4
    <3>. QED BY <3>1 DEF InStep, FindsBack
  <2>. HIDE DEF T, U
  <2>3. IsFiniteSet(BytesOf(U))
    BY <2>1, BytesOfFewer DEF LostBytes
  <2>4. /\ Cardinality(BytesOf(T)) <= Cardinality(BytesOf(U))
        /\ Cardinality(BytesOf(T)) \in Nat /\ Cardinality(BytesOf(U)) \in Nat
    BY <2>1, <2>3, BytesOfFewer
  <2>5. Cardinality(BytesOf(T)) < MaxPayload
    BY <2>2, <2>4
  <2>. QED BY <2>5 DEF T
<1>5. FindsBack'
  BY <1>2, <1>4, Zenon DEF FindsBack, BytesOf, TotalLength
<1>6. i # Chunks(m) => Phase(m, i + 1)'
  BY <1>1, <1>5, Zenon DEF Phase, InStep
<1>7. ASSUME i = Chunks(m), NEW k PROVE Phase(k, 1)'
  BY <1>1, <1>5, <1>7, Zenon DEF Phase, InStep, Expects
<1>. QED BY <1>6, <1>7

\* What a packet with a header does to the fill level of the parser.
LEMMA HeaderFills ==
    ASSUME parser \in ParserStates, NEW pkt \in PacketsOf, HeaderPacket(pkt)
    PROVE  /\ TooBig(pkt.size) => parser'.state = parser.state /\ parser'.buff_size = parser.buff_size
           /\ ~TooBig(pkt.size) /\ pkt.len - HeaderLength = pkt.size =>
                 /\ parser'.state = parser.state /\ parser'.buff_size = parser.buff_size
                 /\ Route(pkt.port, FromPacket(pkt, pkt.size))
           /\ ~TooBig(pkt.size) /\ pkt.len - HeaderLength # pkt.size =>
                 /\ parser'.state = Awaiting /\ parser'.payload_size = pkt.size
                 /\ parser'.buff_size = (parser.buff_size + (pkt.len - HeaderLength)) % UshortRange
<1>. DEFINE known == [parser EXCEPT !.port = pkt.port, !.payload_size = pkt.size]
            rest  == pkt.len - HeaderLength
<1>1. /\ known.state = parser.state /\ known.buff_size = parser.buff_size
      /\ known.payload_size = pkt.size /\ known \in ParserStates
  BY DEF ParserStates, PacketsOf
<1>2. CASE TooBig(pkt.size)
  <2>1. parser' = known
    BY <1>2, Zenon DEF HeaderPacket
  <2>. QED BY <1>1, <1>2, <2>1
<1>3. CASE ~TooBig(pkt.size) /\ rest = pkt.size
  <2>1. parser' = known /\ Route(pkt.port, FromPacket(pkt, pkt.size))
    BY <1>3, Zenon DEF HeaderPacket
  <2>. HIDE DEF known
  <2>2. parser'.state = parser.state /\ parser'.buff_size = parser.buff_size
    BY <1>1, <2>1
  <2>. QED BY <1>3, <2>1, <2>2
<1>4. CASE ~TooBig(pkt.size) /\ rest # pkt.size
  <2>1. parser' = [known EXCEPT !.state = Awaiting, !.buff_size = (@ + rest) % UshortRange,
                                !.buffer = Copy(@, 0, pkt, HeaderLength)]
    BY <1>4, Zenon DEF HeaderPacket
  <2>. HIDE DEF known, rest
  <2>2. /\ parser'.state = Awaiting /\ parser'.payload_size = known.payload_size
        /\ parser'.buff_size = (known.buff_size + rest) % UshortRange
    BY <1>1, <2>1 DEF ParserStates
  <2>3. /\ parser'.payload_size = pkt.size
        /\ parser'.buff_size = (parser.buff_size + rest) % UshortRange
    BY <1>1, <2>2
  <2>. QED BY <1>4, <2>2, <2>3 DEF rest
<1>. QED BY <1>2, <1>3, <1>4

\* A message that fits in one packet is routed from there.
LEMMA FromOnePacket ==
    ASSUME AppOK, NEW m \in 1 .. Len(sent)
    PROVE  [port |-> sent[m].port, bytes |-> FromPacket(Chunk(m, 1), sent[m].size)] = Entry(m)
<1>. DEFINE pkt == Chunk(m, 1)
            sz == sent[m].size
<1>1. sz \in Nat /\ pkt.msg = m /\ pkt.first = 0
  <2>1. 1 \in 1 .. Chunks(m)
    BY ChunkFacts
  <2>. QED BY <2>1, ChunkCut
<1>. HIDE DEF pkt, sz
<1>2. \A j \in 1 .. sz : PacketByte(pkt, HeaderLength + j - 1) = [msg |-> m, at |-> HeaderLength + j - 1]
  <2>1. \A j \in 1 .. sz : 0 + (HeaderLength + j - 1) = HeaderLength + j - 1
    BY <1>1
  <2>. QED BY <1>1, <2>1 DEF PacketByte
<1>3. FromPacket(pkt, sz) = [j \in 1 .. sz |-> [msg |-> m, at |-> HeaderLength + j - 1]]
  BY <1>2 DEF FromPacket
<1>. QED BY <1>3 DEF Entry, sz, pkt

\* A fill level left from before the fault stays while messages fit into one
\* packet or are too big; to that of a longer message it is added.
LEMMA StaleNext ==
    ASSUME AppOK, ParserOK, NEW m \in 1 .. Len(sent), NEW i \in 1 .. Chunks(m), Stale(m, i),
           parser.buff_size + MaxPayload < UshortRange, Chunk(m, i).len <= UsbBufferSize,
           process_db_usb_proto(Chunk(m, i)), sent' = sent, LostStep(m, i)
    PROVE  /\ i # Chunks(m) => Phase(m, i + 1)'
           /\ i = Chunks(m) => \A k : Phase(k, 1)'
<1>. DEFINE pkt == Chunk(m, i)
            sz  == sent[m].size
            n   == Chunks(m)
            rest == pkt.len - HeaderLength
<1>1. /\ sz \in Nat \ {0} /\ i \in Nat \ {0} /\ n \in Nat /\ pkt.len \in Nat /\ ChunkStart(i) \in Nat
      /\ pkt \in PacketsOf /\ pkt.size = sz /\ pkt.port = sent[m].port
      /\ i = n => pkt.len = sz + HeaderLength - ChunkStart(i)
      /\ i # n => /\ i + 1 \in 1 .. n /\ ChunkStart(i + 1) \in Nat
                  /\ pkt.len = ChunkStart(i + 1) - ChunkStart(i)
                  /\ ChunkStart(i + 1) < sz + HeaderLength /\ ChunkStart(i + 1) >= MaxPacket
      /\ HasHeader(pkt) <=> i = 1
      /\ i = 1 => ChunkStart(i) = 0
  BY ChunkCut
<1>2. /\ parser.buff_size \in Nat \ {0} /\ parser \in ParserStates /\ parser.state = Searching
      /\ Lost = {}
  BY DEF ParserOK, ParserStates, Stale
<1>3. i + 1 > 1
  BY <1>1
<1>. HIDE DEF pkt, sz, n
<1>4. ASSUME parser'.state = Searching, parser'.buff_size = parser.buff_size,
             TooBig(sz) \/ i = n, Lost' = {}
      PROVE  /\ i # n => Phase(m, i + 1)'
             /\ i = n => \A k : Phase(k, 1)'
  <2>1. parser'.buff_size > 0
    BY <1>2, <1>4
  <2>2. TooBig(sz) => TooBig(sent'[m].size)
    BY Zenon DEF TooBig, sz
  <2>3. i # n => Stale(m, i + 1)'
    BY <1>4, <2>1, <2>2 DEF Stale, TooBig
  <2>4. i = n => \A k : Stale(k, 1)'
    BY <1>4, <2>1 DEF Stale
  <2>. QED BY <2>3, <2>4 DEF Phase
<1>5. CASE TooBig(sz)
  <2>1. ~Accepted(m)
    BY <1>5 DEF Accepted, sz
  <2>2. Lost' = {}
    BY <1>2, <2>1 DEF LostStep
  <2>3. parser'.state = Searching /\ parser'.buff_size = parser.buff_size
    <3>1. CASE i = 1
      <4>1. HeaderPacket(pkt)
        BY <1>1, <1>2, <3>1 DEF process_db_usb_proto, pkt, Searching, Awaiting
      <4>. QED BY <1>1, <1>2, <1>5, <4>1, HeaderFills
    <3>2. CASE i # 1
      <4>1. parser' = parser
        BY <1>1, <1>2, <3>2 DEF process_db_usb_proto, pkt, Searching, Awaiting
      <4>. QED BY <1>2, <4>1
    <3>. QED BY <3>1, <3>2
  <2>. QED BY <1>4, <1>5, <2>2, <2>3 DEF n
<1>6. CASE ~TooBig(sz)
  <2>1. i = 1
    BY <1>6 DEF Stale, sz
  <2>2. HeaderPacket(pkt)
    BY <1>1, <1>2, <2>1 DEF process_db_usb_proto, pkt, Searching, Awaiting
  <2>3. CASE i = n
    <3>1. pkt.len - HeaderLength = pkt.size
      BY <1>1, <2>1, <2>3
    <3>2. /\ parser'.state = Searching /\ parser'.buff_size = parser.buff_size
          /\ Route(pkt.port, FromPacket(pkt, pkt.size))
      BY <1>1, <1>2, <1>6, <2>2, <3>1, HeaderFills
    <3>3. [port |-> sent[m].port, bytes |-> FromPacket(pkt, sz)] = Entry(m)
      BY <2>1, FromOnePacket DEF pkt, sz
    <3>4. ~Accepted(m) \/ routed' = Append(routed, Entry(m))
      BY <1>1, <3>2, <3>3 DEF Route, Accepted
    <3>5. Lost' = {}
      BY <1>2, <3>4 DEF LostStep
    <3>. QED BY <1>4, <2>3, <3>2, <3>5 DEF n
  <2>4. CASE i # n
    <3>1. rest # pkt.size /\ rest \in Nat /\ rest + HeaderLength = ChunkStart(i + 1)
      BY <1>1, <2>1, <2>4
    <3>2. rest <= MaxPayload
      <4>1. pkt.len <= UsbBufferSize
        BY DEF pkt
      <4>. QED BY <1>1, <4>1
    <3>. HIDE DEF rest
    <3>3. (parser.buff_size + rest) % UshortRange = parser.buff_size + rest
      <4>1. PICK x \in Nat : x = parser.buff_size + rest
        BY <1>2, <3>1
      <4>2. x < UshortRange
        BY <1>2, <3>1, <3>2, <4>1
      <4>3. x % UshortRange = x
        BY <4>2
      <4>. QED BY <4>1, <4>3
    <3>4. /\ parser'.state = Awaiting /\ parser'.payload_size = sz
          /\ parser'.buff_size = parser.buff_size + rest
      <4>1. /\ parser'.state = Awaiting /\ parser'.payload_size = pkt.size
            /\ parser'.buff_size = (parser.buff_size + rest) % UshortRange
        BY <1>1, <1>2, <1>6, <2>2, <3>1, HeaderFills DEF rest
      <4>. QED BY <1>1, <3>3, <4>1
    <3>5. Lost' = {}
      BY <1>2, <2>4 DEF LostStep, n
    <3>6. parser'.buff_size + HeaderLength > ChunkStart(i + 1)
      <4>1. PICK c \in Nat : c = ChunkStart(i + 1)
        BY <1>1, <2>4
      <4>2. rest + HeaderLength = c
        BY <3>1, <4>1
      <4>3. parser.buff_size + rest + HeaderLength > c
        BY <1>2, <3>1, <4>2
      <4>. QED BY <3>4, <4>1, <4>3
    <3>7. Overfull(m, i + 1)'
      <4>1. ChunkStart(i + 1)' = ChunkStart(i + 1) /\ sent'[m].size = sz
        BY DEF ChunkStart, sz
      <4>. QED BY <1>3, <3>4, <3>5, <3>6, <4>1 DEF Overfull
    <3>. QED BY <2>4, <3>7 DEF Phase, n
  <2>. QED BY <2>3, <2>4
<1>. QED BY <1>5, <1>6

\* With a fill level ahead of the message, the parser gives up before the message
\* ends, having lost nothing before it.
LEMMA OverfullNext ==
    ASSUME AppOK, ParserOK, NEW m \in 1 .. Len(sent), NEW i \in 1 .. Chunks(m), Overfull(m, i),
           process_db_usb_proto(Chunk(m, i)), sent' = sent, LostStep(m, i)
    PROVE  /\ i # Chunks(m) => Phase(m, i + 1)'
           /\ i = Chunks(m) => \A k : Phase(k, 1)'
<1>. DEFINE pkt == Chunk(m, i)
            sz  == sent[m].size
            n   == Chunks(m)
            filled == parser.buff_size + pkt.len
<1>1. /\ sz \in Nat \ {0} /\ i \in Nat \ {0} /\ n \in Nat /\ pkt.len \in Nat /\ ChunkStart(i) \in Nat
      /\ pkt \in PacketsOf
      /\ i = n => pkt.len = sz + HeaderLength - ChunkStart(i)
      /\ i # n => /\ i + 1 \in 1 .. n /\ ChunkStart(i + 1) \in Nat
                  /\ pkt.len = ChunkStart(i + 1) - ChunkStart(i)
  BY ChunkCut
<1>2. /\ parser.buff_size \in Nat /\ parser \in ParserStates /\ parser.state = Awaiting
      /\ parser.payload_size = sz /\ parser.buff_size + HeaderLength > ChunkStart(i) /\ Lost = {}
  BY DEF ParserOK, ParserStates, Overfull
<1>3. PayloadPacket(pkt)
  BY <1>2 DEF process_db_usb_proto, Searching, Awaiting
<1>4. IsFiniteSet(LostBytes) /\ Cardinality(LostBytes) < MaxPayload /\ m \in Nat
  BY <1>2, BytesOfNone DEF LostBytes, AppOK
<1>. HIDE DEF pkt, sz, n
<1>5. CASE filled >= sz
  <2>1. Idle'
    BY <1>1, <1>2, <1>3, <1>5, PayloadFills
  <2>. QED BY <1>1, <1>4, <2>1, GivesUp
<1>6. CASE ~(filled >= sz)
  <2>1. filled < sz /\ i # n
    BY <1>1, <1>2, <1>6
  <2>2. /\ parser'.state = Awaiting /\ parser'.payload_size = sz
        /\ parser'.buff_size = filled
    BY <1>1, <1>2, <1>3, <2>1, PayloadFills
  <2>3. filled + HeaderLength > ChunkStart(i + 1) /\ i + 1 > 1
    BY <1>1, <1>2, <2>1
  <2>4. Lost' = {}
    BY <1>2, <2>1 DEF LostStep, n
  <2>5. Overfull(m, i + 1)'
    <3>1. ChunkStart(i + 1)' = ChunkStart(i + 1) /\ sent'[m].size = sz
      BY DEF ChunkStart, sz
    <3>. QED BY <2>2, <2>3, <2>4, <3>1 DEF Overfull
  <2>. QED BY <2>1, <2>5 DEF Phase, n
<1>. QED BY <1>5, <1>6

\* Having given up, the parser passes over the rest of the message, and the next
\* message finds it searching.
LEMMA SkipsNext ==
    ASSUME AppOK, NEW m \in 1 .. Len(sent), NEW i \in 1 .. Chunks(m), Skips(i),
           process_db_usb_proto(Chunk(m, i)), sent' = sent, LostStep(m, i), IsFiniteSet(LostBytes)
    PROVE  /\ i # Chunks(m) => Phase(m, i + 1)'
           /\ i = Chunks(m) => \A k : Phase(k, 1)'
<1>1. ~HasHeader(Chunk(m, i)) /\ i \in Nat \ {0} /\ m \in Nat
  BY ChunkCut DEF Skips, AppOK
<1>2. parser' = parser
  BY <1>1 DEF process_db_usb_proto, Skips, Idle, Searching, Awaiting
<1>3. Idle' /\ Cardinality(LostBytes) < MaxPayload
  BY <1>2 DEF Skips, Idle
<1>. QED BY <1>1, <1>3, GivesUp

\* The parser takes the i-th packet of message m.
LEMMA PhaseNext ==
    ASSUME AppOK, ParserOK, NEW m \in 1 .. Len(sent), NEW i \in 1 .. Chunks(m), Phase(m, i),
           MaxPacket < UshortRange, Chunk(m, i).len <= UsbBufferSize,
           parser.state = Searching => parser.buff_size + MaxPayload < UshortRange,
           process_db_usb_proto(Chunk(m, i)), sent' = sent, LostStep(m, i), IsFiniteSet(LostBytes)
    PROVE  /\ IsFiniteSet(LostBytes)'
           /\ i # Chunks(m) => Phase(m, i + 1)'
           /\ i = Chunks(m) => \A k : Phase(k, 1)'
<1>1. IsFiniteSet(LostBytes)'
  <2>1. PICK S : S = Lost'
    OBVIOUS
  <2>2. S \in SUBSET (Lost \cup {m})
    BY <2>1 DEF LostStep
  <2>3. TotalLength(sent[m].size) \in Nat
    BY ChunkFacts DEF TotalLength
  <2>4. IsFiniteSet(BytesOf(S))
    BY <2>2, <2>3, BytesOfMore DEF LostBytes
  <2>5. LostBytes' = BytesOf(S)
    BY <2>1, LostBytesNext
  <2>. QED BY <2>4, <2>5
<1>2. CASE Swallows(i)
  BY <1>1, <1>2, SwallowsNext
<1>3. CASE InStep(m, i)
  BY <1>1, <1>3, InStepNext
<1>4. CASE Stale(m, i)
  <2>1. parser.buff_size + MaxPayload < UshortRange
    BY <1>4 DEF Stale
  <2>. QED BY <1>1, <1>4, <2>1, StaleNext
<1>5. CASE Overfull(m, i)
  BY <1>1, <1>5, OverfullNext
<1>6. CASE Skips(i)
  BY <1>1, <1>6, SkipsNext
<1>. QED BY <1>2, <1>3, <1>4, <1>5, <1>6 DEF Phase

\* The bound on the fill level, as products of two numbers.
LEMMA FillLevels ==
    ASSUME NEW f \in Nat, NEW g \in Nat, f <= g
    PROVE  /\ MaxPayload * f \in Nat /\ MaxPayload * (f + 1) = MaxPayload * f + MaxPayload
           /\ MaxPayload * (f + 1) <= MaxPayload * (g + 1)
<1>1. MaxPayload * f \in Nat /\ MaxPayload * g \in Nat /\ MaxPayload * (g - f) \in Nat
  OBVIOUS
<1>2. /\ MaxPayload * (f + 1) = MaxPayload * f + MaxPayload
      /\ MaxPayload * (g + 1) = MaxPayload * g + MaxPayload
  OBVIOUS
<1>3. MaxPayload * g = MaxPayload * f + MaxPayload * (g - f)
  OBVIOUS
<1>. QED BY <1>1, <1>2, <1>3

\* No packet adds more to the fill level than the bound allows.
LEMMA FillNext ==
    ASSUME ParserOK, Bounds, faults \in Nat, NEW pkt \in PacketsOf, pkt.len <= UsbBufferSize,
           device = "open", MaxPayload * (MaxFaults + 1) < UshortRange,
           process_db_usb_proto(pkt), faults' = faults, device' = device
    PROVE  FillBound' /\ (parser.state = Awaiting => parser.payload_size > 0)'
<1>. DEFINE K == MaxPayload * faults
<1>1. /\ K \in Nat /\ MaxPayload * (faults + 1) = K + MaxPayload /\ K + MaxPayload < UshortRange
  <2>1. faults <= MaxFaults
    BY DEF Bounds
  <2>2. /\ MaxPayload * (faults + 1) \in Nat /\ MaxPayload * (MaxFaults + 1) \in Nat
    OBVIOUS
  <2>. QED BY <2>1, <2>2, FillLevels
<1>. HIDE DEF K
<1>2. /\ parser \in ParserStates /\ parser.buff_size \in Nat /\ parser.payload_size \in Nat
      /\ parser.state \in {Searching, Awaiting} /\ Searching # Awaiting
      /\ pkt.len \in Nat /\ pkt.size \in Nat \ {0} /\ pkt.len - HeaderLength <= MaxPayload
  <2>1. /\ parser \in ParserStates /\ parser.buff_size \in Nat /\ parser.payload_size \in Nat
        /\ parser.state \in {Searching, Awaiting} /\ Searching # Awaiting
    BY DEF ParserOK, ParserStates, Searching, Awaiting
  <2>2. pkt.len \in Nat /\ pkt.size \in Sizes
    BY DEF PacketsOf
  <2>3. pkt.size \in Nat \ {0}
    BY <2>2
  <2>4. pkt.len - HeaderLength <= MaxPayload
    BY <2>2
  <2>. QED BY <2>1, <2>2, <2>3, <2>4
<1>3. /\ parser.state = Searching => parser.buff_size <= K
      /\ parser.state = Awaiting => parser.payload_size > 0 /\ parser.payload_size <= MaxPayload
  BY <1>1, <1>2 DEF Bounds, FillBound, ParserOK, AwaitedFits, K
<1>4. /\ FillBound' <=> parser'.buff_size <= IF parser'.state = Awaiting THEN K + MaxPayload ELSE K
  BY <1>1 DEF FillBound, K
<1>5. CASE parser.state = Searching /\ HasHeader(pkt)
  <2>1. HeaderPacket(pkt) /\ pkt.len >= HeaderLength
    BY <1>2, <1>5 DEF process_db_usb_proto, HasHeader
  <2>. DEFINE rest == pkt.len - HeaderLength
  <2>2. rest \in Nat /\ rest <= MaxPayload
    BY <1>2, <2>1
  <2>3. \/ parser'.state = Searching /\ parser'.buff_size = parser.buff_size
        \/ /\ parser'.state = Awaiting /\ parser'.payload_size = pkt.size
           /\ parser'.buff_size = (parser.buff_size + rest) % UshortRange
    BY <1>2, <1>5, <2>1, HeaderFills
  <2>4. CASE parser'.state = Searching /\ parser'.buff_size = parser.buff_size
    BY <1>2, <1>3, <1>4, <1>5, <2>4
  <2>5. CASE /\ parser'.state = Awaiting /\ parser'.payload_size = pkt.size
             /\ parser'.buff_size = (parser.buff_size + rest) % UshortRange
    <3>. HIDE DEF rest
    <3>1. PICK x \in Nat : x = parser.buff_size + rest
      BY <1>2, <2>2
    <3>2. x <= K + MaxPayload
      BY <1>1, <1>2, <1>3, <1>5, <2>2, <3>1
    <3>3. x % UshortRange = x
      BY <1>1, <3>2
    <3>4. parser'.buff_size <= K + MaxPayload
      BY <2>5, <3>1, <3>2, <3>3
    <3>. QED BY <1>2, <1>4, <2>5, <3>4
  <2>. QED BY <2>3, <2>4, <2>5
<1>6. CASE parser.state = Awaiting
  <2>1. PayloadPacket(pkt)
    BY <1>2, <1>6 DEF process_db_usb_proto
  <2>2. CASE parser.buff_size + pkt.len >= parser.payload_size
    <3>1. Idle'
      BY <1>2, <2>1, <2>2, PayloadFills
    <3>2. parser'.state = Searching /\ parser'.buff_size = 0
      BY <3>1 DEF Idle
    <3>. QED BY <1>1, <1>2, <1>4, <3>2
  <2>3. CASE parser.buff_size + pkt.len < parser.payload_size
    <3>1. /\ parser'.state = Awaiting /\ parser'.payload_size = parser.payload_size
          /\ parser'.buff_size = parser.buff_size + pkt.len
      BY <1>2, <1>6, <2>1, <2>3, PayloadFills
    <3>. QED BY <1>1, <1>2, <1>3, <1>4, <1>6, <2>3, <3>1
  <2>. QED BY <1>2, <2>2, <2>3
<1>7. CASE parser.state = Searching /\ ~HasHeader(pkt)
  <2>1. parser' = parser
    BY <1>2, <1>7 DEF process_db_usb_proto
  <2>. QED BY <1>2, <1>3, <1>4, <1>7, <2>1
<1>. QED BY <1>2, <1>5, <1>6, <1>7

\* What is routed stays routed.
LEMMA RoutedStays ==
    ASSUME ParserOK, NEW pkt \in PacketsOf, process_db_usb_proto(pkt)
    PROVE  \A i \in 1 .. Len(routed) : i \in 1 .. Len(routed') /\ routed'[i] = routed[i]
<1>1. routed' = routed \/ \E e : routed' = Append(routed, e)
  <2>1. HeaderPacket(pkt) => routed' = routed \/ \E e : routed' = Append(routed, e)
    BY Zenon DEF HeaderPacket, Route
  <2>2. PayloadPacket(pkt) => routed' = routed \/ \E e : routed' = Append(routed, e)
    <3>. DEFINE filled == parser.buff_size + pkt.len
    <3>1. parser.buff_size \in Nat /\ parser.payload_size \in Nat /\ pkt.len \in Nat
      BY DEF ParserOK, ParserStates, PacketsOf
    <3>2. \/ filled = parser.payload_size \/ filled < parser.payload_size
          \/ filled > parser.payload_size
      BY <3>1
    <3>. QED BY <3>2, Zenon DEF PayloadPacket, Route
  <2>. QED BY <2>1, <2>2, Zenon DEF process_db_usb_proto
<1>2. \A e : /\ Len(Append(routed, e)) = Len(routed) + 1
             /\ \A i \in 1 .. Len(routed) : Append(routed, e)[i] = routed[i]
  <2>. DEFINE X == [port : Ports, bytes : Seq(MessageBytes)]
  <2>1. routed \in Seq(X)
    BY DEF ParserOK, RoutedOK
  <2>. HIDE DEF X
  <2>2. ASSUME NEW e
        PROVE  /\ Len(Append(routed, e)) = Len(routed) + 1
               /\ \A i \in 1 .. Len(routed) : Append(routed, e)[i] = routed[i]
    <3>1. routed \in Seq(X \cup {e}) /\ e \in X \cup {e}
      BY <2>1
    <3>2. routed \in Seq(X \cup {e}) => /\ Len(Append(routed, e)) = Len(routed) + 1
               /\ \A i \in 1 .. Len(routed) : Append(routed, e)[i] = routed[i]
      <4>. DEFINE Y == X \cup {e}
      <4>1. e \in Y
        OBVIOUS
      <4>. HIDE DEF Y
      <4>2. routed \in Seq(Y) => /\ Len(Append(routed, e)) = Len(routed) + 1
               /\ \A i \in 1 .. Len(routed) : Append(routed, e)[i] = routed[i]
        BY <4>1
      <4>. QED BY <4>2 DEF Y
    <3>. QED BY <3>1, <3>2
  <2>. QED BY <2>2
<1>3. Len(routed) \in Nat
  BY DEF ParserOK, RoutedOK
<1>. QED BY <1>1, <1>2, <1>3

\* The packets move up by one; L is how many there were.
MovedUp(L) ==
    /\ L = Len(usb_in) /\ Len(usb_in') = L - 1 /\ sent' = sent
    /\ \A j \in 1 .. L - 1 : usb_in'[j] = usb_in[j + 1]

\* While the app sends nothing, its messages are cut up as before.
LEMMA SameChunks ==
    ASSUME sent' = sent
    PROVE  \A k, n : /\ Chunk(k, n)' = Chunk(k, n) /\ Chunks(k)' = Chunks(k)
                     /\ Entry(k)' = Entry(k) /\ Accepted(k)' = Accepted(k)
BY Zenon DEF Chunk, Packet, ChunkStart, ChunkEnd, Minimum, TotalLength, Chunks, NumChunks,
             Entry, Accepted, TooBig

\* A packet that moves up stays in its place among the others.
LEMMA InPlaceMovedUp ==
    ASSUME NEW L \in Nat, MovedUp(L), NEW j \in 1 .. L - 1, NEW x \in Int,
           x = usb_in[j + 1].msg, InPlace(j + 1)
    PROVE  InPlace(j)'
<1>1. /\ L = Len(usb_in) /\ Len(usb_in') = L - 1 /\ sent' = sent
      /\ \A k \in 1 .. L - 1 : usb_in'[k] = usb_in[k + 1]
  BY DEF MovedUp
<1>2. PICK n \in 1 .. Chunks(x) :
         /\ usb_in[j + 1] = Chunk(x, n)
         /\ n # Chunks(x) => j + 1 < L /\ usb_in[(j + 1) + 1] = Chunk(x, n + 1)
         /\ n = Chunks(x) =>
               /\ \A k \in (j + 1) + 1 .. L : usb_in[k].msg > x
               /\ IF j + 1 < L THEN usb_in[(j + 1) + 1] = Chunk(x + 1, 1) ELSE x = Len(sent)
  BY <1>1 DEF InPlace
<1>3. /\ j + 1 < L <=> j < L - 1
      /\ j < L - 1 => usb_in'[j + 1] = usb_in[(j + 1) + 1]
  <2>1. j \in Nat /\ j >= 1
    OBVIOUS
  <2>2. j + 1 < L <=> j < L - 1
    BY <2>1
  <2>3. j < L - 1 => j + 1 \in 1 .. L - 1
    BY <2>1
  <2>. QED BY <1>1, <2>2, <2>3
<1>4. n = Chunks(x) => \A k \in j + 1 .. L - 1 : usb_in'[k].msg > x
  <2>. SUFFICES ASSUME n = Chunks(x), NEW k \in j + 1 .. L - 1
                PROVE  usb_in'[k].msg > x
    OBVIOUS
  <2>1. k \in 1 .. L - 1 /\ k + 1 \in (j + 1) + 1 .. L
    OBVIOUS
  <2>. QED BY <1>1, <1>2, <2>1
<1>5. usb_in'[j].msg = x /\ usb_in'[j] = usb_in[j + 1]
  BY <1>1
<1>6. /\ n \in 1 .. Chunks(x)' /\ usb_in'[j] = Chunk(x, n)'
      /\ n # Chunks(x)' => j < L - 1 /\ usb_in'[j + 1] = Chunk(x, n + 1)'
      /\ n = Chunks(x)' =>
           /\ \A k \in j + 1 .. L - 1 : usb_in'[k].msg > x
           /\ IF j < L - 1 THEN usb_in'[j + 1] = Chunk(x + 1, 1)' ELSE x = Len(sent')
  BY <1>1, <1>2, <1>3, <1>4, <1>5, SameChunks
<1>. QED BY <1>1, <1>5, <1>6 DEF InPlace

\* Only the message whose packet was taken can arrive.
LEMMA ArrivedMovedUp ==
    ASSUME NEW L \in Nat \ {0}, MovedUp(L), NEW k, k # usb_in[1].msg
    PROVE  Arrived(k)' = Arrived(k)
<1>1. /\ L = Len(usb_in) /\ Len(usb_in') = L - 1
      /\ \A j \in 1 .. L - 1 : usb_in'[j] = usb_in[j + 1]
  BY DEF MovedUp
<1>2. ASSUME ~Arrived(k) PROVE ~Arrived(k)'
  <2>1. PICK j \in 1 .. L : usb_in[j].msg = k
    BY <1>1, <1>2 DEF Arrived
  <2>2. j # 1
    BY <2>1
  <2>3. j - 1 \in 1 .. L - 1 /\ (j - 1) + 1 = j
    BY <2>1, <2>2
  <2>4. usb_in'[j - 1].msg = k
    BY <1>1, <2>1, <2>3
  <2>. QED BY <1>1, <2>3, <2>4 DEF Arrived
<1>3. ASSUME Arrived(k) PROVE Arrived(k)'
  <2>1. \A j \in 1 .. L - 1 : j + 1 \in 1 .. L
    OBVIOUS
  <2>. QED BY <1>1, <1>3, <2>1 DEF Arrived
<1>4. Arrived(k) \in BOOLEAN /\ Arrived(k)' \in BOOLEAN
  BY DEF Arrived
<1>. QED BY <1>2, <1>3, <1>4

\* The messages behind the last fault keep waiting in order.
LEMMA QueueMovedUp ==
    ASSUME AppOK, NEW L \in Nat \ {0}, MovedUp(L), QueueSince, safe' = safe,
           NEW j \in 1 .. L - 1
    PROVE  usb_in'[j].msg \in 1 .. Len(sent') /\ InPlaceSince(j)'
<1>1. /\ L = Len(usb_in) /\ Len(usb_in') = L - 1 /\ sent' = sent
      /\ \A k \in 1 .. L - 1 : usb_in'[k] = usb_in[k + 1]
  BY DEF MovedUp
<1>2. j + 1 \in 1 .. L /\ usb_in'[j] = usb_in[j + 1]
  BY <1>1
<1>3. PICK x \in 1 .. Len(sent) : x = usb_in[j + 1].msg
  BY <1>1, <1>2 DEF QueueSince
<1>4. InPlaceSince(j + 1) /\ x \in Int
  BY <1>1, <1>2 DEF QueueSince, AppOK
<1>5. x > safe => InPlace(j)'
  BY <1>3, <1>4, InPlaceMovedUp DEF InPlaceSince
<1>6. usb_in'[j].msg = x
  BY <1>2, <1>3
<1>7. ASSUME x <= safe
      PROVE  IF j < L - 1 THEN usb_in'[j + 1].msg <= safe \/ usb_in'[j + 1] = Chunk(safe + 1, 1)'
                          ELSE safe = Len(sent)
  <2>1. IF j + 1 < L THEN usb_in[(j + 1) + 1].msg <= safe \/ usb_in[(j + 1) + 1] = Chunk(safe + 1, 1)
                     ELSE safe = Len(sent)
    BY <1>1, <1>3, <1>4, <1>7 DEF InPlaceSince
  <2>2. /\ j + 1 < L <=> j < L - 1
        /\ j < L - 1 => usb_in'[j + 1] = usb_in[(j + 1) + 1]
    BY <1>1
  <2>. QED BY <1>1, <2>1, <2>2, SameChunks
<1>8. InPlaceSince(j)'
  BY <1>1, <1>5, <1>6, <1>7 DEF InPlaceSince
<1>. QED BY <1>1, <1>3, <1>6, <1>8

\* Only the message whose packet was taken can be lost, and it is not if it
\* was routed.
LEMMA LostMovedUp ==
    ASSUME ParserOK, sent' = sent, whole' = whole, safe' = safe, NEW m, m \in 1 .. Len(sent),
           AppOK, \A k : k # m => Arrived(k)' = Arrived(k),
           \A i \in 1 .. Len(routed) : i \in 1 .. Len(routed') /\ routed'[i] = routed[i]
    PROVE  /\ Lost' \subseteq Lost \cup {m}
           /\ ~Arrived(m)' \/ ~Accepted(m) \/ routed' = Append(routed, Entry(m)) => Lost' \subseteq Lost
<1>1. \A k : Entry(k)' = Entry(k) /\ Accepted(k)' = Accepted(k)
  BY SameChunks
<1>2. ASSUME NEW k \in Lost', k # m PROVE k \in Lost
  <2>1. /\ k \in whole /\ k > safe /\ Accepted(k) /\ Arrived(k)
        /\ \A i \in 1 .. Len(routed') : routed'[i] # Entry(k)
    BY <1>1, <1>2 DEF Lost
  <2>2. \A i \in 1 .. Len(routed) : routed[i] # Entry(k)
    BY <2>1
  <2>. QED BY <2>1, <2>2 DEF Lost
<1>3. ~Arrived(m)' \/ ~Accepted(m) => m \notin Lost'
  BY <1>1 DEF Lost
<1>4. ASSUME routed' = Append(routed, Entry(m)), Accepted(m) PROVE m \notin Lost'
  <2>. DEFINE X == [port : Ports, bytes : Seq(MessageBytes)]
  <2>1. routed \in Seq(X) /\ Entry(m) \in X
    BY <1>4, EntryType DEF ParserOK, RoutedOK
  <2>. HIDE DEF X
  <2>2. Len(routed') = Len(routed) + 1 /\ Len(routed) \in Nat /\ routed'[Len(routed) + 1] = Entry(m)
    BY <1>4, <2>1
  <2>3. Len(routed) + 1 \in 1 .. Len(routed')
    BY <2>2
  <2>. QED BY <1>1, <2>2, <2>3 DEF Lost
<1>. QED BY <1>2, <1>3, <1>4

\* A packet is taken from the queue.
LEMMA ReceivesSince ==
    ASSUME MaxPayload * (MaxFaults + 1) < UshortRange,
           UsbInv, UsbInv', FindsBackInv, ReceivePacket
    PROVE  FindsBackInv'
<1>1. /\ AppOK /\ ParserOK /\ ParserOK' /\ usb_in \in Seq(PacketsOf) /\ Len(sent) \in Nat
      /\ safe \in Nat /\ faults \in Nat /\ PacketsFit
  BY DEF UsbInv, AppOK
<1>2. Bounds /\ QueueSince /\ IsFiniteSet(LostBytes) /\ PhaseInv
  BY DEF FindsBackInv
<1>3. /\ usb_in # <<>> /\ process_db_usb_proto(Head(usb_in)) /\ usb_in' = Tail(usb_in)
      /\ sent' = sent /\ faults' = faults /\ whole' = whole /\ safe' = safe /\ device' = device
  BY DEF ReceivePacket, linkVars
<1>4. PICK L \in Nat \ {0} : L = Len(usb_in)
  BY <1>1, <1>3
<1>5. Head(usb_in) = usb_in[1] /\ MovedUp(L) /\ Len(usb_in') = L - 1
  BY <1>1, <1>3, <1>4 DEF MovedUp
<1>6. PICK m \in 1 .. Len(sent) : m = usb_in[1].msg
  BY <1>4 , <1>2 DEF QueueSince
<1>7. m \in Nat /\ InPlaceSince(1) /\ usb_in[1] \in PacketsOf /\ usb_in[1].len <= UsbBufferSize
  BY <1>1, <1>2, <1>4 DEF QueueSince, PacketsFit
<1>8. ASSUME NEW k \in m .. Len(sent), k > safe PROVE ~Arrived(k)
  BY <1>2, <1>4, <1>6, <1>8 DEF QueueSince
<1>9. \A k : k # m => Arrived(k)' = Arrived(k)
  BY <1>5, <1>6, ArrivedMovedUp
<1>10. Bounds'
  <2>1. device = "open"
    BY <1>2, <1>4 DEF Bounds
  <2>2. FillBound' /\ (parser.state = Awaiting => parser.payload_size > 0)'
    BY <1>1, <1>2, <1>3, <1>5, <1>7, <2>1, FillNext
  <2>. QED BY <1>2, <1>3, <2>1, <2>2 DEF Bounds
<1>11. \A i \in 1 .. Len(routed) : i \in 1 .. Len(routed') /\ routed'[i] = routed[i]
  BY <1>1, <1>3, <1>5, <1>7, RoutedStays
<1>12. /\ Lost' \subseteq Lost \cup {m}
       /\ ~Arrived(m)' \/ ~Accepted(m) \/ routed' = Append(routed, Entry(m)) => Lost' \subseteq Lost
  BY <1>1, <1>3, <1>9, <1>11, LostMovedUp
<1>13. \A k \in Lost : k \in Nat /\ k < m /\ k > safe
  <2>1. ASSUME NEW k \in Lost PROVE k \in Nat /\ k < m /\ k > safe
    <3>1. k \in 1 .. Len(sent) /\ k > safe /\ Arrived(k)
      BY <1>2 DEF Lost, Bounds
    <3>2. k \notin m .. Len(sent)
      BY <1>8, <3>1
    <3>. QED BY <1>1, <1>7, <3>1, <3>2
  <2>. QED BY <2>1
<1>14. \A j \in 1 .. L - 1 : usb_in'[j].msg \in 1 .. Len(sent') /\ InPlaceSince(j)'
  BY <1>1, <1>2, <1>3, <1>5, QueueMovedUp
<1>15. L - 1 > 0 => 1 \in 1 .. L - 1 /\ 1 < L /\ usb_in'[1] = usb_in[2]
  BY <1>5 DEF MovedUp
<1>16. L - 1 > 0 => usb_in'[1].msg \in 1 .. Len(sent) /\ usb_in'[1].msg \in Nat
  <2>1. ASSUME L - 1 > 0 PROVE usb_in'[1].msg \in 1 .. Len(sent)
    <3>1. 1 \in 1 .. L - 1
      BY <2>1
    <3>. QED BY <1>3, <1>14, <3>1
  <2>. QED BY <1>1, <2>1
<1>17. CASE m <= safe
  <2>1. IF 1 < L THEN usb_in[2].msg <= safe \/ usb_in[2] = Chunk(safe + 1, 1)
                 ELSE safe = Len(sent)
    BY <1>4, <1>6, <1>7, <1>17 DEF InPlaceSince
  <2>2. ASSUME NEW k \in 1 .. Len(sent), k > safe PROVE ~Arrived(k)'
    <3>1. k \in m .. Len(sent) /\ k # m
      BY <1>1, <1>7, <1>17, <2>2
    <3>. QED BY <1>8, <1>9, <2>2, <3>1
  <2>3. Lost' = {}
    <3>1. whole' \subseteq 1 .. Len(sent)
      BY <1>3, <1>10 DEF Bounds
    <3>. QED BY <1>3, <2>2, <3>1 DEF Lost
  <2>4. \A k : Phase(k, 1)' /\ IsFiniteSet(LostBytes)'
    <3>1. (parser.state = Awaiting => parser.payload_size > 0)'
      BY <1>10 DEF Bounds
    <3>2. ASSUME NEW k PROVE (Phase(k, 1) /\ IsFiniteSet(LostBytes))'
      BY <1>1, <2>3, <3>1, FreshNext
    <3>. QED BY <3>2
  <2>5. QueueSince'
    <3>1. ASSUME L - 1 > 0, NEW k \in usb_in'[1].msg .. Len(sent'), k > safe'
          PROVE  ~Arrived(k)'
      <4>1. usb_in'[1].msg \in 1 .. Len(sent)
        BY <1>3, <1>14, <1>15, <3>1
      <4>2. k \in 1 .. Len(sent)
        BY <1>1, <1>3, <3>1, <4>1
      <4>. QED BY <1>3, <2>2, <3>1, <4>2
    <3>. QED BY <1>5, <1>14, <3>1 DEF QueueSince
  <2>6. PhaseInv'
    <3>1. CASE L = 1
      BY <1>5, <2>4, <3>1 DEF PhaseInv
    <3>2. CASE L # 1
      <4>1. 1 < L /\ usb_in'[1] = usb_in[2] /\ L - 1 # 0
        BY <1>15, <3>2
      <4>2. CASE usb_in[2].msg <= safe
        <5>1. ~(usb_in'[1].msg > safe')
          <6>1. PICK x \in Nat : x = usb_in'[1].msg
            BY <1>16, <4>1
          <6>2. x <= safe /\ safe \in Nat /\ safe' = safe
            BY <1>1, <1>3, <4>1, <4>2, <6>1
          <6>3. ~(x > safe')
            BY <6>2
          <6>. QED BY <6>1, <6>3
        <5>. QED BY <1>5, <4>1, <5>1 DEF PhaseInv
      <4>3. CASE ~(usb_in[2].msg <= safe)
        <5>1. PICK x : x = safe + 1
          OBVIOUS
        <5>2. usb_in'[1] = Chunk(x, 1)
          BY <2>1, <4>1, <4>3, <5>1
        <5>3. usb_in'[1].msg = x
          BY <5>2 DEF Chunk, Packet
        <5>4. x \in 1 .. Len(sent)
          BY <1>16, <4>1, <5>3
        <5>5. 1 \in 1 .. Chunks(x)
          BY <1>1, <5>4, ChunkFacts
        <5>6. 1 \in 1 .. Chunks(x)' /\ usb_in'[1] = Chunk(x, 1)' /\ Phase(x, 1)'
          BY <1>3, <2>4, <5>2, <5>5, SameChunks
        <5>. QED BY <1>5, <4>1, <5>3, <5>6 DEF PhaseInv
      <4>. QED BY <4>2, <4>3
    <3>. QED BY <3>1, <3>2
  <2>. QED BY <1>10, <2>4, <2>5, <2>6 DEF FindsBackInv
<1>18. CASE ~(m <= safe)
  <2>1. m > safe
    BY <1>1, <1>7, <1>18
  <2>2. PICK i \in 1 .. Chunks(m) :
           /\ usb_in[1] = Chunk(m, i)
           /\ i # Chunks(m) => 1 < L /\ usb_in[2] = Chunk(m, i + 1)
           /\ i = Chunks(m) =>
                 /\ \A k \in 2 .. L : usb_in[k].msg > m
                 /\ IF 1 < L THEN usb_in[2] = Chunk(m + 1, 1) ELSE m = Len(sent)
    <3>1. InPlace(1)
      BY <1>6, <1>7, <2>1 DEF InPlaceSince
    <3>. QED BY <1>4, <1>6, <3>1 DEF InPlace
  <2>3. Phase(m, i)
    <3>1. PICK k \in 1 .. Chunks(m) : usb_in[1] = Chunk(m, k) /\ Phase(m, k)
      BY <1>2, <1>4, <1>6, <2>1 DEF PhaseInv
    <3>2. i \in Nat \ {0} /\ k \in Nat \ {0}
      BY <1>1, ChunkFacts
    <3>3. i = k
      BY <2>2, <3>1, <3>2, ChunksDiffer
    <3>. QED BY <3>1, <3>3
  <2>4. i # Chunks(m) => ~Arrived(m)' /\ 1 < L /\ usb_in'[1].msg = m /\ usb_in'[1] = Chunk(m, i + 1)
    <3>. SUFFICES ASSUME i # Chunks(m)
                  PROVE  ~Arrived(m)' /\ 1 < L /\ usb_in'[1].msg = m /\ usb_in'[1] = Chunk(m, i + 1)
      OBVIOUS
    <3>1. 1 \in 1 .. L - 1 /\ 1 < L /\ usb_in'[1] = Chunk(m, i + 1)
      BY <1>15, <2>2
    <3>2. usb_in'[1].msg = m
      BY <3>1 DEF Chunk, Packet
    <3>. QED BY <1>5, <3>1, <3>2 DEF Arrived
  <2>5. LostStep(m, i)
    BY <1>12, <1>13, <2>4 DEF LostStep
  <2>6. /\ IsFiniteSet(LostBytes)'
        /\ i # Chunks(m) => Phase(m, i + 1)'
        /\ i = Chunks(m) => \A k : Phase(k, 1)'
    <3>1. Chunk(m, i).len <= UsbBufferSize /\ process_db_usb_proto(Chunk(m, i))
      BY <1>3, <1>5, <1>7, <2>2
    <3>2. MaxPacket < UshortRange
      <4>1. MaxPayload * (0 + 1) <= MaxPayload * (MaxFaults + 1)
        BY FillLevels
      <4>2. MaxPayload * (0 + 1) = MaxPayload /\ MaxPayload * (MaxFaults + 1) \in Nat
        OBVIOUS
      <4>. QED BY <4>1, <4>2
    <3>3. parser.state = Searching => parser.buff_size + MaxPayload < UshortRange
      <4>. SUFFICES ASSUME parser.state = Searching
                    PROVE  parser.buff_size + MaxPayload < UshortRange
        OBVIOUS
      <4>1. parser.buff_size <= MaxPayload * faults /\ faults <= MaxFaults
        BY <1>2 DEF Bounds, FillBound, Searching, Awaiting
      <4>2. parser.buff_size \in Nat
        BY <1>1 DEF ParserOK, ParserStates
      <4>3. /\ MaxPayload * faults \in Nat /\ MaxPayload * (faults + 1) = MaxPayload * faults + MaxPayload
            /\ MaxPayload * (faults + 1) <= MaxPayload * (MaxFaults + 1)
        BY <1>1, <4>1, FillLevels
      <4>4. MaxPayload * (MaxFaults + 1) \in Nat
        OBVIOUS
      <4>. QED BY <4>1, <4>2, <4>3, <4>4
    <3>. QED BY <1>1, <1>2, <1>3, <2>3, <2>5, <3>1, <3>2, <3>3, PhaseNext
  <2>7. i = Chunks(m) /\ 1 < L => /\ usb_in'[1] = Chunk(m + 1, 1) /\ usb_in'[1].msg = m + 1
                                  /\ m + 1 \in 1 .. Len(sent)
    <3>. SUFFICES ASSUME i = Chunks(m), 1 < L
                  PROVE  /\ usb_in'[1] = Chunk(m + 1, 1) /\ usb_in'[1].msg = m + 1
                         /\ m + 1 \in 1 .. Len(sent)
      OBVIOUS
    <3>1. 1 \in 1 .. L - 1 /\ usb_in'[1] = Chunk(m + 1, 1)
      BY <1>15, <2>2
    <3>2. usb_in'[1].msg = m + 1
      BY <3>1 DEF Chunk, Packet
    <3>. QED BY <1>3, <1>14, <3>1, <3>2
  <2>8. QueueSince'
    <3>1. ASSUME L - 1 > 0, NEW k \in usb_in'[1].msg .. Len(sent'), k > safe'
          PROVE  ~Arrived(k)'
      <4>1. CASE i # Chunks(m)
        <5>1. k \in m .. Len(sent)
          BY <1>3, <2>4, <3>1, <4>1
        <5>2. CASE k = m
          BY <2>4, <4>1, <5>2
        <5>3. CASE k # m
          BY <1>3, <1>8, <1>9, <3>1, <5>1, <5>3
        <5>. QED BY <5>2, <5>3
      <4>2. CASE i = Chunks(m)
        <5>1. k \in m + 1 .. Len(sent)
          BY <1>3, <1>15, <2>7, <3>1, <4>2
        <5>2. k \in m .. Len(sent) /\ k # m
          BY <1>1, <1>7, <5>1
        <5>. QED BY <1>3, <1>8, <1>9, <3>1, <5>2
      <4>. QED BY <4>1, <4>2
    <3>. QED BY <1>5, <1>14, <3>1 DEF QueueSince
  <2>9. PhaseInv'
    <3>1. CASE i # Chunks(m)
      <4>1. i + 1 \in 1 .. Chunks(m) /\ L - 1 # 0
        BY <1>1, <2>4, <3>1, ChunkCut
      <4>2. /\ i + 1 \in 1 .. Chunks(m)' /\ usb_in'[1] = Chunk(m, i + 1)' /\ usb_in'[1].msg = m
            /\ Phase(m, i + 1)'
        BY <1>3, <2>4, <2>6, <3>1, <4>1, SameChunks
      <4>. QED BY <1>5, <4>1, <4>2 DEF PhaseInv
    <3>2. CASE i = Chunks(m) /\ 1 < L
      <4>1. PICK x : x = m + 1
        OBVIOUS
      <4>2. usb_in'[1] = Chunk(x, 1) /\ usb_in'[1].msg = x /\ x \in 1 .. Len(sent)
        BY <2>7, <3>2, <4>1
      <4>3. 1 \in 1 .. Chunks(x) /\ L - 1 # 0
        BY <1>1, <3>2, <4>2, ChunkFacts
      <4>4. 1 \in 1 .. Chunks(x)' /\ usb_in'[1] = Chunk(x, 1)' /\ Phase(x, 1)'
        BY <1>3, <2>6, <3>2, <4>2, <4>3, SameChunks
      <4>. QED BY <1>5, <4>2, <4>3, <4>4 DEF PhaseInv
    <3>3. CASE i = Chunks(m) /\ ~(1 < L)
      <4>1. Len(usb_in') = 0
        BY <1>5, <3>3
      <4>. QED BY <2>6, <3>3, <4>1 DEF PhaseInv
    <3>. QED BY <3>1, <3>2, <3>3
  <2>. QED BY <1>10, <2>6, <2>8, <2>9 DEF FindsBackInv
<1>. QED BY <1>17, <1>18

\* The app writes the first n packets of message m; L were waiting.
Grown(m, L, port, size, n) ==
    /\ L = Len(usb_in) /\ Len(usb_in') = L + n
    /\ \A j \in 1 .. L : usb_in'[j] = usb_in[j]
    /\ \A i \in 1 .. n : usb_in'[L + i] = Packet(m, port, size, i)
    /\ m = Len(sent) + 1 /\ Len(sent') = m /\ sent'[m] = [port |-> port, size |-> size]
    /\ \A k \in 1 .. Len(sent) : sent'[k] = sent[k]

\* A message that is sent adds its packets behind those that wait.
LEMMA SendsGrow ==
    ASSUME AppOK, NEW m \in Nat, m = Len(sent) + 1, NEW L \in Nat, L = Len(usb_in),
           NEW port \in AppPorts, NEW size \in Sizes, NEW n \in 1 .. MaxPayload,
           AppSends(port, size, n)
    PROVE  Grown(m, L, port, size, n)
<1>. DEFINE new == [i \in 1 .. n |-> Packet(m, port, size, i)]
            msgs == [port : AppPorts, size : Sizes]
<1>1. sent \in Seq(msgs) /\ usb_in \in Seq(PacketsOf) /\ n \in Nat /\ n \in 1 .. NumChunks(size)
  BY DEF AppOK, AppSends
<1>2. usb_in' = usb_in \o new /\ sent' = Append(sent, [port |-> port, size |-> size])
  BY DEF AppSends
<1>3. /\ Len(sent') = m
      /\ sent'[m] = [port |-> port, size |-> size]
      /\ \A k \in 1 .. Len(sent) : sent'[k] = sent[k]
  <2>1. [port |-> port, size |-> size] \in msgs
    OBVIOUS
  <2>. HIDE DEF msgs
  <2>. QED BY <1>1, <1>2, <2>1
<1>4. \A i \in 1 .. n : new[i] = Packet(m, port, size, i) /\ new[i] \in PacketsOf
  <2>1. NumChunks(size) \in Nat
    BY CutWithoutGaps
  <2>2. \A i \in 1 .. n : i \in 1 .. NumChunks(size)
    BY <1>1, <2>1
  <2>. QED BY <2>2, PacketFits
<1>5. new \in Seq(PacketsOf) /\ Len(new) = n
  BY <1>1, <1>4
<1>. HIDE DEF new
<1>6. /\ Len(usb_in') = Len(usb_in) + n
      /\ \A j \in 1 .. Len(usb_in) + n :
            usb_in'[j] = IF j <= Len(usb_in) THEN usb_in[j] ELSE new[j - Len(usb_in)]
  BY <1>1, <1>2, <1>5, ConcatAt
<1>7. \A j \in 1 .. L : j \in 1 .. L + n /\ j <= L
  BY <1>1
<1>8. \A i \in 1 .. n : L + i \in 1 .. L + n /\ ~(L + i <= L) /\ (L + i) - L = i
  BY <1>1
<1>9. \A j \in 1 .. L : usb_in'[j] = usb_in[j]
  BY <1>6, <1>7
<1>10. \A i \in 1 .. n : usb_in'[L + i] = Packet(m, port, size, i)
  BY <1>4, <1>6, <1>8
<1>. QED BY <1>3, <1>6, <1>9, <1>10 DEF Grown

\* The messages sent before are cut up as before.
LEMMA GrownChunks ==
    ASSUME NEW m, NEW L, NEW port, NEW size, NEW n, Grown(m, L, port, size, n)
    PROVE  /\ \A k \in 1 .. Len(sent) : /\ Chunks(k)' = Chunks(k) /\ Entry(k)' = Entry(k)
                                        /\ Accepted(k)' = Accepted(k)
                                        /\ \A i : Chunk(k, i)' = Chunk(k, i)
           /\ Chunks(m)' = NumChunks(size) /\ \A i : Chunk(m, i)' = Packet(m, port, size, i)
<1>1. /\ sent'[m] = [port |-> port, size |-> size]
      /\ \A k \in 1 .. Len(sent) : sent'[k] = sent[k]
  BY DEF Grown
<1>2. ASSUME NEW k \in 1 .. Len(sent)
      PROVE  Chunks(k)' = Chunks(k) /\ Entry(k)' = Entry(k) /\ Accepted(k)' = Accepted(k)
  <2>1. sent'[k] = sent[k]
    BY <1>1
  <2>. QED BY <2>1, Zenon DEF Chunks, NumChunks, TotalLength, Entry, Accepted, TooBig
<1>3. ASSUME NEW k \in 1 .. Len(sent), NEW i
      PROVE  Chunk(k, i)' = Chunk(k, i)
  <2>1. sent'[k] = sent[k]
    BY <1>1
  <2>. QED BY <2>1, Zenon DEF Chunk, Packet, ChunkStart, ChunkEnd, Minimum, TotalLength
<1>4. sent'[m].port = port /\ sent'[m].size = size
  BY <1>1
<1>5. Chunks(m)' = NumChunks(size)
  BY <1>4, Zenon DEF Chunks, NumChunks, TotalLength
<1>6. ASSUME NEW i PROVE Chunk(m, i)' = Packet(m, port, size, i)
  BY <1>4, Zenon DEF Chunk, Packet, ChunkStart, ChunkEnd, Minimum, TotalLength
<1>. QED BY <1>2, <1>3, <1>5, <1>6

\* A packet of the queue is an old one or belongs to message m.
LEMMA GrownFirst ==
    ASSUME NEW m, NEW L \in Nat, NEW port, NEW size, NEW n \in Nat \ {0},
           Grown(m, L, port, size, n)
    PROVE  /\ L + 1 \in 1 .. L + n /\ usb_in'[L + 1] = Packet(m, port, size, 1)
           /\ usb_in'[L + 1].msg = m /\ 1 \in 1 .. n
<1>1. L + 1 \in 1 .. L + n /\ 1 \in 1 .. n
  OBVIOUS
<1>2. usb_in'[L + 1] = Packet(m, port, size, 1)
  BY <1>1 DEF Grown
<1>. QED BY <1>1, <1>2 DEF Packet

\* Behind the packets that waited are those of the new message.
LEMMA GrownAt ==
    ASSUME NEW m, NEW L \in Nat, NEW port, NEW size, NEW n \in Nat \ {0},
           Grown(m, L, port, size, n), NEW j \in 1 .. L + n, j \notin 1 .. L
    PROVE  usb_in'[j].msg = m /\ \E i \in 1 .. n : j = L + i
<1>1. PICK i \in 1 .. n : j = L + i
  <2>1. j - L \in 1 .. n /\ j = L + (j - L)
    OBVIOUS
  <2>. QED BY <2>1
<1>2. usb_in'[j] = Packet(m, port, size, i)
  BY <1>1 DEF Grown
<1>3. usb_in'[j].msg = m
  BY <1>2 DEF Packet
<1>. QED BY <1>1, <1>3

\* The other messages are on their way as before, message m is.
LEMMA GrownArrived ==
    ASSUME AppOK, NEW m \in Nat, NEW L \in Nat, NEW port, NEW size, NEW n \in Nat \ {0},
           Grown(m, L, port, size, n)
    PROVE  ~Arrived(m)' /\ \A k \in 1 .. Len(sent) : Arrived(k)' = Arrived(k)
<1>1. /\ L + 1 \in 1 .. L + n /\ usb_in'[L + 1] = Packet(m, port, size, 1)
      /\ usb_in'[L + 1].msg = m /\ 1 \in 1 .. n
  BY GrownFirst
<1>2. /\ L = Len(usb_in) /\ Len(usb_in') = L + n /\ m = Len(sent) + 1 /\ Len(sent) \in Nat
      /\ \A j \in 1 .. L : usb_in'[j] = usb_in[j]
  BY DEF Grown, AppOK
<1>3. ~Arrived(m)'
  BY <1>1, <1>2 DEF Arrived
<1>4. ASSUME NEW k \in 1 .. Len(sent) PROVE Arrived(k)' = Arrived(k)
  <2>1. k # m
    BY <1>2
  <2>2. ASSUME Arrived(k) PROVE Arrived(k)'
    <3>1. ASSUME NEW j \in 1 .. L + n PROVE usb_in'[j].msg # k
      <4>1. CASE j \in 1 .. L
        BY <1>2, <2>2, <4>1 DEF Arrived
      <4>2. CASE j \notin 1 .. L
        <5>1. usb_in'[j].msg = m
          BY <4>2, GrownAt
        <5>. QED BY <2>1, <5>1
      <4>. QED BY <4>1, <4>2
    <3>. QED BY <1>2, <3>1 DEF Arrived
  <2>3. ASSUME ~Arrived(k) PROVE ~Arrived(k)'
    <3>1. PICK j \in 1 .. L : usb_in[j].msg = k
      BY <1>2, <2>3 DEF Arrived
    <3>2. j \in 1 .. L + n /\ usb_in'[j].msg = k
      BY <1>2, <3>1
    <3>. QED BY <1>2, <3>2 DEF Arrived
  <2>4. Arrived(k) \in BOOLEAN /\ Arrived(k)' \in BOOLEAN
    BY DEF Arrived
  <2>. QED BY <2>2, <2>3, <2>4
<1>. QED BY <1>3, <1>4

\* A packet stays in place when a message is written behind it, whole.
LEMMA InPlaceGrown ==
    ASSUME AppOK, NEW m \in Nat, NEW L \in Nat, NEW port, NEW size, NEW n \in Nat \ {0},
           Grown(m, L, port, size, n), NEW j \in 1 .. L, InPlace(j),
           \A k \in 1 .. L : usb_in[k].msg \in 1 .. Len(sent)
    PROVE  InPlace(j)'
<1>1. /\ L + 1 \in 1 .. L + n /\ usb_in'[L + 1] = Packet(m, port, size, 1)
      /\ usb_in'[L + 1].msg = m /\ 1 \in 1 .. n
  BY GrownFirst
<1>2. /\ L = Len(usb_in) /\ Len(usb_in') = L + n /\ m = Len(sent) + 1 /\ Len(sent) \in Nat
      /\ \A k \in 1 .. L : usb_in'[k] = usb_in[k]
  BY DEF Grown, AppOK
<1>3. PICK x \in 1 .. Len(sent) : x = usb_in[j].msg
  OBVIOUS
<1>4. PICK i \in 1 .. Chunks(x) :
         /\ usb_in[j] = Chunk(x, i)
         /\ i # Chunks(x) => j < L /\ usb_in[j + 1] = Chunk(x, i + 1)
         /\ i = Chunks(x) =>
               /\ \A k \in j + 1 .. L : usb_in[k].msg > x
               /\ IF j < L THEN usb_in[j + 1] = Chunk(x + 1, 1) ELSE x = Len(sent)
  BY <1>2, <1>3 DEF InPlace
<1>5. Chunks(x)' = Chunks(x) /\ \A y : Chunk(x, y)' = Chunk(x, y)
  BY GrownChunks
<1>6. i # Chunks(x) => j < L + n /\ usb_in'[j + 1] = Chunk(x, i + 1)'
  BY <1>2, <1>4, <1>5
<1>7. i = Chunks(x) => \A k \in j + 1 .. L + n : usb_in'[k].msg > x
  <2>. SUFFICES ASSUME i = Chunks(x), NEW k \in j + 1 .. L + n
                PROVE  usb_in'[k].msg > x
    OBVIOUS
  <2>1. CASE k \in 1 .. L
    <3>1. k \in j + 1 .. L
      BY <2>1
    <3>. QED BY <1>2, <1>4, <2>1, <3>1
  <2>2. CASE k \notin 1 .. L
    <3>1. k \in 1 .. L + n
      OBVIOUS
    <3>2. usb_in'[k].msg = m
      BY <2>2, <3>1, GrownAt
    <3>. QED BY <1>2, <1>3, <3>2
  <2>. QED BY <2>1, <2>2
<1>8. i = Chunks(x) => j < L + n /\ usb_in'[j + 1] = Chunk(x + 1, 1)'
  <2>. SUFFICES ASSUME i = Chunks(x)
                PROVE  j < L + n /\ usb_in'[j + 1] = Chunk(x + 1, 1)'
    OBVIOUS
  <2>1. CASE j < L
    <3>1. j + 1 \in 1 .. L /\ usb_in[j + 1] = Chunk(x + 1, 1) /\ j < L + n
      BY <1>4, <2>1
    <3>2. usb_in[j + 1].msg = x + 1
      BY <3>1 DEF Chunk, Packet
    <3>3. x + 1 \in 1 .. Len(sent)
      BY <3>1, <3>2
    <3>4. Chunk(x + 1, 1)' = Chunk(x + 1, 1)
      BY <3>3, GrownChunks
    <3>. QED BY <1>2, <3>1, <3>4
  <2>2. CASE ~(j < L)
    <3>1. j = L /\ x + 1 = m /\ j < L + n
      BY <1>2, <1>4, <2>2
    <3>2. usb_in'[L + 1] = Packet(m, port, size, 1) /\ Chunk(m, 1)' = Packet(m, port, size, 1)
      BY <1>1, GrownChunks
    <3>. QED BY <3>1, <3>2
  <2>. QED BY <2>1, <2>2
<1>9. usb_in'[j].msg = x /\ usb_in'[j] = Chunk(x, i)' /\ i \in 1 .. Chunks(x)'
  BY <1>2, <1>3, <1>4, <1>5
<1>. QED BY <1>2, <1>5, <1>6, <1>7, <1>8, <1>9 DEF InPlace

\* So are the packets of the new message.
LEMMA InPlaceNew ==
    ASSUME AppOK, NEW m \in Nat, NEW L \in Nat, NEW port, NEW size, NEW n \in Nat \ {0},
           Grown(m, L, port, size, n), n = NumChunks(size), NEW j \in 1 .. L + n, j \notin 1 .. L
    PROVE  InPlace(j)' /\ usb_in'[j].msg = m
<1>1. /\ L + 1 \in 1 .. L + n /\ usb_in'[L + 1] = Packet(m, port, size, 1)
      /\ usb_in'[L + 1].msg = m /\ 1 \in 1 .. n
  BY GrownFirst
<1>2. /\ L = Len(usb_in) /\ Len(usb_in') = L + n /\ Len(sent') = m
      /\ \A i \in 1 .. n : usb_in'[L + i] = Packet(m, port, size, i)
  BY DEF Grown
<1>3. PICK i \in 1 .. n : j = L + i
  BY GrownAt
<1>4. usb_in'[j] = Packet(m, port, size, i) /\ usb_in'[j].msg = m
  BY <1>2, <1>3, GrownAt
<1>5. Chunks(m)' = n /\ \A k : Chunk(m, k)' = Packet(m, port, size, k)
  BY GrownChunks
<1>6. i \in 1 .. Chunks(m)' /\ usb_in'[j] = Chunk(m, i)'
  BY <1>4, <1>5
<1>7. i # n => j < L + n /\ usb_in'[j + 1] = Chunk(m, i + 1)'
  <2>. SUFFICES ASSUME i # n
                PROVE  j < L + n /\ usb_in'[j + 1] = Chunk(m, i + 1)'
    OBVIOUS
  <2>1. i + 1 \in 1 .. n /\ j + 1 = L + (i + 1) /\ j < L + n
    BY <1>3
  <2>2. usb_in'[j + 1] = Packet(m, port, size, i + 1)
    BY <1>2, <2>1
  <2>. QED BY <1>5, <2>1, <2>2
<1>8. i = n => j = L + n /\ j + 1 .. L + n = {} /\ ~(j < L + n)
  BY <1>3
<1>. QED BY <1>2, <1>4, <1>5, <1>6, <1>7, <1>8 DEF InPlace

\* What the parser does goes on while messages are added behind.
LEMMA PhaseKept ==
    ASSUME parser' = parser, Lost' = Lost, Lost \subseteq 1 .. Len(sent),
           \A k \in 1 .. Len(sent) : sent'[k] = sent[k],
           NEW x, NEW i, x \in 1 .. Len(sent) \/ i = 1, Phase(x, i)
    PROVE  Phase(x, i)' /\ LostBytes' = LostBytes
<1>1. PICK S : S = Lost
  OBVIOUS
<1>2. S = Lost' /\ S \subseteq 1 .. Len(sent)
  BY <1>1
<1>3. ASSUME NEW T \in SUBSET (1 .. Len(sent))
      PROVE  BytesOf(T)' = BytesOf(T)
  <2>1. \A k \in T : sent'[k].size = sent[k].size
    BY <1>3
  <2>2. \A k \in T : TotalLength(sent'[k].size) = TotalLength(sent[k].size)
    BY <2>1, Zenon
  <2>. QED BY <2>2, Zenon DEF BytesOf, TotalLength
<1>4. LostBytes' = LostBytes
  <2>1. LostBytes' = BytesOf(S)'
    BY <1>2, Zenon DEF LostBytes, BytesOf
  <2>2. BytesOf(S)' = BytesOf(S)
    BY <1>2, <1>3
  <2>. QED BY <1>1, <2>1, <2>2 DEF LostBytes
<1>5. ChunkStart(i)' = ChunkStart(i)
  BY DEF ChunkStart
<1>6. CASE Swallows(i)
  BY <1>4, <1>5, <1>6 DEF Phase, Swallows
<1>7. CASE InStep(x, i)
  <2>1. Expects(x, i)'
    <3>1. CASE i = 1
      BY <1>7, <3>1 DEF InStep, Expects, Idle
    <3>2. CASE i # 1
      <4>1. sent'[x] = sent[x]
        BY <3>2
      <4>. QED BY <1>5, <1>7, <3>2, <4>1 DEF InStep, Expects, Idle, HoldsPart, TooBig
    <3>. QED BY <3>1, <3>2
  <2>2. FindsBack'
    <3>1. ASSUME NEW y \in S PROVE Cardinality(BytesOf({k \in S : k < y})') < MaxPayload
      <4>1. {k \in S : k < y} \in SUBSET (1 .. Len(sent))
        BY <1>2
      <4>2. BytesOf({k \in S : k < y})' = BytesOf({k \in S : k < y})
        BY <1>3, <4>1
      <4>3. Cardinality(BytesOf({k \in S : k < y})) < MaxPayload
        BY <1>1, <1>7 DEF InStep, FindsBack
      <4>. QED BY <4>2, <4>3
    <3>. QED BY <1>2, <3>1, Zenon DEF FindsBack, BytesOf
  <2>. QED BY <1>4, <2>1, <2>2 DEF Phase, InStep
<1>8. CASE Stale(x, i)
  <2>1. i = 1 \/ TooBig(sent'[x].size)
    BY <1>8 DEF Stale, TooBig
  <2>. QED BY <1>4, <1>8, <2>1 DEF Phase, Stale, TooBig
<1>9. CASE Overfull(x, i)
  <2>1. sent'[x] = sent[x]
    BY <1>9 DEF Overfull
  <2>. QED BY <1>4, <1>5, <1>9, <2>1 DEF Phase, Overfull
<1>10. CASE Skips(i)
  BY <1>4, <1>10 DEF Phase, Skips, Idle
<1>. QED BY <1>6, <1>7, <1>8, <1>9, <1>10 DEF Phase

\* The bound on the fill level grows with the faults.
LEMMA FillKept ==
    ASSUME ParserOK, FillBound, faults \in Nat, parser' = parser, device' = device,
           faults' \in {faults, faults + 1}
    PROVE  FillBound'
<1>1. parser.buff_size \in Nat
  BY DEF ParserOK, ParserStates
<1>2. /\ MaxPayload * faults \in Nat /\ MaxPayload * (faults + 1) = MaxPayload * faults + MaxPayload
      /\ MaxPayload * ((faults + 1) + 1) = MaxPayload * (faults + 1) + MaxPayload
      /\ MaxPayload * (faults + 1) \in Nat
  <2>1. faults <= faults /\ faults + 1 \in Nat /\ faults + 1 <= faults + 1
    OBVIOUS
  <2>. QED BY <2>1, FillLevels
<1>3. CASE faults' = faults
  BY <1>3 DEF FillBound
<1>4. CASE faults' = faults + 1
  <2>1. PICK f : f = faults'
    OBVIOUS
  <2>2. /\ MaxPayload * f = MaxPayload * (faults + 1)
        /\ MaxPayload * (f + 1) = MaxPayload * (faults + 1) + MaxPayload
    BY <1>2, <1>4, <2>1
  <2>3. parser.buff_size <= IF parser.state = Awaiting /\ device = "open"
                            THEN MaxPayload * (f + 1) ELSE MaxPayload * f
    BY <1>1, <1>2, <2>2 DEF FillBound
  <2>. QED BY <2>1, <2>3 DEF FillBound
<1>. QED BY <1>3, <1>4

\* The app writes a message, or a part of one.
LEMMA SendsSince ==
    ASSUME UsbInv, FindsBackInv, NEW port \in AppPorts, NEW size \in Sizes,
           NEW n \in 1 .. MaxPayload, AppSends(port, size, n)
    PROVE  FindsBackInv'
<1>1. /\ AppOK /\ ParserOK /\ Len(sent) \in Nat /\ safe \in Nat /\ faults \in Nat
      /\ Len(usb_in) \in Nat
  BY DEF UsbInv, AppOK
<1>2. Bounds /\ QueueSince /\ IsFiniteSet(LostBytes) /\ PhaseInv
  BY DEF FindsBackInv
<1>3. PICK m \in Nat, L \in Nat : m = Len(sent) + 1 /\ L = Len(usb_in)
  BY <1>1
<1>4. Grown(m, L, port, size, n)
  BY <1>1, <1>3, SendsGrow
<1>5. /\ L = Len(usb_in) /\ Len(usb_in') = L + n /\ n \in Nat \ {0} /\ L + n # 0
      /\ m = Len(sent) + 1 /\ Len(sent') = m
      /\ \A j \in 1 .. L : usb_in'[j] = usb_in[j]
      /\ \A k \in 1 .. Len(sent) : sent'[k] = sent[k]
  <2>1. n \in Nat \ {0} /\ L + n # 0
    BY <1>3
  <2>. QED BY <1>4, <2>1 DEF Grown
<1>6. parser' = parser /\ device' = device /\ device = "open" /\ routed' = routed
  BY DEF AppSends, linkVars
<1>7. /\ \A j \in 1 .. L : usb_in[j].msg \in 1 .. Len(sent) /\ InPlaceSince(j)
      /\ L > 0 => \A k \in usb_in[1].msg .. Len(sent) : k > safe => ~Arrived(k)
  BY <1>2, <1>3 DEF QueueSince
<1>8. \A j \in 1 .. L + n : j \in 1 .. L \/ (j \notin 1 .. L /\ usb_in'[j].msg = m)
  BY <1>3, <1>4, <1>5, GrownAt
<1>9. \A j \in 1 .. L + n : usb_in'[j].msg \in 1 .. m
  BY <1>1, <1>3, <1>5, <1>7, <1>8
<1>10. CASE n = NumChunks(size)
  <2>1. whole' = whole \cup {m} /\ safe' = safe /\ faults' = faults
    BY <1>3, <1>10 DEF AppSends
  <2>2. Bounds'
    <3>1. FillBound'
      BY <1>1, <1>2, <1>6, <2>1, FillKept DEF Bounds
    <3>2. whole' \subseteq 1 .. m
      <4>1. whole \subseteq 1 .. Len(sent)
        BY <1>2 DEF Bounds
      <4>2. \A k \in whole : k \in 1 .. m
        BY <1>1, <1>3, <4>1
      <4>3. m \in 1 .. m
        BY <1>1, <1>3
      <4>. QED BY <2>1, <4>2, <4>3
    <3>. QED BY <1>1, <1>2, <1>5, <1>6, <2>1, <3>1, <3>2 DEF Bounds
  <2>3. ~Arrived(m)' /\ \A k \in 1 .. Len(sent) : Arrived(k)' = Arrived(k)
    BY <1>1, <1>3, <1>4, <1>5, GrownArrived
  <2>4. \A k \in 1 .. Len(sent) : Entry(k)' = Entry(k) /\ Accepted(k)' = Accepted(k)
    BY <1>4, GrownChunks
  <2>5. Lost' = Lost /\ Lost \subseteq 1 .. Len(sent)
    <3>1. whole \subseteq 1 .. Len(sent)
      BY <1>2 DEF Bounds
    <3>2. ASSUME NEW k \in Lost' PROVE k \in Lost
      <4>1. k \in whole
        BY <2>1, <2>3, <3>2 DEF Lost
      <4>. QED BY <1>6, <2>1, <2>3, <2>4, <3>1, <3>2, <4>1 DEF Lost
    <3>3. ASSUME NEW k \in Lost PROVE k \in Lost'
      <4>1. k \in whole
        BY <3>3 DEF Lost
      <4>. QED BY <1>6, <2>1, <2>3, <2>4, <3>1, <3>3, <4>1 DEF Lost
    <3>. QED BY <3>1, <3>2, <3>3 DEF Lost
  <2>6. ASSUME NEW x, NEW i, x \in 1 .. Len(sent) \/ i = 1, Phase(x, i)
        PROVE  Phase(x, i)' /\ LostBytes' = LostBytes
    BY <1>5, <1>6, <2>5, <2>6, PhaseKept
  <2>7. ASSUME NEW j \in 1 .. L + n PROVE InPlaceSince(j)'
    <3>1. CASE j \in 1 .. L
      <4>1. PICK x \in 1 .. Len(sent) : x = usb_in[j].msg
        BY <1>7, <3>1
      <4>2. usb_in'[j].msg = x /\ x \in Nat
        <5>1. usb_in'[j] = usb_in[j]
          BY <1>5, <3>1
        <5>2. x \in Nat
          BY <1>1
        <5>. QED BY <4>1, <5>1, <5>2, Zenon
      <4>3. x > safe => InPlace(j)'
        <5>. SUFFICES ASSUME x > safe PROVE InPlace(j)'
          OBVIOUS
        <5>1. InPlace(j)
          BY <1>7, <3>1, <4>1 DEF InPlaceSince
        <5>. QED BY <1>1, <1>3, <1>4, <1>5, <1>7, <3>1, <5>1, InPlaceGrown
      <4>4. x <= safe => /\ j < L + n
                         /\ usb_in'[j + 1].msg <= safe \/ usb_in'[j + 1] = Chunk(safe + 1, 1)'
        <5>. SUFFICES ASSUME x <= safe
                      PROVE  /\ j < L + n
                             /\ usb_in'[j + 1].msg <= safe \/ usb_in'[j + 1] = Chunk(safe + 1, 1)'
          OBVIOUS
        <5>1. PICK s \in Nat : s = safe + 1
          BY <1>1
        <5>2. IF j < L THEN usb_in[j + 1].msg <= safe \/ usb_in[j + 1] = Chunk(s, 1)
                       ELSE safe = Len(sent)
          BY <1>5, <1>7, <3>1, <4>1, <5>1 DEF InPlaceSince
        <5>3. CASE j < L
          <6>1. j + 1 \in 1 .. L /\ usb_in'[j + 1] = usb_in[j + 1] /\ j < L + n
            <7>1. j + 1 \in 1 .. L /\ j < L + n
              BY <1>3, <1>5, <3>1, <5>3
            <7>. QED BY <1>5, <7>1
          <6>2. CASE usb_in[j + 1] = Chunk(s, 1)
            <7>1. usb_in[j + 1].msg = s
              BY <6>2 DEF Chunk, Packet
            <7>2. s \in 1 .. Len(sent)
              BY <1>7, <6>1, <7>1
            <7>3. Chunk(s, 1)' = Chunk(s, 1)
              BY <1>4, <7>2, GrownChunks
            <7>. QED BY <2>1, <5>1, <6>1, <6>2, <7>3
          <6>. QED BY <5>2, <5>3, <6>1, <6>2
        <5>4. CASE ~(j < L)
          <6>1. j = L /\ s = m /\ j < L + n
            BY <1>1, <1>3, <1>5, <3>1, <5>1, <5>2, <5>4
          <6>2. usb_in'[L + 1] = Packet(m, port, size, 1) /\ Chunk(m, 1)' = Packet(m, port, size, 1)
            BY <1>3, <1>4, <1>5, GrownFirst, GrownChunks
          <6>. QED BY <2>1, <5>1, <6>1, <6>2
        <5>. QED BY <5>3, <5>4
      <4>. QED BY <1>5, <2>1, <4>2, <4>3, <4>4 DEF InPlaceSince
    <3>2. CASE j \notin 1 .. L
      <4>1. InPlace(j)' /\ usb_in'[j].msg = m
        BY <1>1, <1>3, <1>4, <1>5, <1>10, <3>2, InPlaceNew
      <4>2. m > safe'
        BY <1>1, <1>2, <1>3, <2>1 DEF Bounds
      <4>. QED BY <1>1, <1>3, <2>1, <4>1, <4>2 DEF InPlaceSince
    <3>. QED BY <3>1, <3>2
  <2>8. QueueSince'
    <3>1. ASSUME NEW k \in usb_in'[1].msg .. Len(sent'), k > safe'
          PROVE  ~Arrived(k)'
      <4>1. 1 \in 1 .. L + n /\ usb_in'[1].msg \in 1 .. m
        BY <1>5, <1>9
      <4>2. CASE k = m
        BY <2>3, <4>2
      <4>3. CASE k # m
        <5>1. k \in 1 .. Len(sent)
          BY <1>1, <1>5, <3>1, <4>1, <4>3
        <5>2. CASE L = 0
          <6>1. usb_in'[1].msg = m
            BY <1>8, <4>1, <5>2
          <6>. QED BY <1>1, <1>5, <3>1, <4>3, <6>1
        <5>3. CASE L # 0
          <6>1. usb_in'[1] = usb_in[1] /\ L > 0 /\ 1 \in 1 .. L
            BY <1>5, <5>3
          <6>2. usb_in[1].msg \in 1 .. Len(sent)
            BY <1>7, <6>1
          <6>3. k \in usb_in[1].msg .. Len(sent)
            BY <1>1, <3>1, <5>1, <6>1, <6>2
          <6>4. ~Arrived(k)
            BY <1>7, <2>1, <3>1, <6>1, <6>3
          <6>. QED BY <2>3, <5>1, <6>4
        <5>. QED BY <5>2, <5>3
      <4>. QED BY <4>2, <4>3
    <3>. QED BY <1>5, <1>9, <2>7, <3>1 DEF QueueSince
  <2>9. PhaseInv' /\ LostBytes' = LostBytes
    <3>1. CASE L = 0
      <4>1. Phase(m, 1)
        BY <1>2, <1>3, <3>1 DEF PhaseInv
      <4>2. Phase(m, 1)' /\ LostBytes' = LostBytes
        BY <2>6, <4>1
      <4>3. /\ usb_in'[1] = Packet(m, port, size, 1) /\ usb_in'[1].msg = m /\ 1 \in 1 .. n
            /\ Chunks(m)' = n /\ Chunk(m, 1)' = Packet(m, port, size, 1)
        <5>1. 0 + 1 = 1
          OBVIOUS
        <5>. QED BY <1>3, <1>4, <1>5, <1>10, <3>1, <5>1, GrownFirst, GrownChunks
      <4>. QED BY <1>5, <4>2, <4>3 DEF PhaseInv
    <3>2. CASE L # 0
      <4>1. 1 \in 1 .. L /\ usb_in'[1] = usb_in[1] /\ L > 0
        BY <1>5, <3>2
      <4>2. PICK x \in 1 .. Len(sent) : x = usb_in[1].msg
        BY <1>7, <4>1
      <4>3. CASE x > safe
        <5>1. PICK i \in 1 .. Chunks(x) : usb_in[1] = Chunk(x, i) /\ Phase(x, i)
          BY <1>2, <1>3, <3>2, <4>2, <4>3 DEF PhaseInv
        <5>2. Phase(x, i)' /\ LostBytes' = LostBytes
          BY <2>6, <5>1
        <5>3. usb_in'[1].msg = x /\ i \in 1 .. Chunks(x)' /\ usb_in'[1] = Chunk(x, i)'
          BY <1>4, <4>1, <4>2, <5>1, GrownChunks
        <5>. QED BY <1>5, <5>2, <5>3 DEF PhaseInv
      <4>4. CASE ~(x > safe)
        <5>1. Lost = {}
          <6>1. ASSUME NEW k \in Lost PROVE FALSE
            <7>1. k \in 1 .. Len(sent) /\ k > safe /\ Arrived(k)
              BY <1>2, <6>1 DEF Lost, Bounds
            <7>2. k \in x .. Len(sent)
              BY <1>1, <4>4, <7>1
            <7>. QED BY <1>7, <4>1, <4>2, <7>1, <7>2
          <6>. QED BY <6>1
        <5>2. PICK S : S = Lost
          OBVIOUS
        <5>3. S = {} /\ Lost' = S
          BY <2>5, <5>1, <5>2
        <5>4. LostBytes = {} /\ LostBytes' = {}
          BY <5>2, <5>3, Zenon DEF LostBytes, BytesOf
        <5>5. ~(usb_in'[1].msg > safe')
          BY <2>1, <4>1, <4>2, <4>4
        <5>. QED BY <1>5, <5>4, <5>5 DEF PhaseInv
      <4>. QED BY <4>3, <4>4
    <3>. QED BY <3>1, <3>2
  <2>. QED BY <1>2, <2>2, <2>8, <2>9 DEF FindsBackInv
<1>11. CASE n # NumChunks(size)
  <2>1. whole' = whole /\ safe' = m /\ faults' = faults + 1 /\ faults < MaxFaults
    BY <1>3, <1>11 DEF AppSends
  <2>2. Bounds'
    <3>1. FillBound'
      BY <1>1, <1>2, <1>6, <2>1, FillKept DEF Bounds
    <3>2. whole' \subseteq 1 .. m
      BY <1>1, <1>2, <1>3, <2>1 DEF Bounds
    <3>3. faults' <= MaxFaults
      BY <1>1, <2>1
    <3>. QED BY <1>1, <1>2, <1>5, <1>6, <2>1, <3>1, <3>2, <3>3 DEF Bounds
  <2>3. Lost' = {}
    <3>1. \A k \in whole' : ~(k > safe')
      BY <1>5, <2>1, <2>2 DEF Bounds
    <3>. QED BY <3>1 DEF Lost
  <2>4. IsFiniteSet(LostBytes)'
    <3>1. LostBytes' = {}
      BY <2>3, Zenon DEF LostBytes, BytesOf
    <3>. QED BY <3>1, FS_EmptySet
  <2>5. \A j \in 1 .. L + n : usb_in'[j].msg <= m /\ ~(usb_in'[j].msg > m)
    <3>1. ASSUME NEW j \in 1 .. L + n PROVE usb_in'[j].msg <= m /\ ~(usb_in'[j].msg > m)
      <4>1. PICK x \in 1 .. m : x = usb_in'[j].msg
        BY <1>9
      <4>2. x <= m /\ ~(x > m)
        OBVIOUS
      <4>. QED BY <4>1, <4>2
    <3>. QED BY <3>1
  <2>6. QueueSince'
    <3>1. ASSUME NEW j \in 1 .. L + n PROVE InPlaceSince(j)'
      <4>1. j < L + n => j + 1 \in 1 .. L + n
        BY <1>5
      <4>2. j < L + n => usb_in'[j + 1].msg <= m
        BY <2>5, <4>1
      <4>. QED BY <1>5, <2>1, <2>5, <3>1, <4>2 DEF InPlaceSince
    <3>2. ASSUME NEW k \in usb_in'[1].msg .. Len(sent') PROVE ~(k > safe')
      <4>1. 1 \in 1 .. L + n
        BY <1>5
      <4>2. PICK x \in 1 .. m : x = usb_in'[1].msg
        BY <1>9, <4>1
      <4>. QED BY <1>5, <2>1, <3>2, <4>2
    <3>. QED BY <1>5, <1>9, <3>1, <3>2 DEF QueueSince
  <2>7. PhaseInv'
    <3>1. 1 \in 1 .. L + n
      BY <1>5
    <3>. QED BY <1>5, <2>1, <2>5, <3>1 DEF PhaseInv
  <2>. QED BY <2>2, <2>4, <2>6, <2>7 DEF FindsBackInv
<1>. QED BY <1>10, <1>11

\* The cable is pulled, or plugged in again and the bridge has found it.
LEMMA FreshSince ==
    ASSUME UsbInv, UsbInv', Bounds', Len(usb_in') = 0, safe' = Len(sent')
    PROVE  FindsBackInv'
<1>1. ParserOK' /\ (parser.state = Awaiting => parser.payload_size > 0)' /\ Len(sent') \in Nat
  BY DEF UsbInv, AppOK, Bounds
<1>2. Lost' = {}
  <2>1. \A k \in whole' : ~(k > safe')
    BY <1>1 DEF Bounds
  <2>. QED BY <2>1 DEF Lost
<1>3. ASSUME NEW k PROVE (Phase(k, 1) /\ IsFiniteSet(LostBytes))'
  BY <1>1, <1>2, FreshNext
<1>4. PhaseInv'
  BY <1>3 DEF PhaseInv
<1>5. QueueSince'
  BY DEF QueueSince
<1>. QED BY <1>3, <1>4, <1>5 DEF FindsBackInv

\* The cable is pulled: whatever is in the parser, nothing has been lost since.
LEMMA UnplugSince ==
    ASSUME UsbInv, UsbInv', FindsBackInv, Unplug
    PROVE  FindsBackInv'
<1>1. /\ Len(sent) \in Nat /\ faults \in Nat /\ ParserOK
      /\ parser.buff_size \in Nat
  BY DEF UsbInv, AppOK, ParserOK, ParserStates
<1>2. /\ device' = "gone" /\ usb_in' = <<>> /\ safe' = Len(sent) /\ faults' = faults + 1
      /\ parser' = parser /\ sent' = sent /\ whole' = whole /\ faults < MaxFaults
  BY DEF Unplug
<1>3. Bounds
  BY DEF FindsBackInv
<1>4. FillBound'
  <2>1. /\ MaxPayload * faults \in Nat /\ MaxPayload * (faults + 1) = MaxPayload * faults + MaxPayload
    BY <1>1, FillLevels
  <2>2. parser.buff_size <= MaxPayload * (faults + 1)
    BY <1>1, <1>3, <2>1 DEF Bounds, FillBound
  <2>. QED BY <1>2, <2>2 DEF FillBound
<1>5. Bounds'
  BY <1>1, <1>2, <1>3, <1>4 DEF Bounds
<1>. QED BY <1>2, <1>5, FreshSince

\* The accessory is opened again: the parser searches, but keeps its fill level.
LEMMA ReconnectSince ==
    ASSUME UsbInv, UsbInv', FindsBackInv, Reconnect
    PROVE  FindsBackInv'
<1>1. /\ faults \in Nat /\ parser \in ParserStates
      /\ parser.state \in {Searching, Awaiting} /\ Searching # Awaiting
  BY DEF UsbInv, AppOK, ParserOK, ParserStates, Searching, Awaiting
<1>2. /\ device = "new" /\ device' = "open" /\ parser' = ParserAfterReconnect(parser)
      /\ usb_in' = usb_in /\ sent' = sent /\ whole' = whole /\ safe' = safe /\ faults' = faults
  BY DEF Reconnect, appVars
<1>3. Bounds
  BY DEF FindsBackInv
<1>4. parser'.state = Searching /\ parser'.buff_size = parser.buff_size
  BY <1>1, <1>2 DEF ParserAfterReconnect, ParserStates
<1>5. parser.buff_size <= MaxPayload * faults
  BY <1>2, <1>3 DEF Bounds, FillBound
<1>6. FillBound'
  BY <1>1, <1>2, <1>4, <1>5 DEF FillBound
<1>7. Len(usb_in) = 0 /\ safe = Len(sent)
  BY <1>2, <1>3 DEF Bounds
<1>8. Bounds'
  BY <1>1, <1>2, <1>3, <1>4, <1>6 DEF Bounds
<1>. QED BY <1>2, <1>7, <1>8, FreshSince

\* The link changes, the parser and what is on the way do not.
LEMMA LinkSince ==
    ASSUME UsbInv, FindsBackInv, UNCHANGED <<parser, usb_in, sent, whole, safe, routed, faults>>,
           device' = device \/ (device # "open" /\ device' # "open")
    PROVE  FindsBackInv'
<1>1. AppOK /\ ParserOK /\ faults \in Nat /\ Len(sent) \in Nat
  BY DEF UsbInv, AppOK
<1>2. Bounds /\ QueueSince /\ IsFiniteSet(LostBytes) /\ PhaseInv
  BY DEF FindsBackInv
<1>3. Bounds'
  BY <1>2 DEF Bounds, FillBound
<1>4. \A k, n : /\ Chunk(k, n)' = Chunk(k, n) /\ Chunks(k)' = Chunks(k)
                /\ Entry(k)' = Entry(k) /\ Accepted(k)' = Accepted(k)
  BY SameChunks
<1>5. \A k : Arrived(k)' = Arrived(k)
  BY Zenon DEF Arrived
<1>6. Lost' = Lost /\ Lost \subseteq 1 .. Len(sent)
  BY <1>2, <1>4, <1>5 DEF Lost, Bounds
<1>7. ASSUME NEW x, NEW i, x \in 1 .. Len(sent) \/ i = 1, Phase(x, i)
      PROVE  Phase(x, i)'
  BY <1>6, <1>7, PhaseKept
<1>8. IsFiniteSet(LostBytes)'
  <2>1. PICK S : S = Lost
    OBVIOUS
  <2>2. LostBytes' = BytesOf(S)
    BY <1>6, <2>1, LostBytesNext
  <2>. QED BY <1>2, <2>1, <2>2 DEF LostBytes
<1>9. ASSUME NEW j \in 1 .. Len(usb_in) PROVE InPlaceSince(j)'
  <2>1. PICK x, s : x = usb_in[j].msg /\ s = safe
    OBVIOUS
  <2>2. usb_in'[j].msg = x /\ safe' = s
    BY <2>1
  <2>3. InPlaceSince(j)
    BY <1>2 DEF QueueSince
  <2>4. InPlace(j) => InPlace(j)'
    BY <1>4, <2>1, <2>2 DEF InPlace
  <2>5. Chunk(s + 1, 1)' = Chunk(s + 1, 1)
    BY <1>4
  <2>. QED BY <2>1, <2>2, <2>3, <2>4, <2>5 DEF InPlaceSince
<1>10. QueueSince'
  BY <1>2, <1>5, <1>9 DEF QueueSince
<1>11. PhaseInv'
  <2>1. CASE Len(usb_in) = 0
    <3>1. PICK m : m = Len(sent) + 1
      OBVIOUS
    <3>2. Phase(m, 1)'
      BY <1>2, <1>7, <2>1, <3>1 DEF PhaseInv
    <3>. QED BY <2>1, <3>1, <3>2 DEF PhaseInv
  <2>2. CASE Len(usb_in) # 0
    <3>1. 1 \in 1 .. Len(usb_in)
      BY <1>1, <2>2 DEF AppOK
    <3>2. PICK x \in 1 .. Len(sent) : x = usb_in[1].msg
      BY <1>2, <3>1 DEF QueueSince
    <3>3. usb_in'[1].msg = x /\ safe' = safe /\ usb_in'[1] = usb_in[1] /\ Len(usb_in') # 0
      BY <2>2, <3>2
    <3>4. CASE x > safe
      <4>1. PICK i \in 1 .. Chunks(x) : usb_in[1] = Chunk(x, i) /\ Phase(x, i)
        BY <1>2, <2>2, <3>2, <3>4 DEF PhaseInv
      <4>2. i \in 1 .. Chunks(x)' /\ usb_in'[1] = Chunk(x, i)' /\ Phase(x, i)'
        BY <1>4, <1>7, <3>3, <4>1
      <4>. QED BY <3>3, <4>2 DEF PhaseInv
    <3>5. CASE ~(x > safe)
      BY <3>3, <3>5 DEF PhaseInv
    <3>. QED BY <3>4, <3>5
  <2>. QED BY <2>1, <2>2
<1>. QED BY <1>3, <1>8, <1>10, <1>11 DEF FindsBackInv

\* At the start nothing waits and nothing is lost.
LEMMA FindsBackInitial == Init => FindsBackInv
<1>. SUFFICES ASSUME Init PROVE FindsBackInv
  OBVIOUS
<1>1. ParserOK /\ faults = 0 /\ safe = 0 /\ Len(sent) = 0 /\ Len(usb_in) = 0 /\ whole = {}
  BY UsbInitial DEF UsbInv, Init
<1>2. parser.state = Searching /\ parser.buff_size = 0 /\ Searching # Awaiting
  BY DEF Init, Searching, Awaiting
<1>3. MaxPayload * 0 = 0
  OBVIOUS
<1>4. Bounds
  BY <1>1, <1>2, <1>3 DEF Bounds, FillBound, Init
<1>5. Lost = {}
  BY <1>1 DEF Lost
<1>6. Phase(Len(sent) + 1, 1) /\ IsFiniteSet(LostBytes)
  BY <1>1, <1>2, <1>5, Fresh
<1>. QED BY <1>1, <1>4, <1>6 DEF FindsBackInv, PhaseInv, QueueSince

\* Every step of the bridge, of the app and of the cable keeps the invariant.
LEMMA FindsBackNext ==
    ASSUME MaxPayload * (MaxFaults + 1) < UshortRange,
           UsbInv, UsbInv', FindsBackInv, [Next]_vars
    PROVE  FindsBackInv'
<1>1. CASE \E port \in AppPorts, size \in Sizes, n \in 1 .. MaxPayload : AppSends(port, size, n)
  BY <1>1, SendsSince
<1>2. CASE Unplug
  BY <1>2, UnplugSince
<1>3. CASE ReceivePacket
  BY <1>3, ReceivesSince
<1>4. CASE Reconnect
  BY <1>4, ReconnectSince
<1>5. CASE Plug
  BY <1>5, LinkSince DEF Plug
<1>6. CASE DeviceGone \/ WriteFails \/ InitFails \/ LeftOverRemoved
  BY <1>6, LinkSince DEF DeviceGone, WriteFails, InitFails, LeftOverRemoved, appVars
<1>7. CASE UNCHANGED vars
  BY <1>7, LinkSince DEF vars
<1>. QED BY <1>1, <1>2, <1>3, <1>4, <1>5, <1>6, <1>7 DEF Next

\* After a fault, the messages that are swallowed or garbled are fewer bytes
\* than the longest message has, not counting the one at which the parser gives
\* up: for every packet size, every set of message sizes, and whether the app
\* broke off or the cable was pulled.  Each pulled cable may leave the bytes of
\* one more message in usb_parser_buff_size; the unsigned short must hold them.
THEOREM UsbFindsBack ==
    ASSUME MaxPayload * (MaxFaults + 1) < UshortRange
    PROVE  Spec => []FindsBack
<1>1. UsbInv /\ UsbInv' /\ FindsBackInv /\ [Next]_vars => FindsBackInv'
  BY FindsBackNext
<1>2. UsbInv /\ FindsBackInv => FindsBack
  <2>. SUFFICES ASSUME UsbInv, FindsBackInv PROVE FindsBack
    OBVIOUS
  <2>1. /\ ParserOK /\ AwaitedFits /\ IsFiniteSet(LostBytes) /\ QueueSince /\ PhaseInv
        /\ Bounds /\ AppOK /\ Len(sent) \in Nat /\ safe \in Nat /\ Len(usb_in) \in Nat
    BY DEF UsbInv, ParserOK, FindsBackInv, AppOK
  <2>2. CASE Len(usb_in) = 0
    BY <2>1, <2>2, PhaseFindsBack DEF PhaseInv
  <2>3. CASE Len(usb_in) # 0
    <3>1. 1 \in 1 .. Len(usb_in)
      BY <2>1, <2>3
    <3>2. PICK x \in 1 .. Len(sent) : x = usb_in[1].msg
      BY <2>1, <3>1 DEF QueueSince
    <3>3. CASE x > safe
      <4>1. PICK i \in 1 .. Chunks(x) : Phase(x, i)
        BY <2>1, <2>3, <3>2, <3>3 DEF PhaseInv
      <4>2. i \in Nat
        BY <2>1, ChunkFacts
      <4>. QED BY <2>1, <4>1, <4>2, PhaseFindsBack
    <3>4. CASE ~(x > safe)
      <4>1. ASSUME NEW k \in Lost PROVE FALSE
        <5>1. k \in 1 .. Len(sent) /\ k > safe /\ Arrived(k)
          BY <2>1, <4>1 DEF Lost, Bounds
        <5>2. k \in x .. Len(sent)
          BY <2>1, <3>4, <5>1
        <5>. QED BY <2>1, <2>3, <3>2, <5>1, <5>2 DEF QueueSince
      <4>. QED BY <4>1 DEF FindsBack
    <3>. QED BY <3>3, <3>4
  <2>. QED BY <2>2, <2>3
<1>. QED BY <1>1, <1>2, FindsBackInitial, UsbInitial, UsbStep, PTL DEF Spec
=============================================================================
