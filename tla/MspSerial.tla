------------------------------ MODULE MspSerial ------------------------------
(***************************************************************************)
(* Parsed telemetry of the UAV (control_main_air.c, serial protocols 1 and *)
(* 2): the loop reads the flight controller byte by byte through the MSP   *)
(* parser of msp_serial.c and sends what it read when a message is         *)
(* complete.                                                               *)
(*                                                                         *)
(* Bytes have their real values and the checksums are those of the code.   *)
(* A byte of a message may get lost or change on the serial line.  Fields  *)
(* of the parser that nobody reads (version, command, flags, payload) are  *)
(* left out.                                                               *)
(***************************************************************************)
EXTENDS Integers, SequencesExt

CONSTANTS
    InBufSize,     \* MSP_PORT_INBUF_SIZE, 192
    NoiseBytes,    \* what a damaged byte may become
    MaxMsgs,       \* bound: messages of the flight controller
    MaxNoise       \* bound: bytes lost or damaged

ASSUME MspAssumption ==
    /\ InBufSize \in Nat /\ 7 <= InBufSize
    /\ NoiseBytes \subseteq 0 .. 255
    /\ MaxMsgs \in Nat /\ MaxNoise \in Nat

VARIABLES
    port,       \* db_msp_port
    reading,    \* continue_reading
    raw,        \* the first serial_read_bytes of raw_buffer
    line,       \* bytes of the flight controller not read yet
    fc,         \* history: messages of the flight controller
    noise,      \* history: bytes lost or damaged
    forwarded   \* history: payloads sent to the proxy

mspVars == <<port, reading, raw, line, fc, noise, forwarded>>

Dollar == 36    \* '$'
LetterM == 77   \* 'M'
LetterX == 88   \* 'X'
Greater == 62   \* '>'
FrameIdV2 == 255   \* MSP_V2_FRAME_ID
HeaderV1Size == 2
HeaderV2Size == 5

-----------------------------------------------------------------------------
(* The checksums.                                                          *)

Byte == 0 .. 255

\* x ^ y of the code, bit by bit.
Bit(x, value) == (x \div value) % 2
Xor(x, y) ==
    LET bit(value) == value * ((Bit(x, value) + Bit(y, value)) % 2)
    IN  bit(1) + bit(2) + bit(4) + bit(8) + bit(16) + bit(32) + bit(64) + bit(128)

\* crc8_dvb_s2 shifts eight times; the code looks the result up in a table.
ShiftCrc(crc) == IF crc >= 128 THEN Xor(2 * crc - 256, 213) ELSE 2 * crc
ShiftCrc4(crc) == ShiftCrc(ShiftCrc(ShiftCrc(ShiftCrc(crc))))
Crc8Table == [x \in Byte |-> ShiftCrc4(ShiftCrc4(x))]

\* How a byte changes the sums.
XorNext == [sum \in Byte |-> [c \in Byte |-> Xor(sum, c)]]
crc8_dvb_s2_table == [crc \in Byte |-> [c \in Byte |-> Crc8Table[Xor(crc, c)]]]

SumOf(next, bytes) ==
    LET sum[n \in Nat] == IF n = 0 THEN 0 ELSE next[sum[n - 1]][bytes[n]]
    IN  sum[Len(bytes)]
XorSum(bytes) == SumOf(XorNext, bytes)
Crc(bytes) == SumOf(crc8_dvb_s2_table, bytes)

-----------------------------------------------------------------------------
(* mspSerialProcessReceivedData.                                           *)

\* Mutant: the size of a native message is not limited.
FitsAlways(size) == TRUE

Fits(size) == size <= InBufSize

Goto(p, state) == [p EXCEPT !.c_state = state]
SizeV2(bytes, first) == bytes[first + 3] + 256 * bytes[first + 4]

\* The byte goes to inBuf; kept are those of the header.
Take(p, c) == [p EXCEPT !.offset = @ + 1, !.inBuf = Append(@, c)]
Sum1(p, c) == [p EXCEPT !.checksum1 = XorNext[@][c]]
Sum2(p, c) == [p EXCEPT !.checksum2 = crc8_dvb_s2_table[@][c]]
StartHeader(p, state) ==
    [p EXCEPT !.offset = 0, !.inBuf = <<>>, !.checksum1 = 0, !.checksum2 = 0, !.c_state = state]
StartPayload(p, size, payload, checksum) ==
    [p EXCEPT !.offset = 0, !.inBuf = <<>>, !.dataSize = size,
              !.c_state = IF size > 0 THEN payload ELSE checksum]

HeaderV1(p) ==
    LET size == p.inBuf[1]
        cmd  == p.inBuf[2]
    IN  CASE p.offset # HeaderV1Size -> p
          [] p.offset = HeaderV1Size /\ ~Fits(size) -> Goto(p, "IDLE")
          [] p.offset = HeaderV1Size /\ Fits(size) /\ cmd = FrameIdV2 ->
                Goto(p, IF size >= HeaderV2Size + 1 THEN "HEADER_V2_OVER_V1" ELSE "IDLE")
          [] OTHER -> StartPayload(p, size, "PAYLOAD_V1", "CHECKSUM_V1")

HeaderV2(p, first, payload, checksum) ==
    CASE p.offset # first + HeaderV2Size - 1 -> p
      [] p.offset = first + HeaderV2Size - 1 /\ ~Fits(SizeV2(p.inBuf, first)) -> Goto(p, "IDLE")
      [] OTHER -> StartPayload(p, SizeV2(p.inBuf, first), payload, checksum)

\* A byte of the payload; the buffer is used again, its bytes are not read.
Payload(p, checksum) ==
    LET q == [p EXCEPT !.offset = @ + 1]
    IN  IF q.offset = q.dataSize THEN Goto(q, checksum) ELSE q

\* Mutants: a bad checksum is taken for a good one; the parser waits for a good
\* one.
VerifiedWaits(p, sum, c, state) == Goto(p, IF sum = c THEN state ELSE p.c_state)
VerifiedAlways(p, sum, c, state) == Goto(p, state)

Verified(p, sum, c, state) == Goto(p, IF sum = c THEN state ELSE "IDLE")

Parsed(p, c) ==
    CASE p.c_state = "HEADER_START" ->
            Goto(p, IF c = LetterM THEN "HEADER_M" ELSE IF c = LetterX THEN "HEADER_X" ELSE "IDLE")
      [] p.c_state = "HEADER_M" ->
            IF c = Greater THEN StartHeader(p, "HEADER_V1") ELSE Goto(p, "IDLE")
      [] p.c_state = "HEADER_X" ->
            IF c = Greater THEN StartHeader(p, "HEADER_V2_NATIVE") ELSE Goto(p, "IDLE")
      [] p.c_state = "HEADER_V1" -> HeaderV1(Sum1(Take(p, c), c))
      [] p.c_state = "PAYLOAD_V1" -> Payload(Sum1(p, c), "CHECKSUM_V1")
      [] p.c_state = "CHECKSUM_V1" -> Verified(p, p.checksum1, c, "COMMAND_RECEIVED")
      [] p.c_state = "HEADER_V2_OVER_V1" ->
            HeaderV2(Sum2(Sum1(Take(p, c), c), c), HeaderV1Size + 1,
                     "PAYLOAD_V2_OVER_V1", "CHECKSUM_V2_OVER_V1")
      [] p.c_state = "PAYLOAD_V2_OVER_V1" -> Payload(Sum2(Sum1(p, c), c), "CHECKSUM_V2_OVER_V1")
      [] p.c_state = "CHECKSUM_V2_OVER_V1" -> Verified(Sum1(p, c), p.checksum2, c, "CHECKSUM_V1")
      [] p.c_state = "HEADER_V2_NATIVE" ->
            HeaderV2(Sum2(Take(p, c), c), 1, "PAYLOAD_V2_NATIVE", "CHECKSUM_V2_NATIVE")
      [] p.c_state = "PAYLOAD_V2_NATIVE" -> Payload(Sum2(p, c), "CHECKSUM_V2_NATIVE")
      [] p.c_state = "CHECKSUM_V2_NATIVE" -> Verified(p, p.checksum2, c, "COMMAND_RECEIVED")
      [] OTHER -> IF c = Dollar THEN Goto(p, "HEADER_START") ELSE p

\* MSP_IDLE and, by the default label, a message received: the parser returns
\* false for a byte that starts no message.
Idle(p) == p.c_state \in {"IDLE", "COMMAND_RECEIVED"}
Refused(p, c) == Idle(p) /\ c # Dollar

-----------------------------------------------------------------------------
\* db_msp_port is not initialised.  The states in which the parser would count
\* on from an arbitrary offset are left out; a start within a message counts
\* as noise.
Unread == {"IDLE", "HEADER_START", "HEADER_M", "HEADER_X", "COMMAND_RECEIVED"}

MspInit ==
    /\ \E state \in Unread :
          port = [c_state |-> state, offset |-> 0, dataSize |-> 0, inBuf |-> <<>>,
                  checksum1 |-> 0, checksum2 |-> 0]
    /\ reading = FALSE
    /\ noise = IF Idle(port) THEN 0 ELSE 1
    /\ raw = <<>> /\ line = <<>> /\ fc = <<>> /\ forwarded = <<>>

(* The flight controller.                                                  *)

MsgV1(cmd, pay) ==
    LET body == <<Len(pay), cmd>> \o pay
    IN  <<Dollar, LetterM, Greater>> \o body \o <<XorSum(body)>>
BodyV2(cmd, pay) == <<0, cmd, 0, Len(pay), 0>> \o pay
MsgV2(cmd, pay) ==
    <<Dollar, LetterX, Greater>> \o BodyV2(cmd, pay) \o <<Crc(BodyV2(cmd, pay))>>
MsgV2OverV1(cmd, pay) == MsgV1(FrameIdV2, BodyV2(cmd, pay) \o <<Crc(BodyV2(cmd, pay))>>)

\* Messages without a payload, and with one that looks like a message.
Messages ==
    {MsgV1(1, <<>>), MsgV1(2, <<Dollar, LetterM, Greater>>), MsgV2(3, <<Dollar, LetterX>>),
     MsgV2(4, <<>>), MsgV2OverV1(5, <<LetterX>>)}

FcSends(m) ==
    /\ line = <<>> /\ Len(fc) < MaxMsgs
    /\ line' = m
    /\ fc' = Append(fc, [bytes |-> m, whole |-> TRUE])
    /\ UNCHANGED <<port, reading, raw, noise, forwarded>>

Distort(next) ==
    /\ line # <<>> /\ noise < MaxNoise
    /\ line' = next \o Tail(line)
    /\ noise' = noise + 1
    /\ fc' = [fc EXCEPT ![Len(fc)].whole = FALSE]
    /\ UNCHANGED <<port, reading, raw, forwarded>>

\* Mutant: serial_read_bytes is not set back.
KeptKeeps == raw

\* serial_read_bytes = 0 when the socket is found readable.
Kept == IF reading THEN raw ELSE <<>>

\* One byte, in the loop or as the first one after select.
ReadByte ==
    /\ line # <<>>
    /\ line' = Tail(line)
    /\ LET c == Head(line)
           p == Parsed(port, c)
       IN  /\ port' = p
           /\ raw' = IF Refused(port, c) THEN Kept ELSE Append(Kept, c)
           /\ reading' = (~Refused(port, c) /\ p.c_state # "COMMAND_RECEIVED")
           /\ forwarded' = IF ~Refused(port, c) /\ p.c_state = "COMMAND_RECEIVED"
                           THEN Append(forwarded, raw') ELSE forwarded
    /\ UNCHANGED <<fc, noise>>

MspNext ==
    \/ \E m \in Messages : FcSends(m)
    \/ \E next \in {<<>>} \cup {<<b>> : b \in NoiseBytes} : Distort(next)
    \/ ReadByte

MspSpec == MspInit /\ [][MspNext]_mspVars

-----------------------------------------------------------------------------
\* inBuf is never written behind its end, whatever size the headers announce
\* and whatever the noise made of them.
InBufHolds == port.offset <= InBufSize

Heard == {i \in 1 .. Len(fc) : i < Len(fc) \/ line = <<>>}
EndsWith(frame, m) == IsSuffix(m, frame)

\* Without noise the loop cuts the stream exactly into the messages of the
\* flight controller, of all three versions, also if a payload looks like a
\* message.
CleanStreamCut ==
    noise = 0 => forwarded = [i \in 1 .. Cardinality(Heard) |-> fc[i].bytes]

\* The grammar of the three versions of the protocol.  (The parser does not
\* compare the size of a V1 message with that of the V2 message inside it.)
BodyOk(body, crc) ==
    /\ Len(body) >= HeaderV2Size
    /\ Len(body) = HeaderV2Size + SizeV2(body, 1)
    /\ crc = Crc(body)
ContentOk(s) ==
    /\ Len(s) >= HeaderV1Size
    /\ IF s[2] = FrameIdV2 THEN Len(s) > HeaderV1Size /\ BodyOk(SubSeq(s, 3, Len(s) - 1), Last(s))
                           ELSE Len(s) = HeaderV1Size + s[1]
WellFormed(b) ==
    LET start   == SubSeq(b, 1, 3)
        content == SubSeq(b, 4, Len(b) - 1)
    IN  /\ Len(b) > 3
        /\ \/ start = <<Dollar, LetterM, Greater>> /\ ContentOk(content) /\ Last(b) = XorSum(content)
           \/ start = <<Dollar, LetterX, Greater>> /\ BodyOk(content, Last(b))

\* With noise, what is sent to the proxy still ends in an entire message, by
\* the grammar of its version: "The FC sent us a MSP/MAVLink message"
\* (control_main_air.c:532).  What stands before it are attempts that failed.
\* (Only a parser that found itself within a message at the start sends one
\* without its '$'.)
WholeMessagesOnly ==
    \A k \in 1 .. Len(forwarded) :
        Head(forwarded[k]) = Dollar =>
            \E i \in 1 .. Len(forwarded[k]) : WellFormed(SubSeq(forwarded[k], i, Len(forwarded[k])))

\* The parser finds back: of the messages that arrived whole, one noisy byte
\* costs no more than what fits into inBuf and the message at which it gives
\* up ("We are reading shit or started reading during the middle of a
\* message", control_main_air.c:545).  Payloads that look like the start of a
\* message can keep it out of step.
Swallowed == {i \in Heard : /\ fc[i].whole
                             /\ \A k \in 1 .. Len(forwarded) : ~EndsWith(forwarded[k], fc[i].bytes)}
BytesOf(is) == UNION {[msg : {i}, at : 1 .. Len(fc[i].bytes)] : i \in is}
PlainPayloads == \A i \in 1 .. Len(fc) : Dollar \notin Range(Tail(fc[i].bytes))

ParserFindsBack ==
    noise <= 1 /\ PlainPayloads =>
        \A i \in Swallowed : Cardinality(BytesOf({k \in Swallowed : k < i})) <= InBufSize
=============================================================================
