------------------------------ MODULE RcMessage ------------------------------
(***************************************************************************)
(* What happens to the stick positions on their way to the flight          *)
(* controller: rc_ground.c packs twelve channels into the fifteen bytes of *)
(* a DB-RC message, rc_air.c unpacks them and writes an MSPv2 or SUMD      *)
(* message to the serial port.                                             *)
(*                                                                         *)
(* Bytes are numbers; the masks, shifts and ors of the code are remainders,*)
(* quotients and sums, since the fields they join never overlap.  A        *)
(* checksum is the marker Check at its place.                              *)
(***************************************************************************)
EXTENDS Naturals, Sequences

StickChannels == 0 .. 13    \* NUM_CHANNELS, what a joystick driver fills in
Channels == 0 .. 11         \* DB_RC_NUM_CHANNELS, what the message carries

\* Poorly calibrated joysticks leave the range of 1000 to 2000.
Capped(v) == IF v < 1000 THEN 1000 ELSE IF v > 2000 THEN 2000 ELSE v

\* Mutant: a mask too short for the second channel.
PackGroupShortMask(a, b, c, d) ==
    <<a % 256, ((a \div 256) % 4) + 4 * (b % 64), ((b \div 64) % 8) + 16 * (c % 16),
      ((c \div 16) % 64) + 64 * (d % 4), (d \div 4) % 256>>

\* Four channels of ten bits make five bytes.
PackGroup(a, b, c, d) ==
    <<a % 256,
      ((a \div 256) % 4) + 4 * (b % 64),
      ((b \div 64) % 16) + 16 * (c % 16),
      ((c \div 16) % 64) + 64 * (d % 4),
      (d \div 4) % 256>>

UnpackGroup(m0, m1, m2, m3, m4) ==
    <<m0 + 256 * (m1 % 4),
      (m1 \div 4) + 64 * (m2 % 16),
      (m2 \div 16) + 16 * (m3 % 64),
      (m3 \div 64) + 4 * m4>>

generate_db_rc_message(sticks) ==
    LET ch == [i \in Channels |-> Capped(sticks[i]) - 1000]
        Group(g) == PackGroup(ch[4 * g], ch[4 * g + 1], ch[4 * g + 2], ch[4 * g + 3])
    IN  [g \in 0 .. 2 |-> Group(g)]

\* The message is kept as its three groups of five bytes.
deserialize_db_rc_protocol(msg) ==
    [i \in Channels |->
        LET m == msg[i \div 4]
        IN  UnpackGroup(m[1], m[2], m[3], m[4], m[5])[(i % 4) + 1]]

\* The channels as shared memory and the serial protocols get them.
RcChannels(msg) == [i \in Channels |-> deserialize_db_rc_protocol(msg)[i] + 1000]

-----------------------------------------------------------------------------
\* The serial messages, from bytes 0 on.
Check == 256
LowByte(v) == v % 256
HighByte(v) == (v \div 256) % 256

\* Payload byte k of a list of channels, low byte first.
LittleEndian(ch, k) == IF k % 2 = 0 THEN LowByte(ch[k \div 2]) ELSE HighByte(ch[k \div 2])
BigEndian(ch, k)    == IF k % 2 = 0 THEN HighByte(ch[k \div 2]) ELSE LowByte(ch[k \div 2])

MspV2Header == <<36, 88, 60, 0, 200, 0, 24, 0>>
SumdHeader  == <<168, 1, 12>>

\* Mutants: the channels start a channel late; the bytes are swapped.
generate_mspv2_shifted(ch) ==
    [i \in 0 .. 32 |-> IF i < 8 THEN MspV2Header[i + 1]
                       ELSE IF i = 32 THEN Check
                       ELSE LittleEndian(ch, (i - 6) % 24)]
generate_sumd_unscaled(ch) ==
    [i \in 0 .. 28 |-> IF i < 3 THEN SumdHeader[i + 1]
                       ELSE IF i > 26 THEN Check
                       ELSE BigEndian(ch, i - 3)]

generate_mspv2(ch) ==
    [i \in 0 .. 32 |-> IF i < 8 THEN MspV2Header[i + 1]
                       ELSE IF i = 32 THEN Check
                       ELSE LittleEndian(ch, i - 8)]

generate_sumd(ch) ==
    LET scaled == [i \in Channels |-> (8 * ch[i]) % 65536]
    IN  [i \in 0 .. 28 |-> IF i < 3 THEN SumdHeader[i + 1]
                           ELSE IF i > 26 THEN Check
                           ELSE BigEndian(scaled, i - 3)]

-----------------------------------------------------------------------------
\* What the flight controller reads: the payload behind the header, of the
\* size the header gives, followed by the checksum.
FcReads(msg, header, high, low) ==
    [i \in Channels |-> 256 * msg[header + 2 * i + high] + msg[header + 2 * i + low]]

FcReadsMspV2(msg) == FcReads(msg, 8, 1, 0)
FcReadsSumd(msg)  == [i \in Channels |-> FcReads(msg, 3, 0, 1)[i] \div 8]
=============================================================================
