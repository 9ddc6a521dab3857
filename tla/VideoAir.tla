------------------------------ MODULE VideoAir ------------------------------
(***************************************************************************)
(* The air side of the video link (video_main_air.c): the bytes read from  *)
(* stdin are cut into DATA packets, NumData of them make a block, and a    *)
(* full block is FEC encoded and sent, packet by packet, DATA and FEC      *)
(* interleaved, each packet once on every interface.                       *)
(*                                                                         *)
(* The bytes of the stream are numbered in the order in which they arrive  *)
(* on stdin; a packet buffer is the number of its first byte and its       *)
(* length, which includes the length field.                                *)
(***************************************************************************)
EXTENDS VideoBlock

CONSTANTS
    LenField,         \* sizeof(uint32_t), the data_length field
    MinPacketLength,  \* param_min_packet_length
    PackSize,         \* pack_size
    NumInterfaces,    \* num_interfaces
    MaxBlocks,        \* bound: blocks sent by one run of the process
    MaxEpoch          \* bound: restarts of the process

ASSUME AirAssumption ==
    /\ LenField \in Nat \ {0}
    /\ MinPacketLength \in Nat /\ LenField < MinPacketLength
    /\ PackSize \in Nat /\ MinPacketLength <= PackSize
    /\ NumInterfaces \in Nat \ {0}
    /\ MaxBlocks \in Nat /\ MaxEpoch \in Nat

VARIABLES
    seq_nr,              \* input.seq_nr
    curr_pb,             \* input.curr_pb
    pb,                  \* input.pb_list
    sending,             \* next packet of transmit_block, or Filling
    injected_block_cnt,
    epoch,               \* history: how often the process was started
    stdin,               \* history: bytes read from stdin
    sent                 \* history: bytes of the stream in transmitted blocks

airVars == <<seq_nr, curr_pb, pb, sending, injected_block_cnt, epoch, stdin, sent>>

Filling == -1

FreshBuffers == [d \in DataIdx |-> [first |-> 0, len |-> 0]]

AirInit ==
    /\ seq_nr = 0
    /\ curr_pb = 0
    /\ pb = FreshBuffers
    /\ sending = Filling
    /\ injected_block_cnt = 0
    /\ epoch = 0
    /\ stdin = 0
    /\ sent = 0

-----------------------------------------------------------------------------
\* A fresh packet buffer first gets room for its length field.
Opened(b) == IF b.len = 0 THEN [first |-> stdin, len |-> LenField] ELSE b

\* read() may return any part of what fits into the packet.
RoomIn(b) == PackSize - b.len

\* Mutants: a packet has to be more than full; the last packet is missed.
PacketFinishedOverfull(len) == len > PackSize
LastOfBlockMissed(i) == i = NumData

PacketFinished(len) == len >= MinPacketLength
LastOfBlock(i) == i = NumData - 1

ReadStdin(n) ==
    LET b == Opened(pb[curr_pb])
        finished == PacketFinished(b.len + n)
        last     == LastOfBlock(curr_pb)
    IN  /\ sending = Filling
        /\ injected_block_cnt < MaxBlocks
        /\ n \in 1 .. RoomIn(b)
        /\ pb' = [pb EXCEPT ![curr_pb] = [first |-> b.first, len |-> b.len + n]]
        /\ stdin' = stdin + n
        /\ sending' = IF finished /\ last THEN 0 ELSE Filling
        /\ curr_pb' = IF finished /\ ~last THEN curr_pb + 1 ELSE curr_pb
        /\ UNCHANGED <<seq_nr, injected_block_cnt, epoch, sent>>

\* End of file on stdin: the loop sleeps and starts over.
ReadEof ==
    /\ sending = Filling
    /\ pb' = [pb EXCEPT ![curr_pb] = Opened(@)]
    /\ UNCHANGED <<seq_nr, curr_pb, sending, injected_block_cnt, epoch, stdin, sent>>

-----------------------------------------------------------------------------
\* What transmit_packet puts on the air for the packet at place sending, and how
\* often: every interface sends it.
TxFrame ==
    [seq |-> (seq_nr + sending) % UintRange,
     pay |-> [org |-> [ep |-> epoch, blk |-> injected_block_cnt], pos |-> sending]]

TxCopies == 1 .. NumInterfaces

EndOfPacket(b) == b.first + b.len - LenField

\* Mutant: the lengths of the sent packets are not set back.
ResetLengthsNot(list) == list

ResetLengths(list) == [d \in DataIdx |-> [first |-> list[d].first, len |-> 0]]

transmit_packet ==
    /\ sending \in Slots
    /\ IF sending < BlockSize - 1
       THEN /\ sending' = sending + 1
            /\ UNCHANGED <<seq_nr, curr_pb, pb, injected_block_cnt, sent>>
       ELSE /\ sending' = Filling
            /\ seq_nr' = (seq_nr + BlockSize) % UintRange
            /\ curr_pb' = 0
            /\ pb' = ResetLengths(pb)
            /\ injected_block_cnt' = (injected_block_cnt + 1) % UintRange
            /\ sent' = EndOfPacket(pb[NumData - 1])
    /\ UNCHANGED <<epoch, stdin>>

\* The process is started again; what it had not sent is lost.
AirRestart ==
    /\ epoch < MaxEpoch
    /\ seq_nr' = 0
    /\ curr_pb' = 0
    /\ pb' = FreshBuffers
    /\ sending' = Filling
    /\ injected_block_cnt' = 0
    /\ epoch' = epoch + 1
    /\ sent' = stdin
    /\ UNCHANGED stdin

AirNext ==
    \/ \E n \in 1 .. PackSize : ReadStdin(n)
    \/ ReadEof
    \/ transmit_packet
    \/ AirRestart

AirSpec == AirInit /\ [][AirNext]_airVars

-----------------------------------------------------------------------------
PacketBuffers == [first : Nat, len : 0 .. PackSize]

AirTypeOK ==
    /\ seq_nr \in 0 .. UintRange - 1
    /\ curr_pb \in DataIdx
    /\ pb \in [DataIdx -> PacketBuffers]
    /\ sending \in Slots \cup {Filling}
    /\ injected_block_cnt \in 0 .. UintRange - 1
    /\ epoch \in Nat /\ stdin \in Nat /\ sent \in Nat

\* read() is never asked for zero bytes.  It would answer 0, which the loop of
\* video_main_air.c takes for the end of the stream and would do so for ever.
ReadHasRoom == sending = Filling => RoomIn(Opened(pb[curr_pb])) >= 1

\* When transmit_block runs, the packets of the block hold exactly the bytes
\* read since the block before, in order and without a gap, each packet within
\* its size limits, however read() cut the stream and however often it
\* reported the end of the stream in between.
BlockCoversStream ==
    sending \in Slots =>
        /\ pb[0].first = sent
        /\ EndOfPacket(pb[NumData - 1]) = stdin
        /\ \A d \in DataIdx :
              /\ pb[d].len \in MinPacketLength .. PackSize
              /\ d > 0 => pb[d].first = EndOfPacket(pb[d - 1])
=============================================================================
