------------------------------ MODULE VideoGnd ------------------------------
(***************************************************************************)
(* The ground side of the video link (video_main_gnd.c): the block buffer, *)
(* the block window, the detection of transmitter restarts and the output. *)
(*                                                                         *)
(* param_block_buffers is 1 in the code and nothing assigns it, so there   *)
(* is one block buffer.  block_num and max_block_num of the code are int   *)
(* where they are stored and uint where they are compared.                 *)
(***************************************************************************)
EXTENDS VideoBlock, Sequences

CONSTANTS
    RestartWindow,  \* 128 * param_block_buffers
    PastEndWords    \* what the word behind the block buffer list may hold

ASSUME GndAssumption ==
    /\ RestartWindow \in Nat /\ RestartWindow < UintRange
    /\ PastEndWords \subseteq Int

VARIABLES
    buf,            \* block_buffer_list[0]
    max_block_num,
    status,         \* the video counters of db_gnd_status
    past_end,       \* the int read as packet_buffer_len one past the list
    output          \* history: published blocks and logged TX restarts

gndVars == <<buf, max_block_num, status, past_end, output>>

-----------------------------------------------------------------------------
(* Integer conversions of the code.                                        *)

Uint(i) == IF i < 0 THEN i + UintRange ELSE i
Int32(u) == IF 2 * u >= UintRange THEN u - UintRange ELSE u
WrapUint(n) == IF n >= UintRange THEN n - UintRange ELSE n

BlockOf(seq)   == seq \div BlockSize
PacketNum(seq) == seq % BlockSize

-----------------------------------------------------------------------------
Counters == {"received_block_cnt", "damaged_block_cnt", "lost_packet_cnt",
             "lost_per_block_cnt", "tx_restart_cnt"}

EmptyBuffer == [block_num         |-> -1,
                packet_buffer_len |-> 0,
                slots             |-> [p \in Slots |-> EmptySlot]]

\* Mutant: the flags are left set.
ClearSlotsNot(sl) == sl

ClearSlots(sl) ==
    [p \in Slots |-> [valid |-> FALSE, crc |-> FALSE, data |-> sl[p].data]]

\* Mutants: the flags are left set; the block number stays.
block_buffer_list_reset_keeps_flags(b) ==
    [block_num |-> -1, packet_buffer_len |-> 0, slots |-> b.slots]

block_buffer_list_reset_keeps_number(b) ==
    [block_num |-> b.block_num, packet_buffer_len |-> 0, slots |-> ClearSlots(b.slots)]

block_buffer_list_reset(b) ==
    [block_num |-> -1, packet_buffer_len |-> 0, slots |-> ClearSlots(b.slots)]

\* What leaves the receiver: the DATA packets of a block, or the log line that
\* reports a restart of the transmitter.
BlockEntry(b) == [what    |-> "block",
                  blk     |-> b.block_num,
                  damaged |-> Damaged(b.slots),
                  items   |-> PublishedItems(b.slots)]

RestartEntry == [what |-> "restart"]

\* The counters are uint32_t.
CountRestart(cnt) == [cnt EXCEPT !["tx_restart_cnt"] = (@ + 1) % UintRange]

CountBlock(cnt, sl) ==
    [cnt EXCEPT
        !["received_block_cnt"] = (@ + 1) % UintRange,
        !["lost_per_block_cnt"] = LostPerBlock(sl),
        !["lost_packet_cnt"]    = (@ + LostPerBlock(sl)) % UintRange,
        !["damaged_block_cnt"]  = (@ + IF Damaged(sl) THEN 1 ELSE 0) % UintRange]

\* Makes room for block blk.  After a restart the buffered block is dropped;
\* otherwise, unless the buffer is unused, it is decoded, published and
\* counted.  Then the buffer belongs to blk, the newest block.
MakeRoom(st, blk, tx_restart) ==
    LET b    == IF tx_restart THEN block_buffer_list_reset(st.buf) ELSE st.buf
        log  == IF tx_restart THEN Append(st.output, RestartEntry) ELSE st.output
        cnt  == IF tx_restart THEN CountRestart(st.status) ELSE st.status
        held == b.block_num # -1
    IN  [buf    |-> [block_num         |-> Int32(blk),
                     packet_buffer_len |-> 0,
                     slots             |-> IF held THEN ClearSlots(DecodedSlots(b.slots))
                                               ELSE b.slots],
         max    |-> Int32(blk),
         output |-> IF held THEN Append(log, BlockEntry(b)) ELSE log,
         status |-> IF held THEN CountBlock(cnt, b.slots) ELSE cnt]

\* Mutant: a packet that was received correctly is stored again.
StoreAgain(b, p, crc, pay) ==
    [block_num         |-> b.block_num,
     packet_buffer_len |-> b.packet_buffer_len + 1,
     slots |-> [b.slots EXCEPT ![p] = [valid |-> TRUE, crc |-> crc, data |-> pay]]]

\* Only packets that were not received correctly yet are overwritten.
Store(b, p, crc, pay) ==
    IF b.slots[p].crc THEN b
    ELSE [block_num         |-> b.block_num,
          packet_buffer_len |-> b.packet_buffer_len + 1,
          slots |-> [b.slots EXCEPT ![p] = [valid |-> TRUE, crc |-> crc, data |-> pay]]]

\* Mutants: a packet of the newest block counts as newer; only the first
\* packet ever can report a restart; a jump ahead reports one as well; a
\* packet of an older block is taken for one of the buffered block.
NewerBlockOrSame(blk) == blk >= Uint(max_block_num)

TxRestartAtStartOnly(blk) == Uint(max_block_num) = UintRange - 1

TxRestartBothWays(blk) ==
    \/ WrapUint(blk + RestartWindow) < Uint(max_block_num)
    \/ Uint(max_block_num) + RestartWindow < blk

HoldsOrOlder(b, blk) == blk <= Uint(b.block_num)

\* A block number above all seen before.
NewerBlock(blk) == blk > Uint(max_block_num)

\* A block number far below the newest one: the transmitter restarted.
TxRestart(blk) == WrapUint(blk + RestartWindow) < Uint(max_block_num)

\* The search for the buffer of a block.
Holds(b, blk) == Uint(b.block_num) = blk

\* The handler.  st1 is its state after the window test, b the buffer after
\* the packet was stored, st2 the state after the second pass that a full
\* block triggers.  If the packet's block is not in the buffer, the length
\* compared is read one element past the end of the buffer list.
process_video_payload(seq, crc, pay) ==
    LET blk        == BlockOf(seq)
        tx_restart == TxRestart(blk)
        st0        == [buf |-> buf, max |-> max_block_num,
                       output |-> output, status |-> status]
    IN  \E st1 \in {IF (NewerBlock(blk) \/ tx_restart) /\ crc
                    THEN MakeRoom(st0, blk, tx_restart) ELSE st0} :
        LET found == Holds(st1.buf, blk)
        IN  \E b \in {IF found THEN Store(st1.buf, PacketNum(seq), crc, pay)
                              ELSE st1.buf} :
            LET len  == IF found THEN b.packet_buffer_len ELSE past_end
                kept == [buf |-> b, max |-> st1.max,
                         output |-> st1.output, status |-> st1.status]
            IN  \E st2 \in {IF len = BlockSize /\ crc
                            THEN MakeRoom(kept, WrapUint(blk + 1), tx_restart)
                            ELSE kept} :
                /\ buf' = st2.buf
                /\ max_block_num' = st2.max
                /\ output' = st2.output
                /\ status' = st2.status
                /\ UNCHANGED past_end

GndInit ==
    /\ buf = EmptyBuffer
    /\ max_block_num = -1
    /\ status = [c \in Counters |-> 0]
    /\ past_end \in PastEndWords
    /\ output = <<>>

-----------------------------------------------------------------------------
Payloads == [org : [ep : Int, blk : Int], pos : Int]
PacketSlots == [valid : BOOLEAN, crc : BOOLEAN, data : Payloads]
BlockBuffers == [block_num : Int, packet_buffer_len : Nat, slots : [Slots -> PacketSlots]]
BlockEntries == [what : {"block"}, blk : Int, damaged : BOOLEAN,
                 items : [DataIdx -> Payloads]]

GndTypeOK ==
    /\ buf \in BlockBuffers
    /\ max_block_num \in Int
    /\ status \in [Counters -> Nat]
    /\ past_end \in PastEndWords
    /\ output \in Seq(BlockEntries \cup {RestartEntry})

-----------------------------------------------------------------------------
IsBlock(e) == e.what = "block"

\* Between two transmitter restarts the blocks leave in the order of their
\* numbers and none leaves twice, whatever the adapters deliver late, twice
\* or damaged (the window test of process_video_payload).
OutputInOrder ==
    \A i \in 1 .. Len(output) - 1 :
        IsBlock(output[i]) /\ IsBlock(output[i + 1])
            => Uint(output[i].blk) < Uint(output[i + 1].blk)

\* The block numbers a 32 bit sequence number can express.
BlocksPerRange == UintRange \div BlockSize

\* A packet of the stream at the place of the block that its sequence number
\* says.
InPlace(pay, blk, p) ==
    /\ pay.pos = p
    /\ pay.org.blk % BlocksPerRange = Uint(blk)

\* Whatever is counted as received correctly in the block buffer is a packet
\* of that very block, at its own place: no packet of another block, of the
\* block before or of the lap before the sequence number wrapped gets in.
SlotsHoldOwnBlock ==
    \A p \in Slots : Good(buf.slots[p]) => InPlace(buf.slots[p].data, buf.block_num, p)

\* video_lib.h:17 calls packet_buffer_len the "number of packets stored in
\* packet buffer", and process_video_payload decodes the block when it has
\* reached the block size: as long as no frame arrives damaged, copies of a
\* packet from several adapters count once.  (A damaged packet overwritten by
\* another copy is counted twice.)
LenCountsStored ==
    buf.packet_buffer_len = Cardinality({p \in Slots : buf.slots[p].valid})

\* What is published under a block number is content of that block, in order;
\* anything else is junk that only a damaged frame can bring in.
PublishesOwnBlock ==
    \A i \in 1 .. Len(output) : IsBlock(output[i]) =>
        \A d \in DataIdx :
            LET it == output[i].items[d]
            IN  \/ it \in {NotPublished, Junk}
                \/ InPlace(it, output[i].blk, DataSlot(d))
=============================================================================
