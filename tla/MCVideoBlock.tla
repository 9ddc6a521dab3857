---------------------------- MODULE MCVideoBlock ----------------------------
(***************************************************************************)
(* Every way in which the packets of one block can arrive.  The buffer     *)
(* still holds the bytes of the block received before; a packet that       *)
(* arrives damaged may arrive again, intact or damaged, over another       *)
(* adapter.  The invariants say what is published when the block is given  *)
(* up in the state reached.                                                *)
(***************************************************************************)
EXTENDS VideoBlock

VARIABLE sl

ThisBlock == [ep |-> 0, blk |-> 1]
LastBlock == [ep |-> 0, blk |-> 0]

\* Decoding the block before may have used up any of its FEC packets.
BlockInit ==
    \E used \in SUBSET FecIdx :
        sl = [p \in Slots |->
                [EmptySlot EXCEPT !.data =
                    IF p \in {FecSlot(f) : f \in used} THEN Junk
                    ELSE [org |-> LastBlock, pos |-> p]]]

ArriveIntact(p) ==
    /\ ~sl[p].crc
    /\ sl' = [sl EXCEPT ![p] = [valid |-> TRUE, crc |-> TRUE,
                                data |-> [org |-> ThisBlock, pos |-> p]]]

ArriveDamaged(p) ==
    /\ ~sl[p].crc
    /\ sl' = [sl EXCEPT ![p] = [valid |-> TRUE, crc |-> FALSE, data |-> Junk]]

BlockNext == \E p \in Slots : ArriveIntact(p) \/ ArriveDamaged(p)

BlockSpec == BlockInit /\ [][BlockNext]_sl

-----------------------------------------------------------------------------
Intact(d) == [org |-> ThisBlock, pos |-> DataSlot(d)]

NoCorruptFec == \A f \in FecIdx : ~Corrupt(sl[FecSlot(f)])

\* The promise of the FEC code (process_video_payload, fec_decode): whenever
\* the intact FEC packets are at least as many as the lost or damaged DATA
\* packets, and none of the FEC packets arrived damaged, all DATA packets of
\* the block are published, intact and in order.
FecRepairsBlock ==
    (NoCorruptFec /\ DatasMissing(sl) + DatasCorrupt(sl) <= GoodFecs(sl))
        => \A d \in DataIdx : PublishedItems(sl)[d] = Intact(d)

\* The buffers are not wiped between blocks, and fec_decode treats every DATA
\* buffer that is not erased as known.  Still no DATA packet of the block
\* before is ever published again: a packet is published intact, damaged, or
\* not at all.
NothingStalePublished ==
    \A d \in DataIdx : PublishedItems(sl)[d] \in {Intact(d), Junk, NotPublished}

\* A block that cannot be repaired still shows the DATA packets that arrived
\* intact: the failing fec_decode overwrites only packets that were lost or
\* damaged.
GoodDataAlwaysPublished ==
    \A d \in DataIdx : Good(sl[DataSlot(d)]) => PublishedItems(sl)[d] = Intact(d)

\* video_main_gnd.c:319 says of every pair handed to fec_decode "at this
\* point, data is invalid and fec is good -> replace data with fec".  For a
\* block with enough good FEC packets the selection loop nevertheless takes a
\* FEC packet that arrived damaged, because the test that should pass over
\* damaged FEC packets looks at datas_missing > good_fecs.
ChosenFecsAreGood ==
    ~ReconstructionFailed(sl)
        => \A q \in Selected(sl) : Good(sl[FecSlot(q[2])])
=============================================================================
