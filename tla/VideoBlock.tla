----------------------------- MODULE VideoBlock -----------------------------
(***************************************************************************)
(* One FEC block of the video link: where the DATA and FEC packets sit in  *)
(* it, how the receiver pairs lost DATA packets with received FEC packets  *)
(* (process_video_payload of video_main_gnd.c) and what fec_decode makes   *)
(* of the pairing.                                                         *)
(*                                                                         *)
(* The content of a packet is abstracted to its identity: the block it was *)
(* encoded for (org) and its place in that block (pos).  Content that no   *)
(* sender produced is Junk.                                                *)
(***************************************************************************)
EXTENDS Integers, FiniteSets

CONSTANTS
    NumData,   \* num_data_per_block
    NumFec,    \* num_fec_per_block
    UintRange  \* number of values of a uint32_t

ASSUME BlockAssumption ==
    /\ NumData \in Nat \ {0} /\ NumFec \in Nat
    /\ UintRange \in Nat /\ UintRange % 2 = 0 /\ UintRange >= 4
    /\ NumData + NumFec < UintRange

BlockSize == NumData + NumFec
Slots     == 0 .. BlockSize - 1
DataIdx   == 0 .. NumData - 1
FecIdx    == 0 .. NumFec - 1

-----------------------------------------------------------------------------
(* Layout: DATA and FEC packets alternate until one kind runs out.         *)

DataSlot(d) == IF d < NumFec THEN 2 * d ELSE NumFec + d
FecSlot(f)  == IF f < NumData THEN 2 * f + 1 ELSE NumData + f

-----------------------------------------------------------------------------
(* Contents.                                                               *)

NoOrigin == [ep |-> -1, blk |-> -1]
Junk     == [org |-> NoOrigin, pos |-> 0]

\* packet_buffer_t: was a packet stored, was its frame check sequence right,
\* and the buffer, whose bytes survive the resets of valid and crc_correct.
EmptySlot == [valid |-> FALSE, crc |-> FALSE, data |-> Junk]

Good(slot)    == slot.valid /\ slot.crc
Missing(slot) == ~slot.valid
Corrupt(slot) == slot.valid /\ ~slot.crc

DatasMissing(sl) == Cardinality({d \in DataIdx : Missing(sl[DataSlot(d)])})
DatasCorrupt(sl) == Cardinality({d \in DataIdx : Corrupt(sl[DataSlot(d)])})
GoodFecs(sl)     == Cardinality({f \in FecIdx : Good(sl[FecSlot(f)])})
LostPerBlock(sl) == Cardinality({p \in Slots : ~Good(sl[p])})

-----------------------------------------------------------------------------
(* The selection loop.  One step per iteration; every iteration that is    *)
(* not the last advances di, fi or both, so BlockSize iterations end it.   *)

SelectInit(sl) ==
    [di |-> 0, fi |-> 0, missing |-> DatasMissing(sl), good |-> GoodFecs(sl),
     pairs |-> {}]

\* Mutant: off by one.
PassOverDataEarly(data, s) == Good(data) \/ (Corrupt(data) /\ s.good <= s.missing + 1)

PassOverData(data, s) == Good(data) \/ (Corrupt(data) /\ s.good <= s.missing)
PassOverFec(fec, s)   == Missing(fec) \/ (~fec.crc /\ s.missing > s.good)

SelectStep(sl, s) ==
    LET data == sl[DataSlot(s.di)]
        fec  == sl[FecSlot(s.fi)]
    IN  IF ~(s.di < NumData /\ s.fi < NumFec) THEN s
        ELSE IF PassOverData(data, s) THEN [s EXCEPT !.di = @ + 1]
        ELSE IF PassOverFec(fec, s) THEN [s EXCEPT !.fi = @ + 1]
        ELSE [di      |-> s.di + 1,
              fi      |-> s.fi + 1,
              missing |-> IF Missing(data) THEN s.missing - 1 ELSE s.missing,
              good    |-> IF fec.crc THEN s.good - 1 ELSE s.good,
              pairs   |-> s.pairs \cup {<<s.di, s.fi>>}]

\* The pairs <<erased_blocks[k], fec_block_nos[k]>> handed to fec_decode.
Selected(sl) ==
    LET run[n \in Nat] == IF n = 0 THEN SelectInit(sl)
                                   ELSE SelectStep(sl, run[n - 1])
    IN  run[BlockSize].pairs

-----------------------------------------------------------------------------
(* fec_decode.  The code is maximum distance separable: the NumData inputs *)
(* (the DATA blocks that are not erased and the chosen FEC blocks) yield   *)
(* the erased DATA blocks exactly when all of them come from one encoded   *)
(* block and sit at their own places; any other input yields junk.         *)

ErasedBy(pairs) == {q[1] : q \in pairs}
FecInputs(pairs) == {FecSlot(q[2]) : q \in pairs}
Inputs(pairs) == {DataSlot(d) : d \in DataIdx \ ErasedBy(pairs)} \cup FecInputs(pairs)

Solvable(sl, pairs, o) ==
    \A p \in Inputs(pairs) : sl[p].data = [org |-> o, pos |-> p]

fec_decode(sl, pairs) ==
    LET origins == {sl[p].data.org : p \in Slots} \ {NoOrigin}
        sources == {o \in origins : Solvable(sl, pairs, o)}
    IN  [d \in DataIdx |->
            IF d \notin ErasedBy(pairs) THEN sl[DataSlot(d)].data
            ELSE IF sources = {} THEN Junk
            ELSE [org |-> CHOOSE o \in sources : TRUE, pos |-> DataSlot(d)]]

-----------------------------------------------------------------------------
(* What is published for a block: its DATA packets, in order.              *)

NeedsFec(sl) == DatasMissing(sl) + DatasCorrupt(sl) > 0

\* Mutant: off by one.
ReconstructionFailedLate(sl) ==
    DatasMissing(sl) + DatasCorrupt(sl) > GoodFecs(sl) + 1

ReconstructionFailed(sl) ==
    DatasMissing(sl) + DatasCorrupt(sl) > GoodFecs(sl)

\* Stands for a DATA packet for which publish_data is not called.
NotPublished == [org |-> NoOrigin, pos |-> -1]

\* Mutants: missing packets are published too; a failed block is dropped.
PublishedItemsWithMissing(sl) == fec_decode(sl, Selected(sl))

PublishedItemsOrNothing(sl) ==
    IF ReconstructionFailed(sl) THEN [d \in DataIdx |-> NotPublished]
    ELSE fec_decode(sl, Selected(sl))

PublishedItems(sl) ==
    IF ~NeedsFec(sl) THEN [d \in DataIdx |-> sl[DataSlot(d)].data]
    ELSE LET decoded == fec_decode(sl, Selected(sl))
         IN  [d \in DataIdx |->
                IF ~ReconstructionFailed(sl) \/ sl[DataSlot(d)].valid
                THEN decoded[d] ELSE NotPublished]

Damaged(sl) == NeedsFec(sl) /\ ReconstructionFailed(sl)

\* fec_decode works in place: it writes the erased DATA packets into their
\* buffers and subtracts the known ones from the FEC packets it was given.
DecodedSlots(sl) ==
    LET pairs   == Selected(sl)
        decoded == fec_decode(sl, pairs)
        reduced == IF ErasedBy(pairs) = DataIdx THEN {} ELSE FecInputs(pairs)
        left(p) == IF \E d \in DataIdx : DataSlot(d) = p
                   THEN decoded[CHOOSE d \in DataIdx : DataSlot(d) = p]
                   ELSE IF p \in reduced THEN Junk ELSE sl[p].data
    IN  IF ~NeedsFec(sl) THEN sl
        ELSE [p \in Slots |-> [valid |-> sl[p].valid, crc |-> sl[p].crc, data |-> left(p)]]
=============================================================================
