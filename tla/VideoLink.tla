------------------------------ MODULE VideoLink -----------------------------
(***************************************************************************)
(* The video link end to end: VideoAir, the radio and VideoGnd.            *)
(*                                                                         *)
(* Every packet is injected once per interface of the UAV, and each copy   *)
(* may reach each adapter of the ground station intact, damaged (its frame *)
(* check sequence is wrong and so may be any field of it) or not at all.   *)
(* A frame waits in the receive queue of its adapter until process_packet  *)
(* takes it; the queues are drained independently, so copies of one packet *)
(* arrive at different times.                                              *)
(***************************************************************************)
EXTENDS VideoAir, VideoGnd

CONSTANTS
    Adapters,      \* the adapters of the ground station
    DamagedSeqs,   \* sequence numbers a damaged frame may show
    MaxQueue       \* bound: frames waiting at one adapter

ASSUME LinkAssumption ==
    /\ DamagedSeqs \subseteq 0 .. UintRange - 1
    /\ MaxQueue \in Nat

VARIABLES
    rxq,    \* frames waiting at each adapter, oldest first
    clear   \* from now on the radio delivers every packet and damages none

vars == <<airVars, gndVars, rxq, clear>>

Frames == [seq : 0 .. UintRange - 1, crc : BOOLEAN, pay : Payloads]

Init ==
    /\ AirInit
    /\ GndInit
    /\ rxq = [a \in Adapters |-> <<>>]
    /\ clear = FALSE

-----------------------------------------------------------------------------
\* What may arrive at an adapter when packet f is on the air: some of the copies,
\* in the order in which the interfaces of the UAV sent them.
IntactFrame(f)  == [seq |-> f.seq, crc |-> TRUE, pay |-> f.pay]
DamagedFrame(s) == [seq |-> s, crc |-> FALSE, pay |-> Junk]
Receptions(f) ==
    LET damaged == IF clear THEN {} ELSE {DamagedFrame(s) : s \in DamagedSeqs}
        arrives == {IntactFrame(f)} \cup damaged
    IN  UNION {[1 .. n -> arrives] : n \in TxCopies \cup (IF clear THEN {} ELSE {0})}

Fill ==
    /\ \E n \in 1 .. PackSize : ReadStdin(n)
    /\ UNCHANGED <<gndVars, rxq, clear>>

Eof ==
    /\ ReadEof
    /\ UNCHANGED <<gndVars, rxq, clear>>

Transmit ==
    /\ transmit_packet
    /\ \A a \in Adapters : Len(rxq[a]) < MaxQueue
    /\ \E got \in [Adapters -> Receptions(TxFrame)] :
            rxq' = [a \in Adapters |-> rxq[a] \o got[a]]
    /\ UNCHANGED <<gndVars, clear>>

Restart ==
    /\ AirRestart
    /\ UNCHANGED <<gndVars, rxq, clear>>

\* process_packet takes one frame of an adapter whose socket is readable.
process_packet(a) ==
    /\ rxq[a] # <<>>
    /\ LET f == Head(rxq[a]) IN process_video_payload(f.seq, f.crc, f.pay)
    /\ rxq' = [rxq EXCEPT ![a] = Tail(@)]
    /\ UNCHANGED <<airVars, clear>>

Next ==
    \/ Fill
    \/ Eof
    \/ Transmit
    \/ Restart
    \/ \E a \in Adapters : process_packet(a)

Spec == Init /\ [][Next]_vars

-----------------------------------------------------------------------------
TypeOK ==
    /\ AirTypeOK
    /\ GndTypeOK
    /\ rxq \in [Adapters -> Seq(Frames)]
    /\ clear \in BOOLEAN

-----------------------------------------------------------------------------
\* As long as the transmitter runs through and no frame arrives damaged, a
\* block that is not counted in damaged_block_cnt is published completely and
\* intact, whichever packets were lost and in whichever order the adapters
\* delivered the others.
UndamagedIsIntact ==
    \A i \in 1 .. Len(output) : IsBlock(output[i]) /\ ~output[i].damaged =>
        \A d \in DataIdx :
            output[i].items[d] = [org |-> [ep |-> 0, blk |-> output[i].blk],
                                  pos |-> DataSlot(d)]

\* The blocks published since the receiver last reported a restart.
Published ==
    LET reports == {i \in 1 .. Len(output) : output[i] = RestartEntry}
        last    == IF reports = {} THEN 0
                   ELSE CHOOSE i \in reports : \A j \in reports : j <= i
    IN  [i \in 1 .. Len(output) - last |-> output[last + i].blk + 1]

BlocksBegun == injected_block_cnt + (IF sending \in Slots THEN 1 ELSE 0)

Stream == INSTANCE LossyStream
            WITH sent <- BlocksBegun, delivered <- Published

\* While the transmitter runs through and no frame arrives damaged, the video
\* link is a LossyStream: the items are the blocks, sent when the first packet
\* goes on the air and delivered when process_video_payload publishes the
\* block, in part or whole.  An adapter that lags behind by more than the
\* restart window makes the receiver start over.
VideoIsLossyStream == Stream!Spec

\* A detected restart makes a clean cut: what is published after the receiver
\* reported the k-th restart of the transmitter belongs to a run that began
\* with or after that restart.  (The very first packet is always reported as
\* a restart, so k restarts are k + 1 reports.)  It takes a single adapter:
\* late frames of another one bring the old run back.
RestartDropsOldRun ==
    \A i \in 1 .. Len(output) : IsBlock(output[i]) =>
        \A d \in DataIdx :
            LET it      == output[i].items[d]
                reports == {j \in 1 .. i : output[j] = RestartEntry}
            IN  it \in {NotPublished, Junk} \/ it.org.ep >= Cardinality(reports) - 1

\* video_main_gnd.c:199 takes a block number far below the window for the sign
\* "that either the window is too small or that the transmitter has been
\* restarted".  With one adapter nothing arrives late, so tx_restart_cnt never
\* exceeds the number of restarts by more than one, the first packet received:
\* neither losses, nor damaged frames, nor what an unnoticed restart left
\* behind make the receiver drop its buffer.
RestartsCounted == status["tx_restart_cnt"] <= epoch + 1

\* A frame of a block that is not the one in the buffer, and that does not
\* open a new block either, changes nothing (video_main_gnd.c:386 "check if
\* we have actually found the corresponding block").  The handler reads the
\* word behind the block buffer list in this case; the property needs that word
\* to differ from the block size.
ForeignFrameIgnored ==
    [][\A a \in Adapters :
        LET f   == Head(rxq[a])
            blk == BlockOf(f.seq)
        IN  /\ Len(rxq'[a]) < Len(rxq[a])
            /\ blk # Uint(buf.block_num)
            /\ f.crc => blk < Uint(max_block_num) /\ ~TxRestart(blk)
            => UNCHANGED gndVars]_vars

-----------------------------------------------------------------------------
\* Fairness: the camera keeps writing to stdin, the transmitter's loop and the
\* receiver's select loop keep running and serve every readable adapter.
Fairness ==
    /\ WF_vars(Fill)
    /\ WF_vars(Transmit)
    /\ \A a \in Adapters : WF_vars(process_packet(a))

\* The radio may become clear.  Spec leaves this out: what a clear radio does, any
\* radio may do, so that safety is a matter of Spec alone.
RadioClears ==
    /\ ~clear
    /\ clear' = TRUE
    /\ UNCHANGED <<airVars, gndVars, rxq>>

LiveNext == Next \/ RadioClears

LiveSpec == Init /\ [][LiveNext]_vars /\ Fairness

LastBlockPublished ==
    \E i \in 1 .. Len(output) :
        /\ IsBlock(output[i])
        /\ \A d \in DataIdx :
              output[i].items[d] = [org |-> [ep |-> MaxEpoch, blk |-> MaxBlocks - 1],
                                    pos |-> DataSlot(d)]

\* If the radio is clear when the transmitter starts (again), the stream gets
\* through, at the latest when the transmitter has passed the restart window:
\* neither a restart nobody detected nor what the last run left in the buffer
\* can keep the receiver from publishing for good.
StreamResumes ==
    (/\ clear
     /\ epoch = MaxEpoch
     /\ injected_block_cnt = 0 /\ curr_pb = 0 /\ sending = Filling)
        ~> LastBlockPublished
=============================================================================
