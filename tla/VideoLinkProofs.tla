--------------------------- MODULE VideoLinkProofs --------------------------
(***************************************************************************)
(* The video link, for every block layout, all packet limits, any number   *)
(* of interfaces and ground adapters, every pattern of losses, damages and *)
(* restarts: first the transmitter by itself, then the link as a whole, at *)
(* last its restarts as one adapter sees them.                             *)
(***************************************************************************)
EXTENDS VideoLink, VideoGndProofs, SequenceTheorems

-----------------------------------------------------------------------------
(* The transmitter.                                                        *)

\* How far each packet buffer is filled, depending on where the loop stands.
FillLevel ==
    \A d \in DataIdx :
        /\ d < curr_pb \/ sending # Filling => pb[d].len >= MinPacketLength
        /\ sending = Filling /\ d = curr_pb =>
              pb[d].len = 0 \/ (LenField <= pb[d].len /\ pb[d].len < MinPacketLength)
        /\ sending = Filling /\ d > curr_pb => pb[d].len = 0

\* The packet buffers in use continue each other, from the end of the last
\* transmitted block up to the last byte read.
Chained ==
    /\ pb[0].len # 0 => pb[0].first = sent
    /\ \A d \in DataIdx : d > 0 /\ pb[d].len # 0 => pb[d].first = EndOfPacket(pb[d - 1])
    /\ pb[curr_pb].len # 0 => stdin = EndOfPacket(pb[curr_pb])
    /\ pb[curr_pb].len = 0 /\ curr_pb = 0 => stdin = sent
    /\ pb[curr_pb].len = 0 /\ curr_pb > 0 => stdin = EndOfPacket(pb[curr_pb - 1])

AirInv ==
    /\ AirTypeOK
    /\ sending # Filling => curr_pb = NumData - 1
    /\ FillLevel
    /\ Chained

-----------------------------------------------------------------------------
\* The initial state satisfies the inductive invariant.
LEMMA AirInitInv == AirInit => AirInv
BY BlockAssumption, AirAssumption
   DEF AirInit, AirInv, AirTypeOK, FillLevel, Chained, FreshBuffers, PacketBuffers,
       DataIdx, Filling, Slots, BlockSize

\* Facts about the constants and the packet buffer the loop works on.
LEMMA CurrentBuffer ==
    ASSUME AirInv, sending = Filling, NEW b, b = Opened(pb[curr_pb])
    PROVE  /\ b \in PacketBuffers
           /\ LenField <= b.len /\ b.len < MinPacketLength
           /\ b.first + b.len - LenField = stdin
           /\ pb[curr_pb].len # 0 => b = pb[curr_pb]
           /\ curr_pb = 0 => b.first = sent
           /\ curr_pb > 0 => b.first = EndOfPacket(pb[curr_pb - 1])
BY BlockAssumption, AirAssumption
   DEF AirInv, AirTypeOK, FillLevel, Chained, Opened, PacketBuffers, EndOfPacket, DataIdx

\* Reading a part of a packet, or the last part of it, keeps the invariant.
LEMMA ReadStdinInv ==
    ASSUME AirInv, NEW n \in 1 .. PackSize, ReadStdin(n)
    PROVE  AirInv'
<1> DEFINE from == Opened(pb[curr_pb]).first
           had  == Opened(pb[curr_pb]).len
<1>1. /\ from \in Nat /\ had \in Nat
      /\ LenField <= had /\ had < MinPacketLength
      /\ from + had - LenField = stdin
      /\ curr_pb = 0 => from = sent
      /\ curr_pb > 0 => from = EndOfPacket(pb[curr_pb - 1])
  BY CurrentBuffer DEF ReadStdin, PacketBuffers
<1>2. /\ sending = Filling /\ n \in 1 .. PackSize - had
      /\ pb' = [pb EXCEPT ![curr_pb] = [first |-> from, len |-> had + n]]
      /\ stdin' = stdin + n
      /\ sending' = IF had + n >= MinPacketLength /\ curr_pb = NumData - 1
                    THEN 0 ELSE Filling
      /\ curr_pb' = IF had + n >= MinPacketLength /\ curr_pb # NumData - 1
                    THEN curr_pb + 1 ELSE curr_pb
      /\ UNCHANGED <<seq_nr, injected_block_cnt, epoch, sent>>
  BY DEF ReadStdin, PacketFinished, LastOfBlock, RoomIn
<1> HIDE DEF from, had
<1>3. /\ curr_pb \in 0 .. NumData - 1 /\ stdin \in Nat
      /\ NumData \in Nat /\ NumData > 0 /\ NumFec \in Nat
      /\ PackSize \in Nat /\ LenField \in Nat /\ LenField > 0
      /\ MinPacketLength \in Nat /\ LenField < MinPacketLength /\ MinPacketLength <= PackSize
  BY BlockAssumption, AirAssumption DEF AirInv, AirTypeOK, DataIdx
<1>4. pb \in [DataIdx -> PacketBuffers] /\ curr_pb \in DataIdx
  BY DEF AirInv, AirTypeOK
<1>5. [first |-> from, len |-> had + n] \in PacketBuffers
  BY <1>1, <1>2, <1>3 DEF PacketBuffers
<1>6. /\ pb'[curr_pb] = [first |-> from, len |-> had + n]
      /\ \A d \in DataIdx : d # curr_pb => pb'[d] = pb[d]
      /\ pb' \in [DataIdx -> PacketBuffers]
  BY <1>2, <1>4, <1>5
<1>7. /\ pb'[curr_pb].first = from /\ pb'[curr_pb].len = had + n
      /\ pb'[curr_pb].len # 0
  BY <1>1, <1>2, <1>6
<1>8. AirTypeOK'
  <2>1. curr_pb' \in DataIdx
    BY <1>2, <1>3 DEF DataIdx
  <2>2. sending' \in Slots \cup {Filling}
    BY <1>2, <1>3 DEF Slots, BlockSize
  <2>3. stdin' \in Nat
    BY <1>2, <1>3
  <2> QED
    BY <1>2, <1>6, <2>1, <2>2, <2>3 DEF AirInv, AirTypeOK
<1>9. FillLevel'
  <2> SUFFICES ASSUME NEW d \in DataIdx
               PROVE  /\ d < curr_pb' \/ sending' # Filling => pb'[d].len >= MinPacketLength
                      /\ sending' = Filling /\ d = curr_pb' =>
                            \/ pb'[d].len = 0
                            \/ LenField <= pb'[d].len /\ pb'[d].len < MinPacketLength
                      /\ sending' = Filling /\ d > curr_pb' => pb'[d].len = 0
    BY DEF FillLevel
  <2>1. /\ d < curr_pb => pb[d].len >= MinPacketLength
        /\ d > curr_pb => pb[d].len = 0
    BY <1>2 DEF AirInv, FillLevel
  <2>2. CASE d = curr_pb
    BY <2>2, <1>1, <1>2, <1>3, <1>7 DEF Filling
  <2>3. CASE d # curr_pb
    BY <2>1, <2>3, <1>1, <1>2, <1>3, <1>6 DEF Filling, DataIdx
  <2> QED
    BY <2>2, <2>3
<1>10. Chained'
  <2>1. ASSUME NEW d \in DataIdx, d > 0, pb'[d].len # 0
        PROVE  pb'[d].first = EndOfPacket(pb'[d - 1])
    <3>1. d - 1 \in DataIdx
      BY <2>1, <1>3 DEF DataIdx
    <3>2. d > curr_pb => pb[d].len = 0
      BY <1>2 DEF AirInv, FillLevel
    <3>3. d <= curr_pb
      BY <3>2, <2>1, <1>3, <1>6 DEF DataIdx
    <3>4. d - 1 # curr_pb /\ pb'[d - 1] = pb[d - 1]
      BY <3>1, <3>3, <1>3, <1>6 DEF DataIdx
    <3>5. CASE d = curr_pb
      BY <3>4, <3>5, <2>1, <1>1, <1>7
    <3>6. CASE d # curr_pb
      BY <3>4, <3>6, <2>1, <1>6 DEF AirInv, Chained
    <3> QED
      BY <3>5, <3>6
  <2>2. pb'[0].len # 0 => pb'[0].first = sent'
    <3>1. 0 \in DataIdx
      BY <1>3 DEF DataIdx
    <3>2. CASE curr_pb = 0
      BY <3>2, <1>1, <1>2, <1>7
    <3>3. CASE curr_pb # 0
      BY <3>1, <3>3, <1>2, <1>6 DEF AirInv, Chained
    <3> QED
      BY <3>2, <3>3
  <2>3. stdin' = EndOfPacket(pb'[curr_pb])
    BY <1>1, <1>2, <1>3, <1>7 DEF EndOfPacket
  <2>4. curr_pb' # curr_pb => pb'[curr_pb'].len = 0 /\ curr_pb' = curr_pb + 1
    <3> SUFFICES ASSUME curr_pb' # curr_pb
                 PROVE  pb'[curr_pb'].len = 0 /\ curr_pb' = curr_pb + 1
      OBVIOUS
    <3>1. curr_pb' = curr_pb + 1 /\ curr_pb' \in DataIdx
      BY <1>2, <1>3 DEF DataIdx
    <3>2. pb[curr_pb'].len = 0
      BY <3>1, <1>2, <1>3 DEF AirInv, FillLevel
    <3> QED
      BY <3>1, <3>2, <1>3, <1>6
  <2>5. curr_pb' # curr_pb => curr_pb' > 0 /\ curr_pb' - 1 = curr_pb
    BY <2>4, <1>3
  <2> QED
    BY <2>1, <2>2, <2>3, <2>4, <2>5, <1>7 DEF Chained, EndOfPacket
<1>11. (sending # Filling => curr_pb = NumData - 1)'
  BY <1>2, <1>3 DEF Filling
<1> QED
  BY <1>8, <1>9, <1>10, <1>11 DEF AirInv

\* The end of the stream only opens the packet buffer.
LEMMA ReadEofInv ==
    ASSUME AirInv, ReadEof
    PROVE  AirInv'
<1> DEFINE b == Opened(pb[curr_pb])
<1>1. /\ b \in PacketBuffers
      /\ LenField <= b.len /\ b.len < MinPacketLength
      /\ b.first + b.len - LenField = stdin
      /\ curr_pb = 0 => b.first = sent
      /\ curr_pb > 0 => b.first = EndOfPacket(pb[curr_pb - 1])
  BY CurrentBuffer DEF ReadEof
<1>2. /\ pb' = [pb EXCEPT ![curr_pb] = b]
      /\ sending = Filling
      /\ UNCHANGED <<seq_nr, curr_pb, sending, injected_block_cnt, epoch, stdin, sent>>
  BY DEF ReadEof
<1> HIDE DEF b
<1>3. /\ curr_pb \in 0 .. NumData - 1 /\ pb \in [DataIdx -> PacketBuffers]
      /\ DataIdx = 0 .. NumData - 1 /\ NumData \in Nat /\ NumData > 0
      /\ LenField \in Nat /\ LenField > 0
  BY BlockAssumption, AirAssumption DEF AirInv, AirTypeOK, DataIdx
<1>4. /\ pb'[curr_pb] = b
      /\ \A d \in DataIdx : d # curr_pb => pb'[d] = pb[d]
      /\ pb' \in [DataIdx -> PacketBuffers]
  BY <1>1, <1>2, <1>3
<1>5. AirTypeOK'
  BY <1>2, <1>4 DEF AirInv, AirTypeOK
<1>6. FillLevel'
  BY <1>1, <1>2, <1>3, <1>4 DEF AirInv, FillLevel
<1>7. Chained'
  BY <1>1, <1>2, <1>3, <1>4 DEF AirInv, FillLevel, Chained, EndOfPacket
<1> QED
  BY <1>2, <1>5, <1>6, <1>7 DEF AirInv

\* Transmitting packets changes the buffers only with the last one.
LEMMA TransmitInv ==
    ASSUME AirInv, transmit_packet
    PROVE  AirInv'
<1> USE BlockAssumption, AirAssumption
<1>1. CASE sending < BlockSize - 1
  <2>1. /\ sending' = sending + 1 /\ sending \in Slots
        /\ UNCHANGED <<seq_nr, curr_pb, pb, injected_block_cnt, sent, epoch, stdin>>
    BY <1>1 DEF transmit_packet
  <2> QED
    BY <1>1, <2>1 DEF AirInv, AirTypeOK, FillLevel, Chained, EndOfPacket,
                      Slots, BlockSize, Filling
<1>2. CASE ~(sending < BlockSize - 1)
  <2>1. /\ sending' = Filling /\ sending \in Slots
        /\ seq_nr' = (seq_nr + BlockSize) % UintRange
        /\ curr_pb' = 0
        /\ pb' = [d \in DataIdx |-> [first |-> pb[d].first, len |-> 0]]
        /\ injected_block_cnt' = (injected_block_cnt + 1) % UintRange
        /\ sent' = EndOfPacket(pb[NumData - 1])
        /\ UNCHANGED <<epoch, stdin>>
    BY <1>2 DEF transmit_packet, ResetLengths
  <2>2. /\ curr_pb = NumData - 1 /\ 0 \in DataIdx /\ NumData - 1 \in DataIdx
        /\ pb[NumData - 1].len # 0 /\ stdin = EndOfPacket(pb[NumData - 1])
    BY <2>1 DEF AirInv, FillLevel, Chained, Slots, Filling, DataIdx
  <2>3. \A d \in DataIdx : pb'[d] \in PacketBuffers /\ pb'[d].len = 0
    BY <2>1 DEF AirInv, AirTypeOK, PacketBuffers
  <2>4. /\ (seq_nr + BlockSize) % UintRange \in 0 .. UintRange - 1
        /\ (injected_block_cnt + 1) % UintRange \in 0 .. UintRange - 1
    BY DEF AirInv, AirTypeOK, BlockSize
  <2>5. AirTypeOK'
    BY <2>1, <2>2, <2>3, <2>4 DEF AirInv, AirTypeOK
  <2>6. FillLevel'
    BY <2>1, <2>3 DEF FillLevel, DataIdx
  <2>7. Chained'
    BY <2>1, <2>2, <2>3 DEF Chained
  <2> QED
    BY <2>1, <2>5, <2>6, <2>7 DEF AirInv
<1> QED
  BY <1>1, <1>2

\* A restarted process begins with empty buffers at the current byte.
LEMMA RestartInv ==
    ASSUME AirInv, AirRestart
    PROVE  AirInv'
BY BlockAssumption, AirAssumption
   DEF AirInv, AirRestart, AirTypeOK, FillLevel, Chained, FreshBuffers, PacketBuffers,
       DataIdx, Filling, Slots, BlockSize

\* Every step of the transmitter keeps the inductive invariant.
LEMMA AirNextInv == AirInv /\ [AirNext]_airVars => AirInv'
<1> SUFFICES ASSUME AirInv, [AirNext]_airVars PROVE AirInv'
  OBVIOUS
<1>1. CASE \E n \in 1 .. PackSize : ReadStdin(n)
  BY <1>1, ReadStdinInv
<1>2. CASE ReadEof
  BY <1>2, ReadEofInv
<1>3. CASE transmit_packet
  BY <1>3, TransmitInv
<1>4. CASE AirRestart
  BY <1>4, RestartInv
<1>5. CASE UNCHANGED airVars
  BY <1>5 DEF airVars, AirInv, AirTypeOK, FillLevel, Chained, EndOfPacket
<1> QED
  BY <1>1, <1>2, <1>3, <1>4, <1>5 DEF AirNext

\* What the inductive invariant says of the properties the runs check.
LEMMA AirInvImplies == AirInv => AirTypeOK /\ ReadHasRoom /\ BlockCoversStream
<1> SUFFICES ASSUME AirInv PROVE AirTypeOK /\ ReadHasRoom /\ BlockCoversStream
  OBVIOUS
<1>1. ReadHasRoom
  BY CurrentBuffer, AirAssumption DEF ReadHasRoom, RoomIn, PacketBuffers
<1>2. BlockCoversStream
  <2> SUFFICES ASSUME sending \in Slots
               PROVE  /\ pb[0].first = sent
                      /\ EndOfPacket(pb[NumData - 1]) = stdin
                      /\ \A d \in DataIdx :
                            /\ pb[d].len \in MinPacketLength .. PackSize
                            /\ d > 0 => pb[d].first = EndOfPacket(pb[d - 1])
    BY DEF BlockCoversStream
  <2>1. sending # Filling /\ curr_pb = NumData - 1
    BY DEF AirInv, Slots, Filling
  <2>2. \A d \in DataIdx : pb[d].len \in MinPacketLength .. PackSize /\ pb[d].len # 0
    BY <2>1, AirAssumption DEF AirInv, AirTypeOK, FillLevel, PacketBuffers
  <2>3. 0 \in DataIdx /\ NumData - 1 \in DataIdx
    BY BlockAssumption DEF DataIdx
  <2> QED
    BY <2>1, <2>2, <2>3 DEF AirInv, Chained
<1> QED
  BY <1>1, <1>2 DEF AirInv

\* The variables of the transmitter keep their types.
THEOREM AirTypeCorrect == AirSpec => []AirTypeOK
BY AirInitInv, AirNextInv, AirInvImplies, PTL DEF AirSpec

\* read() always has room, for all packet limits main() accepts.
THEOREM AirReadHasRoom == AirSpec => []ReadHasRoom
BY AirInitInv, AirNextInv, AirInvImplies, PTL DEF AirSpec

\* Every transmitted block holds exactly the bytes read since the last one.
THEOREM AirBlockCoversStream == AirSpec => []BlockCoversStream
BY AirInitInv, AirNextInv, AirInvImplies, PTL DEF AirSpec

-----------------------------------------------------------------------------
(* Frames.                                                                 *)

\* A packet on the air is a frame when it arrives, intact or damaged.
LEMMA TxFrameType ==
    ASSUME AirTypeOK, sending \in Slots
    PROVE  IntactFrame(TxFrame) \in Frames
<1>1. (seq_nr + sending) % UintRange \in 0 .. UintRange - 1
  BY BlockAssumption DEF AirTypeOK, Slots, BlockSize
<1>2. TxFrame.seq \in 0 .. UintRange - 1 /\ TxFrame.pay \in Payloads
  BY <1>1 DEF AirTypeOK, TxFrame, Payloads, Slots
<1> QED
  BY <1>2 DEF IntactFrame, Frames

LEMMA DamagedFrameType == \A s \in DamagedSeqs : DamagedFrame(s) \in Frames
<1>1. Junk \in Payloads
  BY DEF Junk, NoOrigin, Payloads
<1>2. \A s \in DamagedSeqs : s \in 0 .. UintRange - 1
  BY LinkAssumption
<1> QED
  BY <1>1, <1>2 DEF DamagedFrame, Frames

\* What the radio delivers of a packet are copies of it, intact or damaged.
LEMMA ReceptionIn ==
    ASSUME NEW f, NEW F, IntactFrame(f) \in F, \A s \in DamagedSeqs : DamagedFrame(s) \in F,
           NEW g \in Receptions(f)
    PROVE  g \in Seq(F)
<1> DEFINE damaged == IF clear THEN {} ELSE {DamagedFrame(s) : s \in DamagedSeqs}
           arrives == {IntactFrame(f)} \cup damaged
<1>1. arrives \subseteq F
  OBVIOUS
<1>2. TxCopies \cup (IF clear THEN {} ELSE {0}) \subseteq Nat
  BY DEF TxCopies
<1>3. PICK n \in Nat : g \in [1 .. n -> arrives]
  BY <1>2 DEF Receptions
<1> HIDE DEF arrives
<1>4. g \in [1 .. n -> F]
  BY <1>1, <1>3
<1> QED
  BY <1>4

\* So they are frames.
LEMMA ReceptionsType ==
    ASSUME AirTypeOK, sending \in Slots
    PROVE  Receptions(TxFrame) \subseteq Seq(Frames)
BY ReceptionIn, TxFrameType, DamagedFrameType

\* Receiving extends the queues.
LEMMA QueueType ==
    ASSUME rxq \in [Adapters -> Seq(Frames)], AirTypeOK, sending \in Slots,
           NEW got \in [Adapters -> Receptions(TxFrame)],
           rxq' = [a \in Adapters |-> rxq[a] \o got[a]]
    PROVE  /\ rxq' \in [Adapters -> Seq(Frames)]
           /\ \A a \in Adapters : got[a] \in Seq(Frames) /\ rxq'[a] = rxq[a] \o got[a]
BY ReceptionsType

\* The frame process_packet takes, and the queue it leaves.
LEMMA HeadType ==
    ASSUME NEW q \in Seq(Frames), q # <<>>
    PROVE  /\ Head(q) \in Frames /\ Tail(q) \in Seq(Frames)
           /\ Head(q) = q[1] /\ Len(q) >= 1 /\ Len(Tail(q)) = Len(q) - 1
           /\ \A i \in 1 .. Len(q) - 1 : Tail(q)[i] = q[i + 1]
OBVIOUS

-----------------------------------------------------------------------------
(* Types.                                                                  *)

LinkTypeInv == AirInv /\ TypeOK

\* The transmitter's steps keep the transmitter's invariant.
LEMMA LinkAirStep ==
    ASSUME AirInv, Fill \/ Eof \/ Transmit \/ Restart
    PROVE  AirInv'
BY ReadStdinInv, ReadEofInv, TransmitInv, RestartInv DEF Fill, Eof, Transmit, Restart

\* A frame of a queue as the handler sees it.
LEMMA FrameParts ==
    ASSUME NEW f \in Frames
    PROVE  f.seq \in Seqs /\ f.crc \in BOOLEAN /\ f.pay \in Payloads
BY DEF Frames, Seqs

\* Every step of the link keeps the types.
LEMMA LinkTypeNext == LinkTypeInv /\ [Next]_vars => LinkTypeInv'
<1> SUFFICES ASSUME LinkTypeInv, [Next]_vars PROVE LinkTypeInv'
  OBVIOUS
<1>0. AirInv /\ AirTypeOK /\ GndTypeOK /\ rxq \in [Adapters -> Seq(Frames)] /\ clear \in BOOLEAN
  BY DEF LinkTypeInv, TypeOK
<1>1. CASE Fill \/ Eof \/ Restart
  <2>1. AirInv'
    BY <1>0, <1>1, LinkAirStep
  <2>2. UNCHANGED <<gndVars, rxq, clear>>
    BY <1>1 DEF Fill, Eof, Restart
  <2> QED
    BY <1>0, <2>1, <2>2 DEF LinkTypeInv, TypeOK, AirInv, gndVars, GndTypeOK
<1>2. CASE Transmit
  <2>1. AirInv'
    BY <1>0, <1>2, LinkAirStep
  <2>2. sending \in Slots /\ UNCHANGED <<gndVars, clear>>
    BY <1>2 DEF Transmit, transmit_packet
  <2>3. rxq' \in [Adapters -> Seq(Frames)]
    BY <1>0, <1>2, <2>2, QueueType DEF Transmit
  <2> QED
    BY <1>0, <2>1, <2>2, <2>3 DEF LinkTypeInv, TypeOK, AirInv, gndVars, GndTypeOK
<1>3. ASSUME NEW a \in Adapters, process_packet(a) PROVE LinkTypeInv'
  <2>1. rxq[a] \in Seq(Frames) /\ rxq[a] # <<>>
    BY <1>0, <1>3 DEF process_packet
  <2>2. Head(rxq[a]) \in Frames /\ Tail(rxq[a]) \in Seq(Frames)
    BY <2>1, HeadType
  <2> DEFINE f == Head(rxq[a])
  <2>3. process_video_payload(f.seq, f.crc, f.pay)
    BY <1>3 DEF process_packet
  <2>4. f.seq \in Seqs /\ f.crc \in BOOLEAN /\ f.pay \in Payloads
    BY <2>2, FrameParts
  <2> HIDE DEF f
  <2>5. GndTypeOK'
    BY <1>0, <2>3, <2>4, HandlerType
  <2>6. rxq' \in [Adapters -> Seq(Frames)]
    BY <1>0, <1>3, <2>2 DEF process_packet
  <2>7. UNCHANGED <<airVars, clear>>
    BY <1>3 DEF process_packet
  <2>8. AirInv'
    BY <1>0, <2>7, AirNextInv
  <2> QED
    BY <1>0, <2>5, <2>6, <2>7, <2>8 DEF LinkTypeInv, TypeOK, AirInv
<1>4. CASE UNCHANGED vars
  <2>1. UNCHANGED <<airVars, gndVars, rxq>> /\ clear' \in BOOLEAN
    BY <1>0, <1>4 DEF vars
  <2>2. AirInv'
    BY <1>0, <2>1, AirNextInv
  <2> QED
    BY <1>0, <2>1, <2>2 DEF LinkTypeInv, TypeOK, AirInv, gndVars, GndTypeOK
<1> QED
  BY <1>1, <1>2, <1>3, <1>4 DEF Next

\* The initial state is well typed.
LEMMA LinkTypeInit == Init => LinkTypeInv
<1> SUFFICES ASSUME Init PROVE LinkTypeInv
  OBVIOUS
<1>1. AirInv /\ GndTypeOK
  BY AirInitInv, GndInitInv DEF Init, OwnInv
<1>2. rxq \in [Adapters -> Seq(Frames)] /\ clear \in BOOLEAN
  <2>1. <<>> \in Seq(Frames)
    OBVIOUS
  <2> QED
    BY <2>1, Zenon DEF Init
<1> QED
  BY <1>1, <1>2 DEF LinkTypeInv, TypeOK, AirInv

\* All variables of the link keep their types, whatever the past-end word is.
THEOREM LinkTypeCorrect == Spec => []TypeOK
<1>1. LinkTypeInv => TypeOK
  BY DEF LinkTypeInv
<1> QED
  BY <1>1, LinkTypeInit, LinkTypeNext, PTL DEF Spec

-----------------------------------------------------------------------------
(* The queues and the receiver.                                            *)

\* All frames that wait are in F.
InQueues(F) == \A a \in Adapters : \A i \in 1 .. Len(rxq[a]) : rxq[a][i] \in F

\* They stay in F if what the radio makes of a transmitted packet is in F.
LEMMA QueuesKept ==
    ASSUME TypeOK, [Next]_vars, NEW F, InQueues(F),
           sending \in Slots => /\ IntactFrame(TxFrame) \in F
                                /\ \A s \in DamagedSeqs : DamagedFrame(s) \in F
    PROVE  \A a \in Adapters : \A i \in 1 .. Len(rxq'[a]) : rxq'[a][i] \in F
<1>0. AirTypeOK /\ rxq \in [Adapters -> Seq(Frames)]
  BY DEF TypeOK
<1>1. CASE UNCHANGED rxq
  BY <1>1 DEF InQueues
<1>2. CASE Transmit
  <2>1. sending \in Slots
    BY <1>2 DEF Transmit, transmit_packet
  <2>2. PICK got \in [Adapters -> Receptions(TxFrame)] :
            rxq' = [a \in Adapters |-> rxq[a] \o got[a]]
    BY <1>2 DEF Transmit
  <2>3. \A a \in Adapters : got[a] \in Seq(Frames) /\ rxq'[a] = rxq[a] \o got[a]
    BY <1>0, <2>1, <2>2, QueueType
  <2>4. ASSUME NEW a \in Adapters, NEW i \in 1 .. Len(got[a])
        PROVE  got[a][i] \in F
    <3>1. got[a] \in Receptions(TxFrame)
      BY <2>2
    <3>2. got[a] \in Seq(F)
      BY <2>1, <3>1, ReceptionIn
    <3> QED
      BY <2>4, <3>2
  <2>5. ASSUME NEW a \in Adapters, NEW i \in 1 .. Len(rxq'[a])
        PROVE  rxq'[a][i] \in F
    <3>1. rxq[a] \in Seq(Frames) /\ got[a] \in Seq(Frames) /\ rxq'[a] = rxq[a] \o got[a]
      BY <1>0, <2>3
    <3>2. \/ i \in 1 .. Len(rxq[a]) /\ rxq'[a][i] = rxq[a][i]
          \/ i - Len(rxq[a]) \in 1 .. Len(got[a]) /\ rxq'[a][i] = got[a][i - Len(rxq[a])]
      BY <2>5, <3>1
    <3> QED
      BY <2>4, <3>2 DEF InQueues
  <2> QED
    BY <2>5
<1>3. ASSUME NEW a \in Adapters, process_packet(a),
             NEW c \in Adapters, NEW i \in 1 .. Len(rxq'[c])
      PROVE  rxq'[c][i] \in F
  <2>1. rxq[a] \in Seq(Frames) /\ rxq[a] # <<>>
    BY <1>0, <1>3 DEF process_packet
  <2>2. rxq'[c] = IF c = a THEN Tail(rxq[a]) ELSE rxq[c]
    BY <1>0, <1>3 DEF process_packet
  <2>3. CASE c = a
    BY <1>3, <2>1, <2>2, <2>3, HeadType DEF InQueues
  <2>4. CASE c # a
    BY <1>3, <2>2, <2>4 DEF InQueues
  <2> QED
    BY <2>3, <2>4
<1> QED
  BY <1>1, <1>2, <1>3 DEF Next, Fill, Eof, Restart, vars

\* The receiver is idle, or it takes one of the frames.
LEMMA PacketTaken ==
    ASSUME TypeOK, NEW F, InQueues(F), NEW a \in Adapters, process_packet(a)
    PROVE  \E f \in F : /\ f \in Frames /\ f = Head(rxq[a])
                        /\ f.seq \in Seqs /\ f.crc \in BOOLEAN /\ f.pay \in Payloads
                        /\ process_video_payload(f.seq, f.crc, f.pay)
<1> DEFINE f == Head(rxq[a])
<1>1. rxq[a] \in Seq(Frames) /\ rxq[a] # <<>>
  BY DEF process_packet, TypeOK
<1>2. f \in Frames /\ f = rxq[a][1] /\ Len(rxq[a]) >= 1
  BY <1>1, HeadType
<1>3. f \in F
  BY <1>1, <1>2 DEF InQueues
<1>4. process_video_payload(f.seq, f.crc, f.pay)
  BY DEF process_packet
<1> HIDE DEF f
<1> QED
  BY <1>2, <1>3, <1>4, FrameParts DEF f

LEMMA ReceiverIdle ==
    ASSUME [Next]_vars
    PROVE  \/ UNCHANGED gndVars
           \/ \E a \in Adapters : process_packet(a) /\ UNCHANGED <<airVars, clear>>
BY DEF Next, Fill, Eof, Transmit, Restart, vars, process_packet

\* All frames are frames.
LEMMA AnyFrame == TypeOK => InQueues(Frames)
<1> SUFFICES ASSUME TypeOK, NEW a \in Adapters, NEW i \in 1 .. Len(rxq[a])
             PROVE  rxq[a][i] \in Frames
  BY DEF InQueues
<1>1. rxq[a] \in Seq(Frames)
  BY DEF TypeOK
<1> QED
  BY <1>1

-----------------------------------------------------------------------------
(* Order.                                                                  *)

\* Every step of the link keeps the order of the output.
LEMMA LinkOrderNext ==
    ASSUME BlockSize >= 2, BlockSize \notin PastEndWords, TypeOK, OrderInv, [Next]_vars
    PROVE  OrderInv'
<1>1. CASE UNCHANGED gndVars
  BY <1>1 DEF gndVars, OrderInv, GndTypeOK, LastOlder, Ordered
<1>2. ASSUME NEW a \in Adapters, process_packet(a) PROVE OrderInv'
  <2>1. PICK f \in Frames : /\ f.seq \in Seqs /\ f.crc \in BOOLEAN /\ f.pay \in Payloads
                            /\ process_video_payload(f.seq, f.crc, f.pay)
    BY <1>2, PacketTaken, AnyFrame
  <2> QED
    BY <2>1, HandlerOrder
<1> QED
  BY <1>1, <1>2, ReceiverIdle

\* Between two restarts blocks are published in the order of their numbers and
\* at most once each, for all losses, duplicates, delays and damages.
THEOREM LinkOutputInOrder ==
    ASSUME BlockSize >= 2, BlockSize \notin PastEndWords
    PROVE  Spec => []OutputInOrder
<1>1. Init => OrderInv
  BY GndInitInv DEF Init
<1>2. TypeOK /\ OrderInv /\ [Next]_vars => OrderInv'
  BY LinkOrderNext
<1>3. OrderInv => OutputInOrder
  BY DEF OrderInv, Ordered, OutputInOrder
<1> QED
  BY <1>1, <1>2, <1>3, LinkTypeCorrect, PTL DEF Spec

-----------------------------------------------------------------------------
(* Blocks are not mixed up.                                                *)

\* An intact frame carries what its sequence number says, a damaged one junk.
FrameInPlace(f) ==
    /\ f.crc => /\ f.pay.pos = PacketNum(f.seq) /\ f.pay.org.blk \in Nat
                /\ f.pay.org.blk % BlocksPerRange = BlockOf(f.seq)
    /\ ~f.crc => f.pay = Junk

OwnFrames == {f \in Frames : FrameInPlace(f)}

\* The transmitter's sequence number stays aligned to its blocks.
SeqAligned ==
    /\ seq_nr = injected_block_cnt * BlockSize
    /\ injected_block_cnt <= MaxBlocks
    /\ sending # Filling => injected_block_cnt < MaxBlocks

OwnLinkInv ==
    /\ LinkTypeInv
    /\ SeqAligned
    /\ InQueues(OwnFrames)
    /\ OwnInv

\* Block and place of the packet with number n * k + p.
LEMMA SplitPacket ==
    ASSUME NEW n \in Nat, NEW k \in Nat, k > 0, NEW p \in 0 .. k - 1
    PROVE  (n * k + p) \div k = n /\ (n * k + p) % k = p
OBVIOUS

\* A block number below m is its own remainder if m blocks fit into the range.
LEMMA BelowRange ==
    ASSUME NEW n \in Nat, NEW m \in Nat, n < m, NEW k \in Nat, k > 0,
           NEW range \in Nat, m * k < range
    PROVE  n % (range \div k) = n
<1>1. range \div k \in Nat /\ range < ((range \div k) + 1) * k
  OBVIOUS
<1>2. m <= range \div k
  <2> SUFFICES ASSUME range \div k < m PROVE FALSE
    BY <1>1
  <2> DEFINE q == range \div k
  <2>1. q \in Nat /\ q + 1 <= m
    BY <1>1
  <2>2. range < (q + 1) * k
    BY <1>1
  <2> HIDE DEF q
  <2>3. (q + 1) * k <= m * k
    BY <2>1
  <2> QED
    BY <2>1, <2>2, <2>3
<1> DEFINE q == range \div k
<1>3. q \in Nat /\ n < q
  BY <1>1, <1>2
<1> HIDE DEF q
<1>4. n % q = n
  BY <1>3
<1> QED
  BY <1>4 DEF q

\* The packet on the air: its block and its place follow from its number.
LEMMA TxFrameSplit ==
    ASSUME MaxBlocks * BlockSize < UintRange, AirTypeOK, SeqAligned, sending \in Slots
    PROVE  BlockOf(TxFrame.seq) = injected_block_cnt /\ PacketNum(TxFrame.seq) = sending
<1>1. injected_block_cnt \in Nat /\ injected_block_cnt < MaxBlocks
  BY DEF AirTypeOK, SeqAligned, Slots, Filling
<1>2. BlockSize \in Nat /\ BlockSize > 0 /\ sending \in 0 .. BlockSize - 1
  BY BlockAssumption DEF BlockSize, Slots
<1>3. MaxBlocks \in Nat /\ UintRange \in Nat
  BY AirAssumption, BlockAssumption
<1> DEFINE seq == injected_block_cnt * BlockSize + sending
<1>4. seq \in Nat /\ seq < UintRange
  <2>1. (injected_block_cnt + 1) * BlockSize <= MaxBlocks * BlockSize
    BY <1>1, <1>2, <1>3
  <2>2. (injected_block_cnt + 1) * BlockSize = injected_block_cnt * BlockSize + BlockSize
    BY <1>1, <1>2
  <2>3. injected_block_cnt * BlockSize \in Nat /\ MaxBlocks * BlockSize \in Nat
    BY <1>1, <1>2, <1>3
  <2> QED
    BY <1>2, <1>3, <2>1, <2>2, <2>3
<1>5. seq % UintRange = seq
  BY <1>3, <1>4
<1>6. seq \div BlockSize = injected_block_cnt /\ seq % BlockSize = sending
  BY <1>1, <1>2, SplitPacket
<1>7. TxFrame.seq = seq
  BY <1>5 DEF TxFrame, SeqAligned
<1> HIDE DEF seq
<1> QED
  BY <1>6, <1>7 DEF PacketNum, BlockOf

\* It carries what its sequence number says.
LEMMA TxFrameInPlace ==
    ASSUME MaxBlocks * BlockSize < UintRange, AirTypeOK, SeqAligned, sending \in Slots
    PROVE  FrameInPlace(IntactFrame(TxFrame))
<1>1. injected_block_cnt \in Nat /\ injected_block_cnt < MaxBlocks
  BY DEF AirTypeOK, SeqAligned, Slots, Filling
<1>2. injected_block_cnt % BlocksPerRange = injected_block_cnt
  BY <1>1, BelowRange, BlockAssumption, AirAssumption DEF BlocksPerRange, BlockSize
<1>3. TxFrame.pay.pos = sending /\ TxFrame.pay.org.blk = injected_block_cnt
  BY DEF TxFrame
<1> QED
  BY <1>1, <1>2, <1>3, TxFrameSplit DEF FrameInPlace, IntactFrame

\* The blocks of a run stay below half of the unsigned range.
LEMMA BlocksFit ==
    ASSUME BlockSize >= 2, MaxBlocks * BlockSize < UintRange,
           NEW n \in Nat, n < MaxBlocks
    PROVE  2 * (n + 1) < UintRange
<1>1. BlockSize \in Nat /\ MaxBlocks \in Nat /\ UintRange \in Nat
  BY BlockAssumption, AirAssumption DEF BlockSize
<1>2. 2 * MaxBlocks <= MaxBlocks * BlockSize /\ MaxBlocks * BlockSize \in Nat
  BY <1>1
<1> QED
  BY <1>1, <1>2

\* Sending a packet keeps the sequence number aligned and begins no block.
LEMMA TransmitAligned ==
    ASSUME MaxBlocks * BlockSize < UintRange, AirTypeOK, SeqAligned, transmit_packet
    PROVE  SeqAligned' /\ BlocksBegun' = BlocksBegun
<1>1. /\ injected_block_cnt \in Nat /\ injected_block_cnt < MaxBlocks
      /\ seq_nr = injected_block_cnt * BlockSize
      /\ sending \in Slots
  BY DEF AirTypeOK, SeqAligned, Slots, Filling, transmit_packet
<1>2. BlockSize \in Nat /\ BlockSize > 0 /\ MaxBlocks \in Nat /\ UintRange \in Nat
  BY BlockAssumption, AirAssumption DEF BlockSize
<1>3. CASE sending < BlockSize - 1
  BY <1>1, <1>2, <1>3 DEF SeqAligned, transmit_packet, Slots, BlocksBegun
<1>4. CASE ~(sending < BlockSize - 1)
  <2> DEFINE next == injected_block_cnt + 1
  <2>1. next * BlockSize = seq_nr + BlockSize /\ next * BlockSize \in Nat
    BY <1>1, <1>2
  <2>2. next * BlockSize <= MaxBlocks * BlockSize /\ next <= next * BlockSize
    BY <1>1, <1>2
  <2>3. next \in Nat /\ next <= MaxBlocks
    BY <1>1, <1>2
  <2>4. /\ seq_nr' = (seq_nr + BlockSize) % UintRange
        /\ injected_block_cnt' = next % UintRange
        /\ sending' = Filling
    BY <1>4 DEF transmit_packet
  <2> HIDE DEF next
  <2>5. next * BlockSize < UintRange
    <3>1. MaxBlocks * BlockSize \in Nat
      BY <1>2
    <3> QED
      BY <1>2, <2>1, <2>2, <3>1
  <2>6. seq_nr' = next * BlockSize
    <3>1. (next * BlockSize) % UintRange = next * BlockSize
      BY <1>2, <2>1, <2>5
    <3> QED
      BY <2>1, <2>4, <3>1
  <2>7. injected_block_cnt' = next
    <3>1. next < UintRange
      BY <1>2, <2>1, <2>2, <2>3, <2>5
    <3> QED
      BY <1>2, <2>3, <2>4, <3>1
  <2>8. BlocksBegun' = BlocksBegun
    BY <1>1, <1>2, <2>4, <2>7 DEF BlocksBegun, Filling, Slots, next
  <2> QED
    BY <2>3, <2>4, <2>6, <2>7, <2>8 DEF SeqAligned
<1> QED
  BY <1>3, <1>4

\* The transmitter's other steps do so as well.
LEMMA AlignedNext ==
    ASSUME MaxBlocks * BlockSize < UintRange, AirTypeOK, SeqAligned, [Next]_vars
    PROVE  SeqAligned'
<1>1. CASE Fill \/ Eof \/ Restart
  BY <1>1, BlockAssumption, AirAssumption
     DEF Fill, Eof, Restart, ReadStdin, ReadEof, AirRestart, SeqAligned, BlockSize
<1>2. CASE Transmit
  BY <1>2, TransmitAligned DEF Transmit
<1>3. CASE UNCHANGED airVars
  BY <1>3 DEF airVars, SeqAligned
<1> QED
  BY <1>1, <1>2, <1>3 DEF Next, process_packet, vars

\* The initial state satisfies the invariant.
LEMMA OwnLinkInit == Init => OwnLinkInv
<1> SUFFICES ASSUME Init PROVE OwnLinkInv
  OBVIOUS
<1>1. LinkTypeInv /\ OwnInv
  BY LinkTypeInit, GndInitInv DEF Init
<1>2. SeqAligned
  BY BlockAssumption, AirAssumption DEF Init, AirInit, SeqAligned, BlockSize
<1>3. InQueues(OwnFrames)
  BY DEF Init, InQueues
<1> QED
  BY <1>1, <1>2, <1>3 DEF OwnLinkInv

\* Every step of the link keeps the invariant.
LEMMA OwnLinkNext ==
    ASSUME BlockSize >= 2, MaxBlocks * BlockSize < UintRange, OwnLinkInv, [Next]_vars
    PROVE  OwnLinkInv'
<1>0. /\ LinkTypeInv /\ TypeOK /\ AirTypeOK /\ SeqAligned /\ OwnInv /\ InQueues(OwnFrames)
  BY DEF OwnLinkInv, LinkTypeInv, TypeOK
<1>1. LinkTypeInv' /\ SeqAligned'
  BY <1>0, LinkTypeNext, AlignedNext
<1>2. InQueues(OwnFrames)'
  <2>1. ASSUME sending \in Slots PROVE IntactFrame(TxFrame) \in OwnFrames
    <3>1. IntactFrame(TxFrame) \in Frames
      BY <1>0, <2>1, TxFrameType
    <3> QED
      BY <1>0, <2>1, <3>1, TxFrameInPlace DEF OwnFrames
  <2>2. \A s \in DamagedSeqs : DamagedFrame(s) \in OwnFrames
    BY DamagedFrameType DEF DamagedFrame, FrameInPlace, OwnFrames
  <2> QED
    BY <1>0, <2>1, <2>2, QueuesKept DEF InQueues
<1>3. CASE UNCHANGED gndVars
  <2>1. OwnInv'
    BY <1>0, <1>3 DEF gndVars, OwnInv, GndTypeOK, OwnBuffers, OwnEntry
  <2> QED
    BY <1>1, <1>2, <2>1 DEF OwnLinkInv
<1>4. ASSUME NEW a \in Adapters, process_packet(a) PROVE OwnLinkInv'
  <2>1. PICK f \in OwnFrames : /\ f.seq \in Seqs /\ f.crc \in BOOLEAN /\ f.pay \in Payloads
                               /\ process_video_payload(f.seq, f.crc, f.pay)
    BY <1>0, <1>4, PacketTaken
  <2>2. OwnInv'
    BY <1>0, <2>1, HandlerOwn DEF OwnFrames, FrameInPlace
  <2> QED
    BY <1>1, <1>2, <2>2 DEF OwnLinkInv
<1> QED
  BY <1>3, <1>4, ReceiverIdle

\* What the receiver counts as a correct packet of the buffered block is a
\* packet of that block, at its place, for all losses, duplicates, delays,
\* damages and restarts, as long as the sequence number does not wrap.
THEOREM LinkSlotsHoldOwnBlock ==
    ASSUME BlockSize >= 2, MaxBlocks * BlockSize < UintRange
    PROVE  Spec => []SlotsHoldOwnBlock
<1>1. OwnLinkInv /\ [Next]_vars => OwnLinkInv'
  BY OwnLinkNext
<1>2. ASSUME OwnLinkInv, NEW p \in Slots, Good(buf.slots[p])
      PROVE  InPlace(buf.slots[p].data, buf.block_num, p)
  <2>1. PICK o \in OriginsOf(buf.block_num) : buf.slots[p].data = [org |-> o, pos |-> p]
    BY <1>2 DEF OwnLinkInv, OwnInv, OwnBuffers, HoldsOnly
  <2> QED
    BY <2>1 DEF InPlace, OriginsOf
<1>3. OwnLinkInv => SlotsHoldOwnBlock
  BY <1>2 DEF SlotsHoldOwnBlock
<1> QED
  BY <1>1, <1>3, OwnLinkInit, PTL DEF Spec

\* What is published under a block number belongs to that block, in order, or
\* is the junk of a damaged frame, for all losses, duplicates, delays, damages
\* and restarts: what earlier blocks left in the buffer never leaves again.
THEOREM LinkPublishesOwnBlock ==
    ASSUME BlockSize >= 2, MaxBlocks * BlockSize < UintRange
    PROVE  Spec => []PublishesOwnBlock
<1>1. OwnLinkInv /\ [Next]_vars => OwnLinkInv'
  BY OwnLinkNext
<1>2. OwnLinkInv => PublishesOwnBlock
  BY DEF OwnLinkInv, OwnInv, OwnEntry, PublishesOwnBlock
<1> QED
  BY <1>1, <1>2, OwnLinkInit, PTL DEF Spec

-----------------------------------------------------------------------------
(* Frames of other blocks.                                                 *)

\* A frame of a block that is neither buffered nor new changes nothing: not
\* the buffer, not the window, no counter and no output.
THEOREM LinkForeignFrameIgnored ==
    ASSUME BlockSize \notin PastEndWords
    PROVE  Spec => ForeignFrameIgnored
<1> DEFINE Ignored(a) ==
              LET f   == Head(rxq[a])
                  blk == BlockOf(f.seq)
              IN  /\ Len(rxq'[a]) < Len(rxq[a])
                  /\ blk # Uint(buf.block_num)
                  /\ f.crc => blk < Uint(max_block_num) /\ ~TxRestart(blk)
                  => UNCHANGED gndVars
<1>1. ASSUME TypeOK, [Next]_vars, NEW a \in Adapters PROVE Ignored(a)
  <2> DEFINE f   == Head(rxq[a])
             blk == BlockOf(f.seq)
  <2> SUFFICES ASSUME Len(rxq'[a]) < Len(rxq[a]),
                      blk # Uint(buf.block_num),
                      f.crc => blk < Uint(max_block_num) /\ ~TxRestart(blk)
               PROVE  UNCHANGED gndVars
    OBVIOUS
  <2>1. CASE UNCHANGED gndVars
    BY <2>1
  <2>2. ASSUME NEW c \in Adapters, process_packet(c) PROVE UNCHANGED gndVars
    <3>1. c = a
      <4>1. rxq' = [rxq EXCEPT ![c] = Tail(@)] /\ rxq \in [Adapters -> Seq(Frames)]
        BY <1>1, <2>2 DEF process_packet, TypeOK
      <4>2. c # a => rxq'[a] = rxq[a] /\ Len(rxq[a]) \in Nat
        BY <4>1
      <4> QED
        BY <4>2
    <3>2. PICK g \in Frames : /\ g = f
                              /\ g.seq \in Seqs /\ g.crc \in BOOLEAN /\ g.pay \in Payloads
                              /\ process_video_payload(g.seq, g.crc, g.pay)
      BY <1>1, <2>2, <3>1, PacketTaken, AnyFrame
    <3>3. PICK st1, b, st2 : Stages(g.seq, g.crc, g.pay, st1, b, st2)
      BY <3>2, HandlerStages
    <3>4. blk \in Seqs /\ max_block_num \in Int /\ past_end # BlockSize
      BY <1>1, <3>2, SeqSplit DEF TypeOK, GndTypeOK
    <3>5. ~((NewerBlock(blk) \/ TxRestart(blk)) /\ g.crc)
      BY <3>2, <3>4, BlockAssumption DEF NewerBlock, Seqs, Uint
    <3>6. st1 = Current /\ b = st1.buf /\ st2 = WithBuffer(st1, b)
      BY <3>2, <3>3, <3>4, <3>5 DEF Stages, Current
    <3> QED
      BY <3>3, <3>6 DEF Stages, Current, WithBuffer, gndVars
  <2> QED
    BY <1>1, <2>1, <2>2, ReceiverIdle
<1> HIDE DEF Ignored
<1>2. TypeOK /\ [Next]_vars => [\A a \in Adapters : Ignored(a)]_vars
  BY <1>1
<1>3. Spec => [][\A a \in Adapters : Ignored(a)]_vars
  BY <1>2, LinkTypeCorrect, PTL DEF Spec
<1> QED
  BY <1>3 DEF ForeignFrameIgnored, Ignored

-----------------------------------------------------------------------------
(* As long as no frame arrives damaged.                                    *)

IntactFrames == {f \in Frames : f.crc}

\* packet_buffer_len is the number of packets in the buffer, however many
\* copies of them the adapters deliver.
THEOREM LinkLenCountsStored ==
    ASSUME BlockSize >= 2, DamagedSeqs = {}
    PROVE  Spec => []LenCountsStored
<1> DEFINE Inv == InQueues(IntactFrames) /\ buf \in CountedBuffers
<1>1. Init => Inv
  BY GndInitInv DEF Init, InQueues
<1>2. ASSUME TypeOK, Inv, [Next]_vars PROVE Inv'
  <2>1. InQueues(IntactFrames)'
    <3>1. sending \in Slots => IntactFrame(TxFrame) \in IntactFrames
      BY <1>2, TxFrameType DEF IntactFrames, IntactFrame, TypeOK
    <3> QED
      BY <1>2, <3>1, QueuesKept DEF InQueues
  <2>2. CASE UNCHANGED gndVars
    BY <1>2, <2>1, <2>2 DEF gndVars, CountedBuffers
  <2>3. ASSUME NEW a \in Adapters, process_packet(a) PROVE Inv'
    <3>1. PICK f \in IntactFrames : /\ f.seq \in Seqs /\ f.crc \in BOOLEAN /\ f.pay \in Payloads
                                    /\ process_video_payload(f.seq, f.crc, f.pay)
      BY <1>2, <2>3, PacketTaken
    <3>2. f.crc = TRUE
      BY <3>1 DEF IntactFrames
    <3>3. (buf \in CountedBuffers)'
      BY <1>2, <3>1, <3>2, HandlerCounted DEF TypeOK
    <3> QED
      BY <2>1, <3>3
  <2> QED
    BY <1>2, <2>2, <2>3, ReceiverIdle
<1>3. Inv => LenCountsStored
  BY DEF CountedBuffers, ValidSlots, LenCountsStored
<1> HIDE DEF Inv
<1>4. TypeOK /\ Inv /\ [Next]_vars => Inv'
  BY <1>2
<1> QED
  BY <1>1, <1>3, <1>4, LinkTypeCorrect, PTL DEF Spec

-----------------------------------------------------------------------------
(* As long as no frame arrives damaged and the transmitter runs through.   *)

\* The frames of the first n blocks.
CalmFrames(n) ==
    {f \in Frames : /\ f.crc
                    /\ f.pay = [org |-> FirstRun(BlockOf(f.seq)), pos |-> PacketNum(f.seq)]
                    /\ BlockOf(f.seq) < n}

\* The frames that wait belong to blocks that were begun, and the receiver
\* holds and publishes such blocks.
CalmInv ==
    /\ LinkTypeInv
    /\ SeqAligned
    /\ epoch = 0
    /\ InQueues(CalmFrames(BlocksBegun))
    /\ buf \in IntactBuffers
    /\ \A i \in 1 .. Len(output) : IntactEntry(output[i])

\* The packet on the air belongs to the block that was begun last.
LEMMA TxFrameCalm ==
    ASSUME MaxBlocks * BlockSize < UintRange, AirTypeOK, SeqAligned, epoch = 0, sending \in Slots
    PROVE  IntactFrame(TxFrame) \in CalmFrames(BlocksBegun)
<1> DEFINE f == IntactFrame(TxFrame)
<1>1. f \in Frames
  BY TxFrameType
<1>2. BlockOf(f.seq) = injected_block_cnt /\ PacketNum(f.seq) = sending
  BY TxFrameSplit DEF IntactFrame
<1>3. f.crc /\ f.pay = [org |-> FirstRun(injected_block_cnt), pos |-> sending]
  BY DEF IntactFrame, TxFrame, FirstRun
<1>4. BlocksBegun = injected_block_cnt + 1 /\ injected_block_cnt \in Nat
  BY DEF BlocksBegun, AirTypeOK
<1> HIDE DEF f
<1>5. f \in CalmFrames(BlocksBegun)
  BY <1>1, <1>2, <1>3, <1>4 DEF CalmFrames
<1> QED
  BY <1>5 DEF f

\* Steps of the link begin one block at most, and end none.
LEMMA BegunNext ==
    ASSUME MaxBlocks * BlockSize < UintRange, MaxEpoch = 0,
           AirTypeOK, SeqAligned, epoch = 0, [Next]_vars
    PROVE  /\ BlocksBegun \in Nat /\ BlocksBegun <= MaxBlocks
           /\ BlocksBegun' = BlocksBegun \/ (BlocksBegun' = BlocksBegun + 1 /\ Fill)
           /\ epoch' = 0
<1>1. /\ injected_block_cnt \in Nat /\ sending \in Slots \cup {Filling} /\ Filling \notin Slots
      /\ injected_block_cnt <= MaxBlocks /\ MaxBlocks \in Nat /\ 0 \in Slots
      /\ sending # Filling => injected_block_cnt < MaxBlocks
  BY BlockAssumption, AirAssumption DEF AirTypeOK, SeqAligned, Slots, Filling, BlockSize
<1>2. BlocksBegun \in Nat /\ BlocksBegun <= MaxBlocks
  BY <1>1 DEF BlocksBegun
<1>3. CASE Fill
  <2>1. /\ sending = Filling /\ sending' \in {0, Filling} /\ epoch' = epoch
        /\ injected_block_cnt' = injected_block_cnt
    BY <1>3 DEF Fill, ReadStdin
  <2> QED
    BY <1>1, <1>2, <1>3, <2>1 DEF BlocksBegun
<1>4. CASE Eof
  BY <1>2, <1>4 DEF Eof, ReadEof, BlocksBegun
<1>5. CASE Restart
  BY <1>5 DEF Restart, AirRestart
<1>6. CASE Transmit
  BY <1>2, <1>6, TransmitAligned DEF Transmit, transmit_packet
<1>7. CASE UNCHANGED airVars
  BY <1>2, <1>7 DEF airVars, BlocksBegun
<1> QED
  BY <1>3, <1>4, <1>5, <1>6, <1>7 DEF Next, process_packet, vars

\* The initial state satisfies CalmInv, and every step keeps it.
LEMMA CalmInit == Init => CalmInv
<1> SUFFICES ASSUME Init PROVE CalmInv
  OBVIOUS
<1>1. InQueues(CalmFrames(BlocksBegun)) /\ epoch = 0
  BY DEF Init, InQueues, AirInit
<1> QED
  BY <1>1, OwnLinkInit, GndInitInv DEF Init, OwnLinkInv, CalmInv

LEMMA CalmNext ==
    ASSUME BlockSize >= 2, MaxBlocks * BlockSize < UintRange, MaxEpoch = 0, DamagedSeqs = {},
           CalmInv, [Next]_vars
    PROVE  CalmInv'
<1>0. /\ LinkTypeInv /\ TypeOK /\ AirTypeOK /\ GndTypeOK /\ SeqAligned /\ epoch = 0
      /\ InQueues(CalmFrames(BlocksBegun))
  BY DEF CalmInv, LinkTypeInv, TypeOK
<1>1. LinkTypeInv' /\ SeqAligned'
  BY <1>0, LinkTypeNext, AlignedNext
<1>2. /\ BlocksBegun \in Nat /\ BlocksBegun <= MaxBlocks /\ BlocksBegun' \in Nat
      /\ BlocksBegun <= BlocksBegun' /\ epoch' = 0
  BY <1>0, BegunNext
<1>3. InQueues(CalmFrames(BlocksBegun))'
  <2> DEFINE F == CalmFrames(BlocksBegun)
             G == CalmFrames(BlocksBegun')
  <2>1. \A a \in Adapters : \A i \in 1 .. Len(rxq'[a]) : rxq'[a][i] \in F
    <3>1. sending \in Slots => IntactFrame(TxFrame) \in F
      BY <1>0, TxFrameCalm
    <3> HIDE DEF F
    <3> QED
      BY <1>0, <3>1, QueuesKept DEF F
  <2>2. F \subseteq G
    BY <1>2, SeqSplit DEF CalmFrames, Frames, Seqs
  <2>3. \A a \in Adapters : \A i \in 1 .. Len(rxq'[a]) : rxq'[a][i] \in G
    BY <2>1, <2>2
  <2> QED
    BY <2>3 DEF InQueues, CalmFrames
<1>4. CASE UNCHANGED gndVars
  BY <1>1, <1>2, <1>3, <1>4 DEF CalmInv, gndVars, IntactBuffers, IntactEntry
<1>5. ASSUME NEW a \in Adapters, process_packet(a) PROVE CalmInv'
  <2>1. PICK f \in CalmFrames(BlocksBegun) :
            /\ f.seq \in Seqs /\ f.crc \in BOOLEAN /\ f.pay \in Payloads
            /\ process_video_payload(f.seq, f.crc, f.pay)
    BY <1>0, <1>5, PacketTaken
  <2>2. /\ f.crc = TRUE /\ BlockOf(f.seq) < BlocksBegun
        /\ f.pay = [org |-> FirstRun(BlockOf(f.seq)), pos |-> PacketNum(f.seq)]
    BY <2>1 DEF CalmFrames
  <2>3. 2 * (BlockOf(f.seq) + 1) < UintRange
    BY <1>2, <2>1, <2>2, BlocksFit, SeqSplit, AirAssumption
  <2>4. /\ (buf \in IntactBuffers)'
        /\ (\A i \in 1 .. Len(output) : IntactEntry(output[i]))'
    BY <1>0, <2>1, <2>2, <2>3, HandlerIntact DEF CalmInv
  <2> QED
    BY <1>1, <1>2, <1>3, <2>4 DEF CalmInv
<1> QED
  BY <1>4, <1>5, ReceiverIdle

\* A block that is not counted as damaged is published complete and intact,
\* whichever packets were lost and in whichever order the others came.
THEOREM LinkUndamagedIsIntact ==
    ASSUME BlockSize >= 2, MaxBlocks * BlockSize < UintRange, MaxEpoch = 0, DamagedSeqs = {}
    PROVE  Spec => []UndamagedIsIntact
<1>1. CalmInv /\ [Next]_vars => CalmInv'
  BY CalmNext
<1>2. CalmInv => UndamagedIsIntact
  BY DEF CalmInv, IntactEntry, FirstRun, UndamagedIsIntact
<1> QED
  BY <1>1, <1>2, CalmInit, PTL DEF Spec

-----------------------------------------------------------------------------
(* The video link is a LossyStream.                                        *)

Reports(out) == {i \in 1 .. Len(out) : out[i] = RestartEntry}

\* The place of the last report of a restart, and the blocks published since.
LastReport(out) ==
    IF Reports(out) = {} THEN 0
    ELSE CHOOSE i \in Reports(out) : \A j \in Reports(out) : j <= i

PublishedSince(out) ==
    [i \in 1 .. Len(out) - LastReport(out) |-> out[LastReport(out) + i].blk + 1]

\* A set of numbers up to n has a largest one.
LEMMA LargestExists ==
    ASSUME NEW n \in Nat, NEW T, T \subseteq 1 .. n, T # {}
    PROVE  \E i \in T : \A j \in T : j <= i
<1> DEFINE U == {n - i : i \in T}
<1>1. U \subseteq Nat /\ U # {}
  <2>1. \A i \in T : n - i \in Nat
    OBVIOUS
  <2>2. PICK i : i \in T
    OBVIOUS
  <2>3. n - i \in U
    BY <2>2
  <2> QED
    BY <2>1, <2>3
<1>2. PICK u \in U : \A v \in U : u <= v
  BY <1>1, NatLeast
<1>3. PICK i \in T : u = n - i
  BY <1>2
<1>4. ASSUME NEW j \in T PROVE j <= i
  <2>1. u <= n - j
    BY <1>2
  <2> QED
    BY <1>3, <2>1
<1> QED
  BY <1>4

\* The last report is the only one with no report behind it.
LEMMA LastReportIs ==
    ASSUME NEW out \in Seq(OutputEntries), NEW k \in 0 .. Len(out),
           k > 0 => out[k] = RestartEntry,
           \A i \in 1 .. Len(out) : i > k => out[i] # RestartEntry
    PROVE  LastReport(out) = k
<1>1. Len(out) \in Nat
  OBVIOUS
<1>2. CASE k = 0
  BY <1>1, <1>2 DEF LastReport, Reports
<1>3. CASE k > 0
  <2>1. k \in Reports(out) /\ \A j \in Reports(out) : j <= k
    BY <1>1, <1>3 DEF Reports
  <2> DEFINE m == CHOOSE i \in Reports(out) : \A j \in Reports(out) : j <= i
  <2>2. m \in Reports(out) /\ \A j \in Reports(out) : j <= m
    BY <2>1
  <2>3. LastReport(out) = m
    BY <2>1 DEF LastReport
  <2> HIDE DEF m
  <2>4. m = k
    BY <1>1, <2>1, <2>2 DEF Reports
  <2> QED
    BY <2>3, <2>4
<1> QED
  BY <1>2, <1>3

\* Behind the last report there are blocks only.
LEMMA LastReportFacts ==
    ASSUME NEW out \in Seq(OutputEntries)
    PROVE  /\ LastReport(out) \in 0 .. Len(out)
           /\ LastReport(out) > 0 => out[LastReport(out)] = RestartEntry
           /\ \A i \in 1 .. Len(out) : i > LastReport(out) =>
                 out[i] # RestartEntry /\ out[i] \in BlockEntries
<1>1. Len(out) \in Nat /\ \A i \in 1 .. Len(out) : out[i] \in OutputEntries
  OBVIOUS
<1>2. CASE Reports(out) = {}
  BY <1>1, <1>2 DEF LastReport, Reports, OutputEntries
<1>3. CASE Reports(out) # {}
  <2>1. \E i \in Reports(out) : \A j \in Reports(out) : j <= i
    BY <1>1, <1>3, LargestExists DEF Reports
  <2> DEFINE m == CHOOSE i \in Reports(out) : \A j \in Reports(out) : j <= i
  <2>2. m \in Reports(out) /\ \A j \in Reports(out) : j <= m
    BY <2>1
  <2>3. LastReport(out) = m
    BY <1>3 DEF LastReport
  <2> HIDE DEF m
  <2>4. /\ m \in 1 .. Len(out) /\ out[m] = RestartEntry
        /\ \A i \in 1 .. Len(out) : i > m => out[i] # RestartEntry
    BY <1>1, <2>2 DEF Reports
  <2> QED
    BY <1>1, <2>3, <2>4 DEF OutputEntries
<1> QED
  BY <1>2, <1>3

\* Functions on 1 .. m are sequences.
LEMMA FunctionIsSeq ==
    ASSUME NEW m \in Nat, NEW f \in [1 .. m -> Int]
    PROVE  f \in Seq(Int) /\ Len(f) = m
OBVIOUS

\* A block is not a report.
LEMMA BlockIsNoReport == \A e \in BlockEntries : e # RestartEntry /\ IsBlock(e)
BY DEF BlockEntries, RestartEntry, IsBlock

\* A further report makes a new beginning.
LEMMA FurtherReport ==
    ASSUME NEW out \in Seq(OutputEntries), NEW new, new = Append(out, RestartEntry)
    PROVE  LastReport(new) = Len(new) /\ PublishedSince(new) = <<>>
<1>1. /\ new \in Seq(OutputEntries) /\ Len(out) \in Nat /\ Len(new) = Len(out) + 1
      /\ new[Len(new)] = RestartEntry
  BY DEF OutputEntries
<1>2. LastReport(new) = Len(new)
  <2>1. /\ Len(new) \in 0 .. Len(new)
        /\ \A i \in 1 .. Len(new) : i > Len(new) => new[i] # RestartEntry
    BY <1>1
  <2> QED
    BY <1>1, <2>1, LastReportIs
<1>3. 1 .. Len(new) - LastReport(new) = {}
  BY <1>1, <1>2
<1> QED
  BY <1>2, <1>3 DEF PublishedSince

\* A further block is published behind the others.
LEMMA FurtherBlock ==
    ASSUME NEW out \in Seq(OutputEntries), NEW e \in BlockEntries, NEW new, new = Append(out, e)
    PROVE  /\ LastReport(new) = LastReport(out)
           /\ PublishedSince(new) = Append(PublishedSince(out), e.blk + 1)
<1> DEFINE n == Len(out)
           k == LastReport(out)
<1>1. /\ new \in Seq(OutputEntries) /\ n \in Nat /\ Len(new) = n + 1
      /\ new[n + 1] = e /\ \A i \in 1 .. n : new[i] = out[i]
  BY DEF OutputEntries
<1>2. /\ k \in 0 .. n /\ (k > 0 => out[k] = RestartEntry)
      /\ \A i \in 1 .. n : i > k => out[i] # RestartEntry /\ out[i] \in BlockEntries
  BY LastReportFacts
<1> HIDE DEF n, k
<1>3. LastReport(new) = k
  <2>1. \A i \in 1 .. n + 1 : i \in 1 .. n \/ i = n + 1
    BY <1>1
  <2>2. \A i \in 1 .. Len(new) : i > k => new[i] # RestartEntry
    BY <1>1, <1>2, <2>1, BlockIsNoReport
  <2>3. k \in 0 .. Len(new) /\ (k > 0 => new[k] = RestartEntry)
    BY <1>1, <1>2
  <2> QED
    BY <1>1, <2>2, <2>3, LastReportIs
<1>4. PublishedSince(out) = [i \in 1 .. n - k |-> out[k + i].blk + 1]
  BY DEF PublishedSince, n, k
<1>5. PublishedSince(new) = [i \in 1 .. (n + 1) - k |-> new[k + i].blk + 1]
  BY <1>1, <1>3 DEF PublishedSince
<1>6. \A x \in BlockEntries : x.blk + 1 \in Int
  BY DEF BlockEntries
<1>7. \A i \in 1 .. n - k : k + i \in 1 .. n /\ k + i > k /\ out[k + i].blk + 1 \in Int
  BY <1>1, <1>2, <1>6
<1>8. /\ PublishedSince(out) \in Seq(Int) /\ Len(PublishedSince(out)) = n - k
      /\ \A i \in 1 .. n - k : PublishedSince(out)[i] = out[k + i].blk + 1
  <2>1. n - k \in Nat
    BY <1>1, <1>2
  <2> QED
    BY <1>4, <1>7, <2>1
<1>9. \A i \in 1 .. (n + 1) - k :
         new[k + i].blk + 1 = IF i = (n + 1) - k THEN e.blk + 1 ELSE out[k + i].blk + 1
  <2> SUFFICES ASSUME NEW i \in 1 .. (n + 1) - k
               PROVE  new[k + i] = IF i = (n + 1) - k THEN e ELSE out[k + i]
    OBVIOUS
  <2>1. CASE i = (n + 1) - k
    BY <1>1, <1>2, <2>1
  <2>2. CASE i # (n + 1) - k
    BY <1>1, <1>2, <2>2
  <2> QED
    BY <2>1, <2>2
<1> DEFINE u == Append(PublishedSince(out), e.blk + 1)
           v == PublishedSince(new)
<1>10. /\ u \in Seq(Int) /\ Len(u) = (n + 1) - k
       /\ \A i \in 1 .. (n + 1) - k :
             u[i] = IF i = (n + 1) - k THEN e.blk + 1 ELSE out[k + i].blk + 1
  <2> DEFINE w == PublishedSince(out)
  <2>1. w \in Seq(Int) /\ Len(w) = n - k /\ e.blk + 1 \in Int
    BY <1>6, <1>8
  <2>2. \A i \in 1 .. n - k : w[i] = out[k + i].blk + 1
    BY <1>8
  <2> HIDE DEF w
  <2>3. /\ Append(w, e.blk + 1) \in Seq(Int) /\ Len(Append(w, e.blk + 1)) = Len(w) + 1
        /\ Append(w, e.blk + 1)[Len(w) + 1] = e.blk + 1
        /\ \A i \in 1 .. Len(w) : Append(w, e.blk + 1)[i] = w[i]
    BY <2>1
  <2>4. \A i \in 1 .. (n + 1) - k : i = (n + 1) - k \/ i \in 1 .. n - k
    BY <1>1, <1>2
  <2>5. (n + 1) - k = Len(w) + 1
    BY <1>1, <1>2, <2>1
  <2> QED
    BY <2>1, <2>2, <2>3, <2>4, <2>5 DEF w
<1>11. v \in Seq(Int) /\ Len(v) = (n + 1) - k
  <2>1. (n + 1) - k \in Nat
    BY <1>1, <1>2
  <2>2. \A i \in 1 .. (n + 1) - k : new[k + i].blk + 1 \in Int
    <3>1. \A i \in 1 .. (n + 1) - k : i # (n + 1) - k => i \in 1 .. n - k
      BY <1>1, <1>2
    <3> QED
      BY <1>6, <1>7, <1>9, <3>1
  <2>3. v \in [1 .. (n + 1) - k -> Int]
    BY <1>5, <2>2
  <2> HIDE DEF v
  <2> QED
    BY <2>1, <2>3, FunctionIsSeq
<1>12. \A i \in 1 .. Len(u) : u[i] = v[i]
  BY <1>5, <1>9, <1>10
<1> HIDE DEF u, v
<1>13. u = v
  BY <1>10, <1>11, <1>12, SeqEqual
<1> QED
  BY <1>3, <1>13 DEF u, v, k

\* What was published since the last report is older than block m.
DeliveredOlder(out, m) ==
    \A i \in 1 .. Len(out) : i > LastReport(out) => out[i].blk \in Nat /\ out[i].blk < m

\* The stream goes on with block n or an older one, which is newer than those
\* before it, or it starts over.
GoesOn(old, new, n) ==
    \/ new = old
    \/ new = <<>>
    \/ \E b \in 0 .. n : new = Append(old, b + 1) /\ \A i \in 1 .. Len(old) : old[i] < b + 1

\* The items of the stream are the blocks since the last report.
LEMMA PublishedOlder ==
    ASSUME NEW out \in Seq(OutputEntries), NEW m \in Int, DeliveredOlder(out, m)
    PROVE  \A i \in 1 .. Len(PublishedSince(out)) : PublishedSince(out)[i] < m + 1
<1> DEFINE k == LastReport(out)
<1>1. k \in 0 .. Len(out) /\ Len(out) \in Nat
  BY LastReportFacts
<1>2. \A i \in 1 .. Len(out) - k : k + i \in 1 .. Len(out) /\ k + i > k
  BY <1>1
<1>3. \A i \in 1 .. Len(out) - k : out[k + i].blk \in Nat /\ out[k + i].blk < m
  BY <1>2 DEF DeliveredOlder
<1> DEFINE w == PublishedSince(out)
           c == Len(out) - k
<1>4. w = [i \in 1 .. c |-> out[k + i].blk + 1] /\ c \in Nat
  BY <1>1 DEF PublishedSince
<1>5. w \in [1 .. c -> Int]
  BY <1>3, <1>4
<1>6. \A i \in 1 .. c : w[i] < m + 1
  BY <1>3, <1>4
<1> HIDE DEF w, c
<1>7. Len(w) = c
  BY <1>4, <1>5, FunctionIsSeq
<1> QED
  BY <1>6, <1>7 DEF w

\* Making room for block blk.
LEMMA RoomStream ==
    ASSUME NEW st \in HandlerStates, NEW blk \in Seqs, Int32(blk) = blk, NEW r \in BOOLEAN,
           st.buf.block_num = st.max, DeliveredOlder(st.output, st.max),
           ~r => st.max \in Nat /\ st.max < blk,
           NEW m, m = MakeRoom(st, blk, r)
    PROVE  /\ DeliveredOlder(m.output, m.max)
           /\ GoesOn(PublishedSince(st.output), PublishedSince(m.output), blk - 1)
           /\ m.max = blk /\ m.buf \in BlockBuffers
<1>1. /\ st.output \in Seq(OutputEntries) /\ st.buf \in BlockBuffers
      /\ m.max = blk /\ m.buf \in BlockBuffers /\ m.output \in Seq(OutputEntries)
      /\ r => m.output = Append(st.output, RestartEntry)
      /\ ~r /\ st.buf.block_num # -1 => m.output = Append(st.output, BlockEntry(st.buf))
  BY MakeRoomFacts DEF HandlerStates
<1>2. CASE r
  <2>1. LastReport(m.output) = Len(m.output) /\ PublishedSince(m.output) = <<>>
    BY <1>1, <1>2, FurtherReport
  <2>2. \A i \in 1 .. Len(m.output) : ~(i > Len(m.output))
    BY <1>1
  <2> QED
    BY <1>1, <2>1, <2>2 DEF DeliveredOlder, GoesOn
<1>3. CASE ~r
  <2> DEFINE e == BlockEntry(st.buf)
  <2>1. e \in BlockEntries /\ e.blk = st.max
    BY <1>1, BlockEntryType DEF BlockEntry
  <2>2. m.output = Append(st.output, e)
    BY <1>1, <1>3
  <2> HIDE DEF e
  <2>3. /\ LastReport(m.output) = LastReport(st.output)
        /\ PublishedSince(m.output) = Append(PublishedSince(st.output), st.max + 1)
    BY <1>1, <2>1, <2>2, FurtherBlock
  <2>4. DeliveredOlder(m.output, blk)
    <3>1. /\ Len(m.output) = Len(st.output) + 1 /\ m.output[Len(st.output) + 1] = e
          /\ \A i \in 1 .. Len(st.output) : m.output[i] = st.output[i]
      BY <1>1, <2>1, <2>2 DEF OutputEntries
    <3> SUFFICES ASSUME NEW i \in 1 .. Len(m.output), i > LastReport(st.output)
                 PROVE  m.output[i].blk \in Nat /\ m.output[i].blk < blk
      BY <2>3 DEF DeliveredOlder
    <3>2. CASE i = Len(st.output) + 1
      BY <1>3, <2>1, <3>1, <3>2
    <3>3. CASE i \in 1 .. Len(st.output)
      <4>1. st.output[i].blk \in Nat /\ st.output[i].blk < st.max
        BY <3>3 DEF DeliveredOlder
      <4> QED
        BY <1>3, <3>1, <3>3, <4>1 DEF Seqs
    <3> QED
      BY <1>1, <3>1, <3>2, <3>3
  <2>5. st.max \in 0 .. blk - 1
    BY <1>3 DEF Seqs
  <2>6. \A i \in 1 .. Len(PublishedSince(st.output)) :
            PublishedSince(st.output)[i] < st.max + 1
    BY <1>1, <1>3, PublishedOlder
  <2> QED
    BY <1>1, <2>3, <2>4, <2>5, <2>6 DEF GoesOn
<1> QED
  BY <1>2, <1>3

\* One call publishes a block up to the packet's, or reports a restart, or
\* neither.
LEMMA HandlerStream ==
    ASSUME BlockSize >= 2, BlockSize \notin PastEndWords, GndTypeOK,
           buf.block_num = max_block_num, buf \in IntactBuffers,
           DeliveredOlder(output, max_block_num),
           NEW seq \in Seqs, NEW pay \in Payloads, 2 * (BlockOf(seq) + 1) < UintRange,
           process_video_payload(seq, TRUE, pay)
    PROVE  /\ DeliveredOlder(output', max_block_num')
           /\ GoesOn(PublishedSince(output), PublishedSince(output'), BlockOf(seq))
<1> DEFINE blk == BlockOf(seq)
           r   == TxRestart(blk)
<1>1. blk \in Seqs /\ blk + 1 \in Seqs /\ blk \in Nat
  BY BlockNumbers
<1>2. Int32(blk) = blk /\ Int32(blk + 1) = blk + 1
  BY <1>1, BlockAssumption DEF Int32
<1>3. /\ Current.buf = buf /\ Current.max = max_block_num /\ Current.output = output
      /\ Current \in HandlerStates /\ PacketNum(seq) \in Slots /\ r \in BOOLEAN
      /\ buf \in BlockBuffers
  BY HandlerInputs DEF Current, GndTypeOK
<1>4. max_block_num = -1 \/ max_block_num \in Nat
  BY DEF IntactBuffers
<1>5. max_block_num # -1 /\ Uint(max_block_num) <= blk => max_block_num = Uint(max_block_num)
  BY <1>1, <1>3, <1>4, BlockAssumption DEF Uint, Seqs
<1>6. CASE JustStores(seq, TRUE, pay)
  BY <1>6 DEF JustStores, GoesOn
<1>7. CASE OpensBlock(seq, TRUE, pay)
  <2> DEFINE m == MakeRoom(Current, blk, r)
  <2>1. /\ ~r => max_block_num \in Nat /\ max_block_num < blk
        /\ output' = m.output /\ max_block_num' = m.max
    <3>1. output' = m.output /\ max_block_num' = m.max
      BY <1>7 DEF OpensBlock, BecomesState, WithBuffer
    <3>2. ~r => max_block_num # -1 /\ Uint(max_block_num) < blk
      BY <1>7 DEF OpensBlock
    <3> HIDE DEF r, m, blk
    <3>3. ~r => max_block_num \in Nat /\ max_block_num < blk
      BY <1>1, <1>4, <1>5, <3>2 DEF Uint
    <3> QED
      BY <3>1, <3>3
  <2> HIDE DEF blk, r
  <2>2. /\ DeliveredOlder(m.output, m.max)
        /\ GoesOn(PublishedSince(output), PublishedSince(m.output), blk - 1)
    BY <1>1, <1>2, <1>3, <2>1, RoomStream
  <2> HIDE DEF m
  <2>3. 0 .. blk - 1 \subseteq 0 .. blk
    BY <1>1
  <2>4. GoesOn(PublishedSince(output), PublishedSince(m.output), blk)
    BY <2>2, <2>3 DEF GoesOn
  <2> QED
    BY <2>1, <2>2, <2>4 DEF blk
<1>8. CASE CompletesBlock(seq, TRUE, pay)
  <2> DEFINE kept == WithBuffer(Current, Stored(seq, TRUE, pay, buf))
             nb   == blk + 1
             m    == MakeRoom(kept, nb, FALSE)
  <2>1. /\ max_block_num \in Nat /\ max_block_num < nb
        /\ output' = m.output /\ max_block_num' = m.max
    BY <1>1, <1>4, <1>5, <1>8 DEF CompletesBlock, BecomesState
  <2>2. /\ kept.buf.block_num = kept.max /\ kept.max = max_block_num /\ kept.output = output
        /\ kept \in HandlerStates
    <3> DEFINE b == Stored(seq, TRUE, pay, buf)
    <3>1. b \in BlockBuffers /\ b.block_num = buf.block_num
      BY <1>3, StoreFacts DEF Stored
    <3>2. kept = [buf |-> b, max |-> Current.max, output |-> Current.output, status |-> Current.status]
      BY DEF WithBuffer
    <3> HIDE DEF b, kept
    <3>3. kept \in HandlerStates /\ kept.buf = b /\ kept.max = Current.max /\ kept.output = Current.output
      BY <1>3, <3>1, <3>2 DEF HandlerStates
    <3> QED
      BY <1>1, <1>3, <3>1, <3>3
  <2>3. nb \in Seqs /\ Int32(nb) = nb /\ nb - 1 = blk
    BY <1>1, <1>2
  <2> HIDE DEF kept, nb, blk
  <2>4. /\ DeliveredOlder(m.output, m.max)
        /\ GoesOn(PublishedSince(output), PublishedSince(m.output), nb - 1)
    BY <2>1, <2>2, <2>3, RoomStream
  <2> HIDE DEF m
  <2> QED
    BY <2>1, <2>3, <2>4 DEF blk
<1> QED
  BY <1>6, <1>7, <1>8, HandlerCases

\* CalmInv and OrderInv with the order within the stream.
StreamInv ==
    /\ CalmInv
    /\ OrderInv
    /\ DeliveredOlder(output, max_block_num)

LEMMA PublishedIs == Published = PublishedSince(output)
BY DEF Published, PublishedSince, LastReport, Reports

\* A step of the link is a step of the stream, and keeps StreamInv.
LEMMA StreamNext ==
    ASSUME BlockSize >= 2, BlockSize \notin PastEndWords, MaxBlocks * BlockSize < UintRange,
           MaxEpoch = 0, DamagedSeqs = {}, StreamInv, [Next]_vars
    PROVE  StreamInv' /\ [Stream!Next]_<<BlocksBegun, Published>>
<1>1. /\ CalmInv /\ OrderInv /\ LinkTypeInv /\ TypeOK /\ AirTypeOK /\ GndTypeOK /\ SeqAligned
      /\ epoch = 0 /\ InQueues(CalmFrames(BlocksBegun)) /\ buf \in IntactBuffers
      /\ DeliveredOlder(output, max_block_num) /\ buf.block_num = max_block_num
  BY DEF StreamInv, CalmInv, OrderInv, LinkTypeInv, TypeOK
<1>2. CalmInv' /\ OrderInv'
  BY <1>1, CalmNext, LinkOrderNext
<1>3. /\ BlocksBegun \in Nat /\ BlocksBegun <= MaxBlocks
      /\ BlocksBegun' = BlocksBegun \/ (BlocksBegun' = BlocksBegun + 1 /\ Fill)
  BY <1>1, BegunNext
<1>4. Published = PublishedSince(output) /\ Published' = PublishedSince(output')
  <2>1. Published' = PublishedSince(output')
    BY DEF Published, PublishedSince, LastReport, Reports, RestartEntry
  <2> QED
    BY <2>1, PublishedIs
<1>5. CASE UNCHANGED gndVars
  <2>1. DeliveredOlder(output, max_block_num)' /\ Published' = Published
    BY <1>1, <1>4, <1>5 DEF gndVars, DeliveredOlder, LastReport, Reports, RestartEntry
  <2> QED
    BY <1>2, <1>3, <2>1 DEF StreamInv, Stream!Next, Stream!Send
<1>6. ASSUME NEW a \in Adapters, process_packet(a)
      PROVE  StreamInv' /\ [Stream!Next]_<<BlocksBegun, Published>>
  <2>1. PICK f \in CalmFrames(BlocksBegun) :
            /\ f.seq \in Seqs /\ f.crc \in BOOLEAN /\ f.pay \in Payloads
            /\ process_video_payload(f.seq, f.crc, f.pay)
    BY <1>1, <1>6, PacketTaken
  <2> DEFINE blk == BlockOf(f.seq)
  <2>2. f.crc = TRUE /\ blk < BlocksBegun /\ blk \in Nat
    BY <2>1, SeqSplit DEF CalmFrames
  <2>3. 2 * (blk + 1) < UintRange
    BY <1>3, <2>1, <2>2, BlocksFit, AirAssumption
  <2>4. /\ DeliveredOlder(output', max_block_num')
        /\ GoesOn(PublishedSince(output), PublishedSince(output'), blk)
    BY <1>1, <2>1, <2>2, <2>3, HandlerStream
  <2>5. GoesOn(Published, Published', blk)
    BY <1>4, <2>4
  <2>6. BlocksBegun' = BlocksBegun
    BY <1>6 DEF process_packet, airVars, BlocksBegun, Slots, BlockSize
  <2> HIDE DEF blk
  <2>7. [Stream!Next]_<<BlocksBegun, Published>>
    <3>1. CASE Published' = Published
      BY <2>6, <3>1
    <3>2. CASE Published' = <<>>
      BY <2>6, <3>2 DEF Stream!Next, Stream!StartOver
    <3>3. CASE \E b \in 0 .. blk : /\ Published' = Append(Published, b + 1)
                                   /\ \A i \in 1 .. Len(Published) : Published[i] < b + 1
      <4>1. PICK b \in 0 .. blk : /\ Published' = Append(Published, b + 1)
                                  /\ \A i \in 1 .. Len(Published) : Published[i] < b + 1
        BY <3>3
      <4>2. b + 1 \in 1 .. BlocksBegun
        BY <1>3, <2>2
      <4>3. Stream!Deliver(b + 1)
        BY <2>6, <4>1 DEF Stream!Deliver, Stream!Newer
      <4> QED
        BY <4>2, <4>3 DEF Stream!Next
    <3> QED
      BY <2>5, <3>1, <3>2, <3>3 DEF GoesOn
  <2>8. DeliveredOlder(output, max_block_num)'
    BY <2>4 DEF DeliveredOlder, LastReport, Reports, RestartEntry
  <2> QED
    BY <1>2, <2>7, <2>8 DEF StreamInv
<1> QED
  BY <1>5, <1>6, ReceiverIdle

\* While the transmitter runs through and no frame arrives damaged, the video
\* link implements LossyStream: what process_video_payload publishes was sent,
\* and between two reports of a restart it comes once and in order.
THEOREM LinkIsLossyStream ==
    ASSUME BlockSize >= 2, BlockSize \notin PastEndWords, MaxBlocks * BlockSize < UintRange,
           MaxEpoch = 0, DamagedSeqs = {}
    PROVE  Spec => VideoIsLossyStream
<1>1. Init => StreamInv /\ Stream!Init
  <2> SUFFICES ASSUME Init PROVE StreamInv /\ Stream!Init
    OBVIOUS
  <2>1. OrderInv /\ output = <<>> /\ Len(output) = 0
    BY GndInitInv DEF Init
  <2>2. DeliveredOlder(output, max_block_num)
    BY <2>1 DEF DeliveredOlder
  <2>3. Published = <<>>
    <3>1. LastReport(output) = 0
      BY <2>1 DEF LastReport, Reports
    <3> QED
      BY <2>1, <3>1, PublishedIs DEF PublishedSince
  <2>4. BlocksBegun = 0
    BY DEF Init, AirInit, BlocksBegun, Filling, Slots
  <2> QED
    BY <2>1, <2>2, <2>3, <2>4, CalmInit DEF StreamInv, Stream!Init
<1>2. StreamInv /\ [Next]_vars => StreamInv'
  BY StreamNext
<1>3. StreamInv /\ [Next]_vars => [Stream!Next]_<<BlocksBegun, Published>>
  BY StreamNext
<1> QED
  BY <1>1, <1>2, <1>3, PTL DEF Spec, VideoIsLossyStream, Stream!Spec

-----------------------------------------------------------------------------
(* Restarts of the transmitter, seen through one adapter.                  *)

\* A place in the life of the transmitter: a run and a block of it.
Places == [ep : Nat, blk : Nat]
NotBefore(o, p) == p.ep < o.ep \/ (p.ep = o.ep /\ p.blk <= o.blk)
Now == [ep |-> epoch, blk |-> injected_block_cnt]

\* An intact frame shows its place, a damaged one holds junk.
RunFrames ==
    {f \in Frames : IF f.crc THEN /\ f.pay.org \in Places /\ f.pay.org.blk = BlockOf(f.seq)
                                  /\ f.pay.org.blk < MaxBlocks /\ f.pay.pos = PacketNum(f.seq)
                             ELSE f.pay = Junk}

\* The intact frames of a queue are in order, from place p on up to place now.
InTurn(q, p, now) ==
    /\ \A i \in 1 .. Len(q) : q[i].crc =>
          NotBefore(q[i].pay.org, p) /\ NotBefore(now, q[i].pay.org)
    /\ \A i, j \in 1 .. Len(q) : i < j /\ q[i].crc /\ q[j].crc =>
          NotBefore(q[j].pay.org, q[i].pay.org)

\* The reports of a restart among the first i entries of the output.
ReportsIn(out, i) == {j \in 1 .. i : out[j] = RestartEntry}
ReportCount(out) == Cardinality(ReportsIn(out, Len(out)))

\* If as many restarts were reported as the run of place p can explain, then
\* the receiver waits for no block behind p.
ExplainedBy(n, max, p) == n <= p.ep \/ (n = p.ep + 1 /\ Uint(max) <= p.blk + 1)
ReportsExplained(p) == ExplainedBy(ReportCount(output), max_block_num, p)

\* What belongs to the runs since the n-th report.
SinceReport(n) == {o \in [ep : Int, blk : Nat] : o.ep >= n - 1}
RecentBuffers(n) ==
    {b \in BlockBuffers : EmptyIfUnused(b) /\ HoldsOnly(b.slots, SinceReport(n))}
RecentEntry(e, n) ==
    IsBlock(e) => \A d \in DataIdx :
        e.items[d] \in {NotPublished, Junk} \/ e.items[d].org.ep >= n - 1
AllRecent(out) ==
    \A i \in 1 .. Len(out) : RecentEntry(out[i], Cardinality(ReportsIn(out, i)))

RecentState(st) ==
    LET n == ReportCount(st.output)
    IN  /\ st.status["tx_restart_cnt"] <= n
        /\ st.buf \in RecentBuffers(n)
        /\ AllRecent(st.output)
GndRecent == RecentState(Current)

\* Since p, the place of the last intact frame that was taken, nothing came out
\* of turn; the reports so far are explained by the restarts up to p.
ReachedInTurn(p) ==
    /\ NotBefore(Now, p) /\ ReportsExplained(p)
    /\ \A a \in Adapters : InTurn(rxq[a], p, Now)

RunsInv ==
    /\ LinkTypeInv /\ SeqAligned /\ OrderInv /\ GndRecent
    /\ InQueues(RunFrames)
    /\ \E p \in Places : ReachedInTurn(p)

LEMMA PlacesOrdered ==
    ASSUME NEW p \in Places, NEW q \in Places, NEW r \in Places
    PROVE  /\ NotBefore(p, p)
           /\ NotBefore(q, p) /\ NotBefore(r, q) => NotBefore(r, p)
<1>1. p.ep \in Nat /\ p.blk \in Nat /\ q.ep \in Nat /\ q.blk \in Nat /\ r.ep \in Nat /\ r.blk \in Nat
  BY DEF Places
<1> QED
  BY <1>1 DEF NotBefore

\* The reports can be counted.
LEMMA ReportsFinite ==
    ASSUME NEW out \in Seq(OutputEntries)
    PROVE  IsFiniteSet(ReportsIn(out, Len(out))) /\ ReportCount(out) \in Nat
<1>1. IsFiniteSet(1 .. Len(out)) /\ ReportsIn(out, Len(out)) \in SUBSET (1 .. Len(out))
  BY FS_Interval DEF ReportsIn
<1> QED
  BY <1>1, FS_Subset, FS_CardinalityType DEF ReportCount

\* How an entry counts.
Extended(out, e, new) == new = Append(out, e)

LEMMA ReportsAppend ==
    ASSUME NEW out \in Seq(OutputEntries), NEW e \in OutputEntries, NEW new, Extended(out, e, new)
    PROVE  /\ \A i \in 1 .. Len(out) : new[i] = out[i] /\ ReportsIn(new, i) = ReportsIn(out, i)
           /\ ReportCount(out) \in Nat /\ Len(new) = Len(out) + 1 /\ new[Len(out) + 1] = e
           /\ e = RestartEntry => ReportCount(new) = ReportCount(out) + 1
           /\ e # RestartEntry => ReportCount(new) = ReportCount(out)
<1> DEFINE l == Len(out)
<1>1. l \in Nat /\ Len(new) = l + 1 /\ new[l + 1] = e /\ \A i \in 1 .. l : new[i] = out[i]
  BY DEF Extended
<1> HIDE DEF l
<1>2. \A i \in 0 .. l : ReportsIn(new, i) = ReportsIn(out, i)
  BY <1>1 DEF ReportsIn
<1>3. IsFiniteSet(ReportsIn(out, l)) /\ Cardinality(ReportsIn(out, l)) \in Nat
  BY ReportsFinite DEF ReportCount, l
<1>4. ReportsIn(new, l + 1) = IF e = RestartEntry THEN ReportsIn(out, l) \cup {l + 1} ELSE ReportsIn(out, l)
  BY <1>1 DEF ReportsIn
<1>5. l + 1 \notin ReportsIn(out, l)
  BY <1>1 DEF ReportsIn
<1>6. /\ e = RestartEntry => Cardinality(ReportsIn(new, l + 1)) = Cardinality(ReportsIn(out, l)) + 1
      /\ e # RestartEntry => Cardinality(ReportsIn(new, l + 1)) = Cardinality(ReportsIn(out, l))
  <2>1. CASE e = RestartEntry
    BY <1>3, <1>4, <1>5, <2>1, FS_AddElement
  <2>2. CASE e # RestartEntry
    BY <1>3, <1>4, <2>2
  <2> QED
    BY <2>1, <2>2
<1> QED
  BY <1>1, <1>2, <1>3, <1>6 DEF ReportCount, l

\* An entry that fits the number of reports keeps the entries recent.
LEMMA AppendRecent ==
    ASSUME NEW out \in Seq(OutputEntries), NEW e \in OutputEntries, AllRecent(out),
           NEW new, Extended(out, e, new), RecentEntry(e, ReportCount(new))
    PROVE  AllRecent(new)
<1>1. /\ \A i \in 1 .. Len(out) : new[i] = out[i] /\ ReportsIn(new, i) = ReportsIn(out, i)
      /\ Len(new) = Len(out) + 1 /\ new[Len(out) + 1] = e
  BY ReportsAppend
<1>0. Len(out) \in Nat
  OBVIOUS
<1>2. RecentEntry(e, Cardinality(ReportsIn(new, Len(new))))
  BY DEF ReportCount
<1>3. ASSUME NEW i \in 1 .. Len(new) PROVE RecentEntry(new[i], Cardinality(ReportsIn(new, i)))
  <2>1. CASE i \in 1 .. Len(out)
    BY <1>1, <2>1 DEF AllRecent
  <2>2. CASE i \notin 1 .. Len(out)
    <3>1. i = Len(new) /\ new[i] = e
      BY <1>0, <1>1, <2>2
    <3> QED
      BY <1>2, <3>1
  <2> QED
    BY <2>1, <2>2
<1> QED
  BY <1>3 DEF AllRecent

\* An empty buffer, and one that gets a packet of a recent run.
LEMMA EmptyIsRecent ==
    ASSUME NEW b \in BlockBuffers, \A p \in Slots : ~b.slots[p].valid, NEW n
    PROVE  b \in RecentBuffers(n)
BY BufferFlags DEF RecentBuffers, EmptyIfUnused, HoldsOnly, Good, Corrupt

LEMMA StoreRecent ==
    ASSUME NEW n, NEW b \in RecentBuffers(n), NEW p \in Slots, NEW crc \in BOOLEAN,
           NEW pay \in Payloads, b.block_num # -1,
           IF crc THEN pay.org \in SinceReport(n) /\ pay.pos = p ELSE pay = Junk
    PROVE  Store(b, p, crc, pay) \in RecentBuffers(n)
<1>1. b \in BlockBuffers /\ HoldsOnly(b.slots, SinceReport(n))
  BY DEF RecentBuffers
<1>2. IF crc THEN \E o \in SinceReport(n) : pay = [org |-> o, pos |-> p] ELSE pay = Junk
  BY DEF Payloads
<1>3. HoldsOnly(Store(b, p, crc, pay).slots, SinceReport(n))
  BY <1>1, <1>2, StoreHolds
<1> QED
  BY <1>1, <1>3, StoreFacts DEF RecentBuffers, EmptyIfUnused

\* What is published of it is recent.
LEMMA EntryRecent ==
    ASSUME NEW n, NEW b \in RecentBuffers(n)
    PROVE  RecentEntry(BlockEntry(b), n)
<1> DEFINE O == SinceReport(n)
<1>1. NoOrigin \notin O
  BY DEF NoOrigin, SinceReport
<1>2. HoldsOnly(b.slots, O)
  BY DEF RecentBuffers
<1>3. ASSUME NEW d \in DataIdx, NEW it, it = PublishedItems(b.slots)[d]
      PROVE  it \in {NotPublished, Junk} \/ it.org.ep >= n - 1
  <2>1. it \in {Junk, NotPublished} \/ \E o \in O : it = [org |-> o, pos |-> DataSlot(d)]
    <3> HIDE DEF O
    <3> QED
      BY <1>1, <1>2, <1>3, PublishedOwn
  <2>2. ASSUME NEW o \in O, it = [org |-> o, pos |-> DataSlot(d)] PROVE it.org.ep >= n - 1
    BY <2>2 DEF SinceReport
  <2> QED
    BY <2>1, <2>2
<1>4. BlockEntry(b).items = PublishedItems(b.slots)
  BY DEF BlockEntry
<1> QED
  BY <1>3, <1>4 DEF RecentEntry

\* The counter of the restarts after making room.
LEMMA RoomCounts ==
    ASSUME NEW st \in HandlerStates, NEW n, NEW r \in BOOLEAN
    PROVE  LET cnt == st.status["tx_restart_cnt"]
           IN  /\ cnt \in Nat
               /\ MakeRoom(st, n, r).status["tx_restart_cnt"] <= IF r THEN cnt + 1 ELSE cnt
<1> DEFINE c == IF r THEN CountRestart(st.status) ELSE st.status
           cnt == st.status["tx_restart_cnt"]
           after == IF r THEN (cnt + 1) % UintRange ELSE cnt
<1>1. st.status \in [Counters -> Nat] /\ "tx_restart_cnt" \in Counters /\ cnt \in Nat
  BY DEF HandlerStates, Counters
<1>2. c \in [Counters -> Nat] /\ c["tx_restart_cnt"] = after
  BY <1>1, CountTypes DEF CountRestart
<1>3. \A ps : CountBlock(c, ps)["tx_restart_cnt"] = after
  <2> HIDE DEF c, after
  <2> QED
    BY <1>1, <1>2 DEF CountBlock
<1>4. MakeRoom(st, n, r).status["tx_restart_cnt"] = after
  <2> HIDE DEF after
  <2> QED
    BY <1>2, <1>3 DEF MakeRoom
<1>5. (cnt + 1) % UintRange <= cnt + 1
  BY <1>1, BlockAssumption
<1> QED
  BY <1>1, <1>4, <1>5

\* Making room drops the buffered block and counts a report, or publishes it.
LEMMA RoomRecent ==
    ASSUME NEW st \in HandlerStates, NEW blk \in Seqs, 2 * blk <= UintRange, NEW r \in BOOLEAN,
           RecentState(st), ~r => st.buf.block_num # -1,
           NEW n, n = ReportCount(st.output),
           NEW k, r => k = n + 1, ~r => k = n,
           NEW m, m = MakeRoom(st, blk, r)
    PROVE  /\ n \in Nat /\ ReportCount(m.output) = k /\ RecentState(m)
           /\ m \in HandlerStates /\ m.buf.block_num # -1 /\ Uint(m.max) = blk
<1>0. st.buf \in RecentBuffers(n) /\ AllRecent(st.output) /\ st.status["tx_restart_cnt"] <= n
  BY DEF RecentState
<1>1. /\ m \in HandlerStates /\ m.buf \in BlockBuffers
      /\ m.max = Int32(blk) /\ m.buf.block_num = Int32(blk)
      /\ r => m.output = Append(st.output, RestartEntry)
      /\ ~r => m.output = Append(st.output, BlockEntry(st.buf))
      /\ EmptyIfUnused(st.buf) => \A p \in Slots : ~m.buf.slots[p].valid
  BY MakeRoomFacts DEF HandlerStates
<1>2. st.output \in Seq(OutputEntries) /\ st.buf \in BlockBuffers /\ EmptyIfUnused(st.buf)
  BY <1>0 DEF HandlerStates, RecentBuffers
<1>3. m.buf \in RecentBuffers(k)
  BY <1>1, <1>2, EmptyIsRecent
<1>4. Uint(m.max) = blk /\ m.max # -1
  BY <1>1, IntRoundTrip, MinusOne, BlockAssumption DEF Seqs
<1> DEFINE e == IF r THEN RestartEntry ELSE BlockEntry(st.buf)
<1>5. e \in OutputEntries /\ Extended(st.output, e, m.output)
  BY <1>1, <1>2, BlockEntryType DEF OutputEntries, Extended
<1>6. (e = RestartEntry) = r
  <2>1. BlockEntry(st.buf) # RestartEntry
    BY <1>2, BlockEntryType, BlockIsNoReport
  <2> QED
    BY <2>1
<1>7. RecentEntry(e, k)
  <2>1. CASE r
    BY <2>1 DEF RecentEntry, IsBlock, RestartEntry
  <2>2. CASE ~r
    <3>1. n \in Nat
      BY <1>2, <1>5, ReportsAppend
    <3>2. k = n
      BY <2>2, <3>1
    <3> QED
      BY <1>0, <2>2, <3>2, EntryRecent
  <2> QED
    BY <2>1, <2>2
<1> HIDE DEF e
<1>8. n \in Nat /\ ReportCount(m.output) = k
  <2>1. /\ ReportCount(st.output) \in Nat
        /\ e = RestartEntry => ReportCount(m.output) = ReportCount(st.output) + 1
        /\ e # RestartEntry => ReportCount(m.output) = ReportCount(st.output)
    BY <1>2, <1>5, ReportsAppend
  <2> QED
    BY <1>6, <2>1
<1>9. AllRecent(m.output)
  BY <1>0, <1>2, <1>5, <1>7, <1>8, AppendRecent
<1>10. m.status["tx_restart_cnt"] <= k
  <2>1. st.status["tx_restart_cnt"] \in Nat
    BY RoomCounts
  <2>2. m.status["tx_restart_cnt"] <= IF r THEN st.status["tx_restart_cnt"] + 1 ELSE st.status["tx_restart_cnt"]
    BY RoomCounts
  <2>3. m.status["tx_restart_cnt"] \in Nat
    BY <1>1 DEF HandlerStates, Counters
  <2> QED
    BY <1>0, <1>8, <2>1, <2>2, <2>3
<1> QED
  BY <1>1, <1>3, <1>4, <1>8, <1>9, <1>10 DEF RecentState

\* The packet q of an intact frame and the reports it explains.
LEMMA Explains ==
    ASSUME NEW p \in Places, NEW q \in Places, NotBefore(q, p),
           NEW n \in Nat, NEW max \in Int, ExplainedBy(n, max, p)
    PROVE  /\ ExplainedBy(n, max, q) /\ n - 1 <= q.ep
           /\ \A m \in Int : Uint(m) <= q.blk + 1 => ExplainedBy(n, m, q)
           /\ q.blk + 1 < Uint(max) =>
                 \A m \in Int : Uint(m) <= q.blk + 1 => ExplainedBy(n + 1, m, q)
<1>1. p.ep \in Nat /\ p.blk \in Nat /\ q.ep \in Nat /\ q.blk \in Nat /\ Uint(max) \in Int
  BY BlockAssumption DEF Places, Uint
<1>2. n <= p.ep \/ (n = p.ep + 1 /\ Uint(max) <= p.blk + 1)
  BY DEF ExplainedBy
<1>3. p.ep < q.ep \/ (p.ep = q.ep /\ p.blk <= q.blk)
  BY DEF NotBefore
<1> QED
  BY <1>1, <1>2, <1>3 DEF ExplainedBy

\* One call: a report is explained by a restart, and what the buffer and the
\* output get is recent.
LEMMA HandlerRecent ==
    ASSUME BlockSize >= 2, BlockSize \notin PastEndWords,
           RestartWindow >= 1, MaxBlocks + RestartWindow < UintRange,
           OrderInv, GndRecent, NEW f \in RunFrames,
           NEW p \in Places, NEW q \in Places, ReportsExplained(p), NotBefore(q, p),
           f.crc => q = f.pay.org,
           process_video_payload(f.seq, f.crc, f.pay)
    PROVE  \E st : /\ BecomesState(st) /\ RecentState(st)
                   /\ ExplainedBy(ReportCount(st.output), st.max, q)
<1> DEFINE blk == BlockOf(f.seq)
           r   == TxRestart(blk)
           n   == ReportCount(output)
           Keep(b) == Stored(f.seq, f.crc, f.pay, b)
<1>1. /\ f.seq \in Seqs /\ f.crc \in BOOLEAN /\ f.pay \in Payloads
      /\ f.crc => /\ f.pay.org = q /\ q.blk = blk /\ blk < MaxBlocks
                  /\ f.pay.pos = PacketNum(f.seq)
      /\ ~f.crc => f.pay = Junk
  BY FrameParts DEF RunFrames
<1>2. /\ GndTypeOK /\ buf \in BlockBuffers /\ max_block_num \in Int
      /\ output \in Seq(OutputEntries) /\ buf.block_num = max_block_num
  BY DEF OrderInv, GndTypeOK, OutputEntries
<1>3. /\ blk \in Seqs /\ 2 * blk <= UintRange /\ blk \in Nat /\ blk # UintRange - 1
      /\ blk + 1 \in Seqs /\ 2 * (blk + 1) <= UintRange
  BY <1>1, BlockNumbers
<1>4. /\ Current.buf = buf /\ Current.max = max_block_num /\ Current.output = output
      /\ Current.status = status
      /\ Current \in HandlerStates /\ PacketNum(f.seq) \in Slots /\ r \in BOOLEAN
  BY <1>1, <1>2, HandlerInputs DEF Current
<1>5. /\ RecentState(Current) /\ buf \in RecentBuffers(n)
      /\ ExplainedBy(n, max_block_num, p)
  BY <1>4 DEF GndRecent, RecentState, ReportsExplained
<1>6. n \in Nat
  BY <1>2, ReportsFinite
<1> HIDE DEF n, r, blk
<1>7. /\ ExplainedBy(n, max_block_num, q) /\ n - 1 <= q.ep
      /\ \A m \in Int : Uint(m) <= q.blk + 1 => ExplainedBy(n, m, q)
      /\ q.blk + 1 < Uint(max_block_num) =>
            \A m \in Int : Uint(m) <= q.blk + 1 => ExplainedBy(n + 1, m, q)
  BY <1>2, <1>5, <1>6, Explains
<1>8. ASSUME NEW k \in Nat, k - 1 <= q.ep, NEW b \in RecentBuffers(k), b.block_num # -1
      PROVE  Keep(b) \in RecentBuffers(k)
  <2>1. f.crc => f.pay.org \in SinceReport(k)
    BY <1>1, <1>8 DEF SinceReport, Places
  <2> QED
    BY <1>1, <1>4, <1>8, <2>1, StoreRecent DEF Stored
<1>9. CASE JustStores(f.seq, f.crc, f.pay)
  <2> DEFINE b  == IF Uint(buf.block_num) = blk THEN Keep(buf) ELSE buf
             st == WithBuffer(Current, b)
  <2>1. b \in RecentBuffers(n)
    <3>1. Uint(buf.block_num) = blk => buf.block_num # -1
      BY <1>3, MinusOne
    <3> QED
      BY <1>5, <1>6, <1>7, <1>8, <3>1
  <2>2. /\ st.buf = b /\ st.max = max_block_num /\ st.output = output /\ st.status = status
    BY <1>4 DEF WithBuffer
  <2> HIDE DEF b, st
  <2>3. RecentState(st)
    BY <1>4, <1>5, <2>1, <2>2 DEF RecentState, n
  <2>4. BecomesState(st)
    BY <1>9, <2>2 DEF JustStores, BecomesState, b, blk
  <2>5. ExplainedBy(ReportCount(st.output), st.max, q)
    BY <1>7, <2>2 DEF n
  <2> QED
    BY <2>3, <2>4, <2>5
<1>10. CASE OpensBlock(f.seq, f.crc, f.pay)
  <2> DEFINE m  == MakeRoom(Current, blk, r)
             st == WithBuffer(m, Keep(m.buf))
             k  == IF r THEN n + 1 ELSE n
  <2>1. BecomesState(st) /\ f.crc /\ (~r => buf.block_num # -1)
    BY <1>2, <1>10 DEF OpensBlock, blk, r
  <2>2. /\ ReportCount(m.output) = k /\ RecentState(m)
        /\ m \in HandlerStates /\ m.buf.block_num # -1 /\ Uint(m.max) = blk
    BY <1>3, <1>4, <1>5, <2>1, RoomRecent DEF n
  <2>3. r => q.blk + 1 < Uint(max_block_num)
    <3>1. MaxBlocks \in Nat /\ RestartWindow \in Nat /\ UintRange \in Nat /\ Uint(max_block_num) \in Int
      BY <1>2, BlockAssumption, AirAssumption, GndAssumption DEF Uint
    <3>2. q.blk = blk /\ blk < MaxBlocks
      BY <1>1, <2>1 DEF blk
    <3>3. WrapUint(blk + RestartWindow) = blk + RestartWindow
      BY <1>3, <3>1, <3>2 DEF WrapUint
    <3> QED
      BY <1>3, <3>1, <3>2, <3>3 DEF r, TxRestart
  <2>4. m.max \in Int /\ Uint(m.max) <= q.blk + 1
    BY <1>1, <1>3, <2>1, <2>2 DEF HandlerStates, blk
  <2>5. ExplainedBy(k, m.max, q)
    BY <1>4, <1>6, <1>7, <2>3, <2>4
  <2>6. k \in Nat /\ k - 1 <= q.ep
    BY <1>4, <1>6, <1>7, <2>3, <2>5 DEF ExplainedBy, Places
  <2> HIDE DEF m, k
  <2>7. Keep(m.buf) \in RecentBuffers(k)
    BY <1>8, <2>2, <2>6 DEF RecentState
  <2>8. st.buf = Keep(m.buf) /\ st.max = m.max /\ st.output = m.output /\ st.status = m.status
    BY DEF WithBuffer
  <2> HIDE DEF st
  <2>9. RecentState(st)
    BY <2>2, <2>7, <2>8 DEF RecentState
  <2> QED
    BY <2>1, <2>2, <2>5, <2>8, <2>9
<1>11. CASE CompletesBlock(f.seq, f.crc, f.pay)
  <2> DEFINE kept == WithBuffer(Current, Keep(buf))
             nb   == blk + 1
             m    == MakeRoom(kept, nb, FALSE)
  <2>1. /\ BecomesState(m) /\ f.crc /\ buf.block_num # -1
    BY <1>2, <1>11 DEF CompletesBlock, blk
  <2>2. Keep(buf) \in RecentBuffers(n) /\ Keep(buf) \in BlockBuffers /\ Keep(buf).block_num # -1
    <3>1. Keep(buf) \in RecentBuffers(n)
      BY <1>5, <1>6, <1>7, <1>8, <2>1
    <3>2. Keep(buf) \in BlockBuffers /\ Keep(buf).block_num = buf.block_num
      BY <1>1, <1>2, <1>4, StoreFacts DEF Stored
    <3> QED
      BY <2>1, <3>1, <3>2
  <2>3. /\ kept.buf = Keep(buf) /\ kept.output = output /\ kept.status = status
        /\ kept \in HandlerStates
    BY <1>4, <2>2 DEF WithBuffer, HandlerStates
  <2> HIDE DEF kept
  <2>4. RecentState(kept)
    BY <1>4, <1>5, <2>2, <2>3 DEF RecentState, n
  <2>5. nb \in Seqs /\ 2 * nb <= UintRange
    BY <1>3
  <2> HIDE DEF nb
  <2>6. /\ ReportCount(m.output) = n /\ RecentState(m)
        /\ m \in HandlerStates /\ Uint(m.max) = nb
    <3>1. n = ReportCount(kept.output)
      BY <2>3 DEF n
    <3>2. ASSUME NEW no \in BOOLEAN, ~no, NEW room, room = MakeRoom(kept, nb, no)
          PROVE  /\ ReportCount(room.output) = n /\ RecentState(room)
                 /\ room \in HandlerStates /\ Uint(room.max) = nb
      BY <2>2, <2>3, <2>4, <2>5, <3>1, <3>2, RoomRecent
    <3> HIDE DEF n
    <3> QED
      BY <3>2
  <2> HIDE DEF m
  <2>7. m.max \in Int /\ Uint(m.max) <= q.blk + 1
    BY <1>1, <1>3, <2>1, <2>6 DEF HandlerStates, blk, nb
  <2> QED
    BY <1>7, <2>1, <2>6, <2>7
<1> QED
  BY <1>1, <1>2, <1>9, <1>10, <1>11, HandlerCases

\* The place of an intact frame.
LEMMA FramePlace ==
    ASSUME NEW f \in RunFrames, f.crc
    PROVE  f.pay.org \in Places
BY DEF RunFrames

\* A queue stays in turn when the transmitter goes on, when it gets copies
\* of the packet that is sent now, and when its oldest frame is taken.
LEMMA TurnLater ==
    ASSUME NEW q \in Seq(RunFrames), NEW p \in Places, NEW now \in Places, NEW later \in Places,
           NotBefore(later, now), InTurn(q, p, now)
    PROVE  InTurn(q, p, later)
<1>1. ASSUME NEW i \in 1 .. Len(q), q[i].crc
      PROVE  NotBefore(q[i].pay.org, p) /\ NotBefore(later, q[i].pay.org)
  <2>1. q[i] \in RunFrames
    OBVIOUS
  <2>2. q[i].pay.org \in Places /\ NotBefore(q[i].pay.org, p) /\ NotBefore(now, q[i].pay.org)
    BY <1>1, <2>1, FramePlace DEF InTurn
  <2> QED
    BY <2>2, PlacesOrdered
<1> QED
  BY <1>1 DEF InTurn

LEMMA TurnConcat ==
    ASSUME NEW q \in Seq(RunFrames), NEW p \in Places, NEW now \in Places, InTurn(q, p, now),
           NotBefore(now, p), NEW g \in Seq(RunFrames),
           \A i \in 1 .. Len(g) : g[i].crc => g[i].pay.org = now,
           NEW new, new = q \o g
    PROVE  InTurn(new, p, now)
<1>1. /\ Len(q) \in Nat /\ Len(g) \in Nat /\ Len(new) = Len(q) + Len(g)
      /\ \A i \in 1 .. Len(new) :
            IF i \in 1 .. Len(q) THEN new[i] = q[i]
            ELSE i - Len(q) \in 1 .. Len(g) /\ new[i] = g[i - Len(q)]
  OBVIOUS
<1>2. NotBefore(now, now)
  BY PlacesOrdered
<1>3. ASSUME NEW i \in 1 .. Len(new), i \notin 1 .. Len(q), new[i].crc
      PROVE  new[i].pay.org = now
  BY <1>1, <1>3
<1>4. ASSUME NEW i \in 1 .. Len(new), new[i].crc
      PROVE  NotBefore(new[i].pay.org, p) /\ NotBefore(now, new[i].pay.org)
  <2>1. CASE i \in 1 .. Len(q)
    BY <1>1, <1>4, <2>1 DEF InTurn
  <2>2. CASE i \notin 1 .. Len(q)
    BY <1>2, <1>3, <1>4, <2>2
  <2> QED
    BY <2>1, <2>2
<1>5. ASSUME NEW i \in 1 .. Len(new), NEW j \in 1 .. Len(new), i < j, new[i].crc, new[j].crc
      PROVE  NotBefore(new[j].pay.org, new[i].pay.org)
  <2>1. CASE j \in 1 .. Len(q)
    <3>1. i \in 1 .. Len(q) /\ new[i] = q[i] /\ new[j] = q[j]
      BY <1>1, <1>5, <2>1
    <3> QED
      BY <1>5, <2>1, <3>1 DEF InTurn
  <2>2. CASE j \notin 1 .. Len(q)
    <3>1. new[j].pay.org = now
      BY <1>3, <1>5, <2>2
    <3> QED
      BY <1>4, <1>5, <3>1
  <2> QED
    BY <2>1, <2>2
<1> QED
  BY <1>4, <1>5 DEF InTurn

LEMMA TurnTail ==
    ASSUME NEW q \in Seq(RunFrames), q # <<>>, NEW p, NEW now, InTurn(q, p, now),
           NEW o, o = IF Head(q).crc THEN Head(q).pay.org ELSE p
    PROVE  InTurn(Tail(q), o, now)
<1> DEFINE t == Tail(q)
           h == Head(q)
<1>1. /\ h = q[1] /\ Len(q) \in Nat /\ Len(q) >= 1 /\ Len(t) = Len(q) - 1
      /\ \A i \in 1 .. Len(q) - 1 : t[i] = q[i + 1]
  OBVIOUS
<1> HIDE DEF t, h
<1>2. ASSUME NEW i \in 1 .. Len(t), t[i].crc
      PROVE  NotBefore(t[i].pay.org, o) /\ NotBefore(now, t[i].pay.org)
  <2>1. i + 1 \in 1 .. Len(q) /\ 1 \in 1 .. Len(q) /\ 1 < i + 1 /\ t[i] = q[i + 1]
    BY <1>1
  <2>2. h.crc => NotBefore(q[i + 1].pay.org, h.pay.org)
    BY <1>1, <1>2, <2>1 DEF InTurn
  <2>3. NotBefore(q[i + 1].pay.org, p) /\ NotBefore(now, q[i + 1].pay.org)
    BY <1>2, <2>1 DEF InTurn
  <2> QED
    BY <2>1, <2>2, <2>3 DEF h
<1>3. ASSUME NEW i \in 1 .. Len(t), NEW j \in 1 .. Len(t), i < j, t[i].crc, t[j].crc
      PROVE  NotBefore(t[j].pay.org, t[i].pay.org)
  <2>1. /\ i + 1 \in 1 .. Len(q) /\ j + 1 \in 1 .. Len(q) /\ i + 1 < j + 1
        /\ t[i] = q[i + 1] /\ t[j] = q[j + 1]
    BY <1>1, <1>3
  <2> QED
    BY <1>3, <2>1 DEF InTurn
<1> QED
  BY <1>2, <1>3 DEF InTurn, t

\* The packet on the air shows the place the transmitter is at.
LEMMA TxFrameRun ==
    ASSUME MaxBlocks * BlockSize < UintRange, AirTypeOK, SeqAligned, sending \in Slots
    PROVE  /\ IntactFrame(TxFrame) \in RunFrames
           /\ IntactFrame(TxFrame).crc /\ IntactFrame(TxFrame).pay.org = Now
           /\ \A s \in DamagedSeqs : DamagedFrame(s) \in RunFrames /\ ~DamagedFrame(s).crc
<1> DEFINE f == IntactFrame(TxFrame)
<1>1. f \in Frames
  BY TxFrameType
<1>2. BlockOf(f.seq) = injected_block_cnt /\ PacketNum(f.seq) = sending
  BY TxFrameSplit DEF IntactFrame
<1>3. f.crc /\ f.pay.org = Now /\ f.pay.pos = sending
  BY DEF IntactFrame, TxFrame, Now
<1>4. Now \in Places /\ Now.blk = injected_block_cnt /\ injected_block_cnt < MaxBlocks
  BY DEF AirTypeOK, SeqAligned, Slots, Filling, Now, Places
<1> HIDE DEF f
<1>5. f \in RunFrames
  BY <1>1, <1>2, <1>3, <1>4 DEF RunFrames
<1>6. \A s \in DamagedSeqs : DamagedFrame(s) \in RunFrames /\ ~DamagedFrame(s).crc
  BY DamagedFrameType DEF DamagedFrame, RunFrames
<1> QED
  BY <1>3, <1>5, <1>6 DEF f

\* The transmitter never goes back.
LEMMA NowForward ==
    ASSUME MaxBlocks * BlockSize < UintRange, AirTypeOK, AirTypeOK', SeqAligned, [Next]_vars
    PROVE  /\ Now \in Places /\ Now' \in Places /\ NotBefore(Now', Now)
           /\ UNCHANGED airVars => Now' = Now
<1>1. /\ injected_block_cnt \in Nat /\ epoch \in Nat /\ injected_block_cnt' \in Nat /\ epoch' \in Nat
      /\ sending \in Slots \cup {Filling} /\ Filling \notin Slots
  BY BlockAssumption DEF AirTypeOK, Slots, Filling
<1>2. Now \in Places /\ Now' \in Places
  BY <1>1 DEF Now, Places
<1>3. epoch < epoch' \/ (epoch' = epoch /\ injected_block_cnt <= injected_block_cnt')
  <2>1. CASE Fill \/ Eof
    BY <1>1, <2>1 DEF Fill, Eof, ReadStdin, ReadEof
  <2>2. CASE Restart
    BY <1>1, <2>2 DEF Restart, AirRestart
  <2>3. CASE Transmit
    <3>1. transmit_packet /\ epoch' = epoch
      BY <2>3 DEF Transmit, transmit_packet
    <3>2. BlocksBegun' = BlocksBegun
      BY <3>1, TransmitAligned
    <3>3. \/ injected_block_cnt' = injected_block_cnt
          \/ sending \in Slots /\ sending' = Filling
      BY <3>1 DEF transmit_packet
    <3>4. injected_block_cnt <= injected_block_cnt'
      <4>1. BlocksBegun' = injected_block_cnt' + (IF sending' \in Slots THEN 1 ELSE 0)
        BY DEF BlocksBegun, Slots, BlockSize
      <4>2. CASE sending \in Slots /\ sending' = Filling
        <5>1. BlocksBegun = injected_block_cnt + 1
          BY <4>2 DEF BlocksBegun
        <5>2. sending' \notin Slots
          BY <1>1, <4>2
        <5>3. injected_block_cnt' + 0 = injected_block_cnt + 1
          <6>1. BlocksBegun' = injected_block_cnt' + 0
            BY <4>1, <5>2
          <6> QED
            BY <3>2, <5>1, <6>1, Zenon
        <5>4. \A m, n \in Nat : n + 0 = m + 1 => m <= n
          OBVIOUS
        <5> QED
          BY <1>1, <5>3, <5>4, Zenon
      <4> QED
        BY <1>1, <3>3, <4>2
    <3> QED
      BY <3>1, <3>4
  <2>4. CASE UNCHANGED airVars
    BY <1>1, <2>4 DEF airVars
  <2> QED
    BY <2>1, <2>2, <2>3, <2>4 DEF Next, process_packet, vars
<1>4. NotBefore(Now', Now)
  BY <1>3 DEF Now, NotBefore
<1>5. UNCHANGED airVars => Now' = Now
  BY DEF airVars, Now
<1> QED
  BY <1>2, <1>4, <1>5

\* The queues of the next state are in turn up to where the transmitter is.
LEMMA QueuesInTurn ==
    ASSUME MaxBlocks * BlockSize < UintRange, AirTypeOK, SeqAligned,
           rxq \in [Adapters -> Seq(RunFrames)], NEW p \in Places, NotBefore(Now, p),
           \A a \in Adapters : InTurn(rxq[a], p, Now), [Next]_vars,
           ~ \E a \in Adapters : process_packet(a)
    PROVE  \A a \in Adapters : InTurn(rxq'[a], p, Now)
<1>1. CASE Transmit
  <2>1. sending \in Slots /\ Now \in Places
    BY <1>1 DEF Transmit, transmit_packet, AirTypeOK, Now, Places
  <2>2. PICK got \in [Adapters -> Receptions(TxFrame)] :
            rxq' = [a \in Adapters |-> rxq[a] \o got[a]]
    BY <1>1 DEF Transmit
  <2>3. ASSUME NEW a \in Adapters PROVE InTurn(rxq'[a], p, Now)
    <3> DEFINE q == rxq[a]
    <3>1. q \in Seq(RunFrames) /\ InTurn(q, p, Now) /\ rxq'[a] = q \o got[a]
      BY <2>2
    <3> DEFINE F == {f \in RunFrames : f.crc => f.pay.org = Now}
    <3>2. IntactFrame(TxFrame) \in F /\ \A s \in DamagedSeqs : DamagedFrame(s) \in F
      BY <2>1, TxFrameRun
    <3>3. got[a] \in Receptions(TxFrame)
      BY <2>2
    <3> HIDE DEF F
    <3>4. PICK g \in Seq(F) : g = got[a]
      BY <3>2, <3>3, ReceptionIn
    <3>5. g \in Seq(RunFrames) /\ \A i \in 1 .. Len(g) : g[i].crc => g[i].pay.org = Now
      <4>1. F \subseteq RunFrames /\ \A f \in F : f.crc => f.pay.org = Now
        BY DEF F
      <4>2. \A i \in 1 .. Len(g) : g[i] \in F
        OBVIOUS
      <4> QED
        BY <4>1, <4>2
    <3>6. rxq'[a] = q \o g
      BY <3>1, <3>4
    <3> HIDE DEF q
    <3> QED
      BY <2>1, <3>1, <3>5, <3>6, TurnConcat
  <2> QED
    BY <2>3
<1>2. CASE UNCHANGED rxq
  BY <1>2
<1> QED
  BY <1>1, <1>2 DEF Next, Fill, Eof, Restart, vars

\* What the invariant says of the receiver, in the next state.
LEMMA ReceiverRecent ==
    ASSUME NEW st, BecomesState(st), RecentState(st),
           NEW q, ExplainedBy(ReportCount(st.output), st.max, q)
    PROVE  GndRecent' /\ ReportsExplained(q)'
<1>1. /\ st.buf = buf' /\ st.max = max_block_num' /\ st.output = output' /\ st.status = status'
  BY DEF BecomesState
<1>2. /\ ReportCount(output') = ReportCount(output)'
      /\ AllRecent(output') => AllRecent(output)'
  BY DEF ReportCount, ReportsIn, AllRecent, RecentEntry, RestartEntry, IsBlock, NotPublished, Junk,
         NoOrigin, DataIdx
<1>3. status'["tx_restart_cnt"] <= ReportCount(output') /\ AllRecent(output')
      /\ buf' \in RecentBuffers(ReportCount(output'))
  BY <1>1 DEF RecentState
<1>4. (buf \in RecentBuffers(ReportCount(output)))'
  BY <1>2, <1>3 DEF RecentBuffers
<1>5. GndRecent'
  BY <1>2, <1>3, <1>4 DEF GndRecent, RecentState, Current
<1>6. ReportsExplained(q)'
  BY <1>1, <1>2 DEF ReportsExplained, ExplainedBy, Uint
<1> QED
  BY <1>5, <1>6

\* Every step keeps the invariant.
LEMMA RunsNext ==
    ASSUME \A a, b \in Adapters : a = b,
           BlockSize >= 2, BlockSize \notin PastEndWords, MaxBlocks * BlockSize < UintRange,
           RestartWindow >= 1, MaxBlocks + RestartWindow < UintRange, RunsInv, [Next]_vars
    PROVE  RunsInv'
<1>1. /\ LinkTypeInv /\ TypeOK /\ AirTypeOK /\ SeqAligned /\ OrderInv /\ GndRecent
      /\ InQueues(RunFrames)
  BY DEF RunsInv, LinkTypeInv, TypeOK
<1>2. LinkTypeInv' /\ AirTypeOK' /\ SeqAligned' /\ OrderInv'
  <2>1. LinkTypeInv' /\ SeqAligned' /\ OrderInv'
    BY <1>1, LinkTypeNext, AlignedNext, LinkOrderNext
  <2> QED
    BY <2>1 DEF LinkTypeInv, TypeOK
<1>3. PICK p \in Places : ReachedInTurn(p)
  BY DEF RunsInv
<1>4. NotBefore(Now, p) /\ ReportsExplained(p) /\ \A a \in Adapters : InTurn(rxq[a], p, Now)
  BY <1>3 DEF ReachedInTurn
<1>5. \A a \in Adapters : \A i \in 1 .. Len(rxq'[a]) : rxq'[a][i] \in RunFrames
  <2>1. sending \in Slots => /\ IntactFrame(TxFrame) \in RunFrames
                             /\ \A s \in DamagedSeqs : DamagedFrame(s) \in RunFrames
    BY <1>1, TxFrameRun
  <2> QED
    BY <1>1, <2>1, QueuesKept
<1>6. rxq \in [Adapters -> Seq(RunFrames)] /\ rxq' \in [Adapters -> Seq(RunFrames)]
  <2>1. ASSUME NEW q \in Seq(Frames), \A i \in 1 .. Len(q) : q[i] \in RunFrames
        PROVE  q \in Seq(RunFrames)
    BY <2>1
  <2>2. rxq \in [Adapters -> Seq(Frames)] /\ rxq' \in [Adapters -> Seq(Frames)]
    <3>1. rxq' \in [Adapters -> Seq(Frames)]
      BY <1>2 DEF LinkTypeInv, TypeOK, Frames, Payloads
    <3> QED
      BY <1>1, <3>1 DEF TypeOK
  <2> QED
    BY <1>1, <1>5, <2>1, <2>2 DEF InQueues
<1>7. InQueues(RunFrames)'
  BY <1>5 DEF InQueues, RunFrames, Frames, Payloads, Places, BlockOf, PacketNum, BlockSize, Junk, NoOrigin
<1>8. /\ Now \in Places /\ Now' \in Places /\ NotBefore(Now', Now)
      /\ UNCHANGED airVars => Now' = Now
  BY <1>1, <1>2, NowForward
<1> DEFINE now == Now'
<1>9. ASSUME NEW q \in Places, NotBefore(now, q), GndRecent', ReportsExplained(q)',
             \A a \in Adapters : InTurn(rxq'[a], q, now)
      PROVE  RunsInv'
  <2>1. ReachedInTurn(q)'
    BY <1>9 DEF ReachedInTurn, InTurn, NotBefore, Now
  <2>2. (\E o \in Places : ReachedInTurn(o))'
    BY <2>1 DEF Places
  <2> QED
    BY <1>2, <1>7, <1>9, <2>2 DEF RunsInv
<1> HIDE DEF now
<1>10. CASE ~ \E a \in Adapters : process_packet(a)
  <2>1. \A a \in Adapters : InTurn(rxq'[a], p, Now)
    BY <1>1, <1>4, <1>6, <1>10, QueuesInTurn
  <2>2. \A a \in Adapters : InTurn(rxq'[a], p, now)
    BY <1>6, <1>8, <2>1, TurnLater DEF now
  <2>3. NotBefore(now, p)
    BY <1>4, <1>8, PlacesOrdered DEF now
  <2>4. BecomesState(Current) /\ Current.output = output /\ Current.max = max_block_num
    BY <1>10, ReceiverIdle DEF gndVars, BecomesState, Current
  <2>5. GndRecent' /\ ReportsExplained(p)'
    BY <1>1, <1>4, <2>4, ReceiverRecent DEF GndRecent, ReportsExplained
  <2> QED
    BY <1>9, <2>2, <2>3, <2>5
<1>11. ASSUME NEW a \in Adapters, process_packet(a) PROVE RunsInv'
  <2>1. PICK f \in RunFrames : f = Head(rxq[a]) /\ process_video_payload(f.seq, f.crc, f.pay)
    BY <1>1, <1>11, PacketTaken
  <2> DEFINE q == IF f.crc THEN f.pay.org ELSE p
  <2>2. /\ rxq[a] \in Seq(RunFrames) /\ rxq[a] # <<>> /\ rxq'[a] = Tail(rxq[a])
        /\ now = Now
    BY <1>6, <1>8, <1>11 DEF process_packet, now
  <2>3. q \in Places /\ NotBefore(q, p) /\ NotBefore(Now, q)
    <3>1. CASE f.crc
      <4>1. f.pay.org \in Places /\ q = f.pay.org
        BY <3>1, FramePlace
      <4>2. f = rxq[a][1] /\ 1 \in 1 .. Len(rxq[a])
        BY <2>1, <2>2
      <4> QED
        BY <1>4, <3>1, <4>1, <4>2 DEF InTurn
    <3>2. CASE ~f.crc
      BY <1>4, <3>2, PlacesOrdered
    <3> QED
      BY <3>1, <3>2
  <2>4. PICK st : /\ BecomesState(st) /\ RecentState(st)
                  /\ ExplainedBy(ReportCount(st.output), st.max, q)
    <3>1. f.crc => q = f.pay.org
      OBVIOUS
    <3> HIDE DEF q
    <3> QED
      BY <1>1, <1>4, <2>1, <2>3, <3>1, HandlerRecent
  <2>5. InTurn(Tail(rxq[a]), q, Now)
    BY <1>4, <2>1, <2>2, TurnTail
  <2> HIDE DEF q
  <2>6. \A c \in Adapters : InTurn(rxq'[c], q, now)
    BY <2>2, <2>5
  <2>7. GndRecent' /\ ReportsExplained(q)'
    BY <2>4, ReceiverRecent
  <2> QED
    BY <1>9, <2>2, <2>3, <2>6, <2>7
<1> QED
  BY <1>10, <1>11

\* It holds initially.
LEMMA RunsInit == Init => RunsInv
<1> SUFFICES ASSUME Init PROVE RunsInv
  OBVIOUS
<1>1. LinkTypeInv /\ SeqAligned /\ OrderInv
  BY OwnLinkInit, GndInitInv DEF Init, OwnLinkInv
<1>2. InQueues(RunFrames) /\ \A a \in Adapters : Len(rxq[a]) = 0
  BY DEF Init, InQueues
<1>3. Len(output) = 0 /\ ReportCount(output) = 0
  <2>1. Len(output) = 0
    BY GndInitInv DEF Init
  <2>2. ReportsIn(output, 0) = {}
    BY DEF ReportsIn
  <2> QED
    BY <2>1, <2>2, FS_EmptySet DEF ReportCount
<1>4. GndRecent
  <2>1. buf \in BlockBuffers /\ \A p \in Slots : ~buf.slots[p].valid
    <3>1. buf \in BlockBuffers
      BY <1>1 DEF OrderInv, GndTypeOK
    <3> QED
      BY <3>1 DEF Init, GndInit, EmptyBuffer, EmptySlot
  <2>2. status["tx_restart_cnt"] = 0
    BY DEF Init, GndInit, Counters
  <2>3. AllRecent(output)
    BY <1>3 DEF AllRecent
  <2>4. buf \in RecentBuffers(0)
    BY <2>1, EmptyIsRecent
  <2>5. Current.buf = buf /\ Current.output = output /\ Current.status = status
    BY DEF Current
  <2> QED
    BY <1>3, <2>2, <2>3, <2>4, <2>5 DEF GndRecent, RecentState
<1>5. Now \in Places /\ ReachedInTurn(Now)
  <2>1. Now \in Places /\ Now.ep = 0
    BY DEF Init, AirInit, Now, Places
  <2>2. NotBefore(Now, Now)
    BY <2>1, PlacesOrdered
  <2>3. ReportsExplained(Now)
    BY <1>3, <2>1 DEF ReportsExplained, ExplainedBy
  <2>4. \A a \in Adapters : InTurn(rxq[a], Now, Now)
    BY <1>2 DEF InTurn
  <2> QED
    BY <2>1, <2>2, <2>3, <2>4 DEF ReachedInTurn
<1> QED
  BY <1>1, <1>2, <1>4, <1>5 DEF RunsInv

\* With one adapter, the receiver counts no restart that did not happen, apart
\* from the first packet, whatever is lost or damaged and however many restarts
\* it misses.  The restart window, added to a block number, must not wrap.
THEOREM LinkRestartsCounted ==
    ASSUME \A a, b \in Adapters : a = b,
           BlockSize >= 2, BlockSize \notin PastEndWords, MaxBlocks * BlockSize < UintRange,
           RestartWindow >= 1, MaxBlocks + RestartWindow < UintRange
    PROVE  Spec => []RestartsCounted
<1>1. RunsInv /\ [Next]_vars => RunsInv'
  BY RunsNext
<1>2. RunsInv => RestartsCounted
  <2> SUFFICES ASSUME RunsInv PROVE RestartsCounted
    OBVIOUS
  <2> DEFINE n == ReportCount(output)
             c == status["tx_restart_cnt"]
  <2>1. PICK p \in Places : NotBefore(Now, p) /\ ReportsExplained(p)
    BY DEF RunsInv, ReachedInTurn
  <2>2. p.ep <= epoch /\ p.ep \in Nat /\ epoch \in Nat
    <3>1. epoch \in Nat
      BY DEF RunsInv, LinkTypeInv, TypeOK, AirTypeOK
    <3> QED
      BY <2>1, <3>1 DEF NotBefore, Now, Places
  <2>3. n <= p.ep \/ n = p.ep + 1
    BY <2>1 DEF ReportsExplained, ExplainedBy
  <2>4. c <= n
    BY DEF RunsInv, GndRecent, RecentState, Current
  <2>5. c \in Nat
    BY DEF RunsInv, OrderInv, GndTypeOK, Counters
  <2>6. n \in Nat
    <3>1. output \in Seq(OutputEntries)
      BY DEF RunsInv, OrderInv, GndTypeOK, OutputEntries
    <3> QED
      BY <3>1, ReportsFinite
  <2> HIDE DEF n, c
  <2>7. c <= epoch + 1
    BY <2>2, <2>3, <2>4, <2>5, <2>6
  <2> QED
    BY <2>7 DEF c, RestartsCounted
<1> QED
  BY <1>1, <1>2, RunsInit, PTL DEF Spec

\* With one adapter, what is published after the report of the k-th restart
\* was sent after that restart.
THEOREM LinkRestartDropsOldRun ==
    ASSUME \A a, b \in Adapters : a = b,
           BlockSize >= 2, BlockSize \notin PastEndWords, MaxBlocks * BlockSize < UintRange,
           RestartWindow >= 1, MaxBlocks + RestartWindow < UintRange
    PROVE  Spec => []RestartDropsOldRun
<1>1. RunsInv /\ [Next]_vars => RunsInv'
  BY RunsNext
<1>2. RunsInv => RestartDropsOldRun
  <2>1. RunsInv => AllRecent(output)
    BY DEF RunsInv, GndRecent, RecentState, Current
  <2>2. AllRecent(output) => RestartDropsOldRun
    BY DEF AllRecent, RecentEntry, ReportsIn, RestartDropsOldRun
  <2> QED
    BY <2>1, <2>2
<1> QED
  BY <1>1, <1>2, RunsInit, PTL DEF Spec
=============================================================================
