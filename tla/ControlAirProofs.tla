-------------------------- MODULE ControlAirProofs --------------------------
(***************************************************************************)
(* How control_main_air.c collects the bytes of the flight controller, for *)
(* every chunk size, size of a read and number of copies: what one step    *)
(* keeps, for the ground station (TelemetryProofs) and for the plugins on  *)
(* the UAV (PartsProofs).                                                  *)
(***************************************************************************)
EXTENDS ControlAir, TLAPS

USE ControlAirAssumption

LEMMA ControlStart ==
    ASSUME ControlInit PROVE ControlTypeOK /\ ChunkCoversSerial
BY DEF ControlInit, ControlTypeOK, ChunkCoversSerial, BufferSize

\* A read that does not fill the chunk leaves room for the next one; what is
\* collected continues the stream.
LEMMA ReadSerialStep ==
    ASSUME ControlTypeOK, ChunkCoversSerial, NEW n \in 1 .. ReadBuf, ReadSerial(n)
    PROVE  ControlTypeOK' /\ ChunkCoversSerial'
<1>. DEFINE r == serial_read_bytes
<1>1. /\ copies_left = 0 /\ r + ReadBuf <= BufferSize /\ r \in Nat
      /\ BufferSize \in Nat /\ serial \in Nat /\ chunked \in Nat /\ serial = chunked + r
  BY DEF ReadSerial, ChunkCoversSerial, ControlTypeOK, BufferSize
<1>2. /\ serial_read_bytes' = r + n /\ serial' = serial + n
      /\ chunked' = chunked /\ frames' = frames /\ proxy_seq_number' = proxy_seq_number
      /\ transparent_buffer' = Copied(n)
  BY DEF ReadSerial
<1>3. copies_left' = (IF r + n >= Chucksize THEN NumAir * Retransmissions ELSE 0)
  BY DEF ReadSerial
<1>4. NumAir * Retransmissions \in Nat /\ NumAir * Retransmissions > 0
  OBVIOUS
<1>5. ASSUME NEW i \in 0 .. BufferSize - 1
      PROVE  transparent_buffer'[i] = IF i \in r .. r + n - 1 THEN serial + i - r + 1
                                      ELSE transparent_buffer[i]
  BY <1>2, <1>5 DEF Copied
<1>6. transparent_buffer' \in [0 .. BufferSize - 1 -> Nat]
  <2>1. ASSUME NEW i \in 0 .. BufferSize - 1
        PROVE  (IF i \in r .. r + n - 1 THEN serial + i - r + 1
                ELSE transparent_buffer[i]) \in Nat
    BY <1>1, <2>1 DEF ControlTypeOK
  <2>. QED BY <1>2, <2>1 DEF Copied
<1>7. ControlTypeOK'
  <2>1. /\ serial_read_bytes' \in Nat /\ serial' \in Nat /\ chunked' \in Nat
        /\ copies_left' \in 0 .. NumAir * Retransmissions
    BY <1>1, <1>2, <1>3, <1>4
  <2>2. frames' \in Nat /\ proxy_seq_number' \in 0 .. SeqRange - 1
    BY <1>2 DEF ControlTypeOK
  <2>3. transparent_buffer' \in [0 .. BufferSize' - 1 -> Nat]
    BY <1>6 DEF BufferSize
  <2>. QED BY <2>1, <2>2, <2>3 DEF ControlTypeOK
<1>8. serial_read_bytes' + ReadBuf <= BufferSize \/ copies_left' > 0
  BY <1>1, <1>2, <1>3, <1>4 DEF BufferSize
<1>9. serial_read_bytes' <= BufferSize /\ serial' = chunked' + serial_read_bytes'
  BY <1>1, <1>2
<1>10. ASSUME NEW i \in 0 .. serial_read_bytes' - 1
       PROVE  transparent_buffer'[i] = chunked' + i + 1
  <2>1. i \in 0 .. BufferSize - 1 /\ i \in Nat
    BY <1>1, <1>2, <1>10
  <2>2. CASE i < r
    BY <1>1, <1>2, <1>5, <2>1, <2>2 DEF ChunkCoversSerial
  <2>3. CASE i >= r
    BY <1>1, <1>2, <1>5, <1>10, <2>1, <2>3
  <2>. QED BY <1>1, <2>1, <2>2, <2>3
<1>11. BufferSize' = BufferSize
  BY DEF BufferSize
<1>. QED BY <1>7, <1>8, <1>9, <1>10, <1>11 DEF ChunkCoversSerial

\* Sending keeps the buffer; the last copy empties it.
LEMMA SendCopyStep ==
    ASSUME ControlTypeOK, ChunkCoversSerial, SendCopy
    PROVE  ControlTypeOK' /\ ChunkCoversSerial'
<1>1. NextSeqNum(proxy_seq_number) \in 0 .. SeqRange - 1
  BY DEF NextSeqNum, ControlTypeOK
<1>2. copies_left \in Nat /\ copies_left - 1 \in 0 .. NumAir * Retransmissions
  BY DEF SendCopy, ControlTypeOK
<1>3. CASE copies_left = 1
  BY <1>1, <1>2, <1>3 DEF SendCopy, ControlTypeOK, ChunkCoversSerial, BufferSize
<1>4. CASE copies_left # 1
  BY <1>1, <1>2, <1>4 DEF SendCopy, ControlTypeOK, ChunkCoversSerial, BufferSize
<1>. QED BY <1>3, <1>4
=============================================================================
