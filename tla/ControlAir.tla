----------------------------- MODULE ControlAir ------------------------------
(***************************************************************************)
(* The telemetry of the UAV in transparent mode (control_main_air.c, serial*)
(* protocol 5): the bytes of the flight controller are collected in chunks *)
(* and every chunk is sent several times on every adapter.                 *)
(*                                                                         *)
(* The bytes of the flight controller are numbered from 1 on.  The serial  *)
(* port is open; only a failed open is ever tried again.                   *)
(***************************************************************************)
EXTENDS Naturals, Sequences

CONSTANTS
    Chucksize,        \* chucksize: a chunk has at least so many bytes
    ReadBuf,          \* DB_TRANSPARENT_READBUF: bytes read at once
    Spare,            \* 256: what transparent_buffer has behind chucksize
    Retransmissions,  \* RETRANSMISSION_RATE
    NumAir,           \* adapters of the UAV
    SeqRange,         \* 256: sequence numbers of the raw protocol
    MaxBytes          \* bound: bytes the flight controller sends

ASSUME ControlAirAssumption ==
    /\ Chucksize \in Nat /\ ReadBuf \in Nat \ {0}
    /\ Spare \in Nat /\ ReadBuf <= Spare
    /\ Retransmissions \in Nat \ {0} /\ NumAir \in Nat \ {0}
    /\ SeqRange \in Nat \ {0} /\ MaxBytes \in Nat

VARIABLES
    transparent_buffer,
    serial_read_bytes,
    copies_left,        \* copies of the chunk not sent yet, 0: read the serial port
    proxy_seq_number,
    serial,             \* history: bytes read from the flight controller
    chunked,            \* history: bytes in the chunks sent so far
    frames              \* history: frames sent to the proxy

controlVars == <<transparent_buffer, serial_read_bytes, copies_left,
                 proxy_seq_number, serial, chunked, frames>>

BufferSize == Chucksize + Spare

ControlInit ==
    /\ transparent_buffer = [i \in 0 .. BufferSize - 1 |-> 0]
    /\ serial_read_bytes = 0
    /\ copies_left = 0
    /\ proxy_seq_number = 0
    /\ serial = 0
    /\ chunked = 0
    /\ frames = 0

\* Mutant: every read goes to the front of the buffer.
CopiedFromFront(n) ==
    [i \in 0 .. BufferSize - 1 |->
        IF i < n THEN serial + i + 1 ELSE transparent_buffer[i]]

\* memcpy of n bytes behind those already collected.
Copied(n) ==
    [i \in 0 .. BufferSize - 1 |->
        IF i \in serial_read_bytes .. serial_read_bytes + n - 1
        THEN serial + i - serial_read_bytes + 1
        ELSE transparent_buffer[i]]

\* read() returns n bytes.
ReadSerial(n) ==
    /\ copies_left = 0
    /\ n \in 1 .. ReadBuf
    /\ serial + n <= MaxBytes
    /\ transparent_buffer' = Copied(n)
    /\ serial_read_bytes' = serial_read_bytes + n
    /\ serial' = serial + n
    /\ copies_left' = IF serial_read_bytes + n >= Chucksize
                      THEN NumAir * Retransmissions ELSE 0
    /\ UNCHANGED <<proxy_seq_number, chunked, frames>>

\* Mutant: the number does not wrap.
NextSeqNumUnbounded(s) == s + 1

NextSeqNum(s) == IF s = SeqRange - 1 THEN 0 ELSE s + 1

\* The frame db_send_div sends next: update_seq_num comes first, so every copy
\* has a number of its own.
Chunk == [i \in 1 .. serial_read_bytes |-> transparent_buffer[i - 1]]
TelemetryFrame == [seq |-> NextSeqNum(proxy_seq_number), chunk |-> Chunk, nr |-> frames + 1]

SendCopy ==
    /\ copies_left > 0
    /\ copies_left' = copies_left - 1
    /\ proxy_seq_number' = NextSeqNum(proxy_seq_number)
    /\ frames' = frames + 1
    /\ IF copies_left = 1
       THEN /\ serial_read_bytes' = 0
            /\ chunked' = chunked + serial_read_bytes
       ELSE UNCHANGED <<serial_read_bytes, chunked>>
    /\ UNCHANGED <<transparent_buffer, serial>>

-----------------------------------------------------------------------------
ControlTypeOK ==
    /\ transparent_buffer \in [0 .. BufferSize - 1 -> Nat]
    /\ serial_read_bytes \in Nat
    /\ copies_left \in 0 .. NumAir * Retransmissions
    /\ proxy_seq_number \in 0 .. SeqRange - 1
    /\ serial \in Nat /\ chunked \in Nat /\ frames \in Nat

\* However read() cuts the serial stream, the buffer holds exactly the bytes
\* read since the chunk before, in order, and memcpy never writes behind it.
ChunkCoversSerial ==
    /\ serial_read_bytes + ReadBuf <= BufferSize \/ copies_left > 0
    /\ serial_read_bytes <= BufferSize
    /\ serial = chunked + serial_read_bytes
    /\ \A i \in 0 .. serial_read_bytes - 1 : transparent_buffer[i] = chunked + i + 1
=============================================================================
