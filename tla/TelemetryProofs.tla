--------------------------- MODULE TelemetryProofs ---------------------------
(***************************************************************************)
(* Proofs about Telemetry, for every chunk size, number of adapters,       *)
(* clients and slots, and every lag between the adapters: the chunks cover *)
(* the serial stream, a client in a served slot gets exactly what was      *)
(* logged since it was stored, no frame is logged twice or out of order    *)
(* unless one was late, and the filter drops copies only.                  *)
(***************************************************************************)
EXTENDS Telemetry, ControlAirProofs, SequenceTheorems

\* A client that was not accepted has got nothing, and a client is in the table
\* at most once and only after it was accepted.
Waiting(c) == conn[c] \in {"idle", "backlog"}
TableInv ==
    /\ \A c \in Clients : Waiting(c) => got[c] = <<>>
    /\ \A i \in SlotNums : tcp_clients[i] \in Clients => ~Waiting(tcp_clients[i])
    /\ \A i, j \in SlotNums :
          tcp_clients[i] \in Clients /\ tcp_clients[i] = tcp_clients[j] => i = j

\* joined never lies behind the end of the log.
JoinedInv == \A c \in Clients : joined[c] <= Len(log)

ProxyInv == ProxyTypeOK /\ TableInv /\ JoinedInv /\ ServedClientFollowsLog
RadioInv ==
    /\ rxq \in [GndAdapters -> Seq(ProxyFrames)]
    /\ last_read \in Nat /\ late \in BOOLEAN /\ apart \in BOOLEAN
TelemetryInv == ControlTypeOK /\ ChunkCoversSerial /\ ProxyInv /\ RadioInv

USE ControlAirAssumption, ProxyAssumption, TelemetryAssumption

-----------------------------------------------------------------------------
(* The frames of the UAV.                                                  *)

\* What is sent to the proxy is a frame of the type the proxy expects.
LEMMA TelemetryFrameType ==
    ASSUME ControlTypeOK, ChunkCoversSerial
    PROVE  TelemetryFrame \in ProxyFrames
<1>1. NextSeqNum(proxy_seq_number) \in Nat
  BY DEF NextSeqNum, ControlTypeOK
<1>2. Chunk \in Seq(Nat)
  <2>1. \A i \in 1 .. serial_read_bytes : i - 1 \in 0 .. BufferSize - 1
    BY DEF ControlTypeOK, ChunkCoversSerial, BufferSize
  <2>2. \A i \in 1 .. serial_read_bytes : transparent_buffer[i - 1] \in Nat
    BY <2>1 DEF ControlTypeOK
  <2>3. Chunk \in [1 .. serial_read_bytes -> Nat]
    BY <2>2 DEF Chunk
  <2>. QED BY <2>3 DEF ControlTypeOK
<1>. QED BY <1>1, <1>2 DEF TelemetryFrame, ProxyFrames, ControlTypeOK

-----------------------------------------------------------------------------
(* The client table.                                                       *)

\* What a sequence grows by is what its tail grows by.
LEMMA SubSeqAppend ==
    ASSUME NEW S, NEW s \in Seq(S), NEW f \in S, NEW k \in Nat, k <= Len(s)
    PROVE  SubSeq(Append(s, f), k + 1, Len(s) + 1) = Append(SubSeq(s, k + 1, Len(s)), f)
<1>. DEFINE u == SubSeq(Append(s, f), k + 1, Len(s) + 1)
            v == Append(SubSeq(s, k + 1, Len(s)), f)
<1>1. u \in Seq(S) /\ Len(u) = Len(s) + 1 - k
  OBVIOUS
<1>2. v \in Seq(S) /\ Len(v) = Len(s) + 1 - k
  OBVIOUS
<1>3. ASSUME NEW i \in 1 .. Len(s) + 1 - k
      PROVE  u[i] = v[i]
  <2>1. Append(s, f) \in Seq(S) /\ Len(Append(s, f)) = Len(s) + 1
    OBVIOUS
  <2>2. k + i \in 1 .. Len(s) + 1
    OBVIOUS
  <2>3. u[i] = Append(s, f)[k + i]
    BY <2>1, <2>2
  <2>4. SubSeq(s, k + 1, Len(s)) \in Seq(S) /\ Len(SubSeq(s, k + 1, Len(s))) = Len(s) - k
    OBVIOUS
  <2>. HIDE DEF u, v
  <2>5. CASE i <= Len(s) - k
    <3>1. Append(s, f)[k + i] = s[k + i]
      BY <2>2, <2>5
    <3>2. v[i] = SubSeq(s, k + 1, Len(s))[i]
      BY <2>4, <2>5 DEF v
    <3>3. SubSeq(s, k + 1, Len(s))[i] = s[k + i]
      BY <2>5
    <3>. QED BY <2>3, <3>1, <3>2, <3>3
  <2>6. CASE i = Len(s) + 1 - k
    <3>1. Append(s, f)[k + i] = f
      BY <2>6
    <3>2. v[i] = f
      BY <2>4, <2>6 DEF v
    <3>. QED BY <2>3, <3>1, <3>2
  <2>. QED BY <2>5, <2>6
<1>. HIDE DEF u, v
<1>4. u = v
  BY <1>1, <1>2, <1>3, SeqEqual
<1>. QED BY <1>4 DEF u, v

\* A client that joins now has missed nothing.
LEMMA SubSeqNothing ==
    ASSUME NEW S, NEW s \in Seq(S)
    PROVE  SubSeq(s, Len(s) + 1, Len(s)) = <<>>
OBVIOUS

\* A client that waits in the backlog touches nothing of the table.
LEMMA ConnectStep ==
    ASSUME ProxyInv, NEW c \in Clients, Connect(c)
    PROVE  ProxyInv'
<1>1. ProxyTypeOK'
  BY DEF ProxyInv, Connect, ProxyTypeOK, ConnStates
<1>2. TableInv'
  BY DEF ProxyInv, Connect, ProxyTypeOK, TableInv, Waiting
<1>3. JoinedInv' /\ ServedClientFollowsLog'
  BY DEF ProxyInv, Connect, JoinedInv, ServedClientFollowsLog
<1>. QED BY <1>1, <1>2, <1>3 DEF ProxyInv

\* What a client sends does not change what it gets.
LEMMA ClientSendsStep ==
    ASSUME ProxyInv, NEW c \in Clients, ClientSends(c)
    PROVE  ProxyInv'
<1>1. ProxyTypeOK'
  BY DEF ProxyInv, ClientSends, ProxyTypeOK
<1>2. TableInv' /\ JoinedInv' /\ ServedClientFollowsLog'
  BY DEF ProxyInv, ClientSends, TableInv, Waiting, JoinedInv, ServedClientFollowsLog
<1>. QED BY <1>1, <1>2 DEF ProxyInv

\* A client that left stays in the table until it is read.
LEMMA ClientLeavesStep ==
    ASSUME ProxyInv, NEW c \in Clients, NEW how \in {"hungup", "reset"}, ClientLeaves(c, how)
    PROVE  ProxyInv'
<1>1. ProxyTypeOK'
  BY DEF ProxyInv, ClientLeaves, ProxyTypeOK, ConnStates
<1>2. TableInv'
  BY DEF ProxyInv, ClientLeaves, ProxyTypeOK, TableInv, Waiting
<1>3. JoinedInv' /\ ServedClientFollowsLog'
  BY DEF ProxyInv, ClientLeaves, JoinedInv, ServedClientFollowsLog
<1>. QED BY <1>1, <1>2, <1>3 DEF ProxyInv

\* At most one slot is the first free one, and it was empty.
LEMMA OneFirstFree ==
    ASSUME NEW i \in SlotNums, NEW j \in SlotNums, FirstFree(i), FirstFree(j)
    PROVE  i = j /\ tcp_clients[i] = Empty
BY DEF FirstFree, SlotNums

\* An accepted client was in no slot, takes at most one, and its log starts now.
LEMMA AcceptClientStep ==
    ASSUME ProxyInv, NEW c \in Clients, AcceptClient(c)
    PROVE  ProxyInv'
<1>1. ProxyTypeOK'
  <2>1. StoreClient(c) \in [SlotNums -> Clients \cup {Empty, Failed}]
    BY DEF ProxyInv, ProxyTypeOK, StoreClient
  <2>2. Len(log) \in Nat
    BY DEF ProxyInv, ProxyTypeOK
  <2>. QED BY <2>1, <2>2 DEF ProxyInv, AcceptClient, ProxyTypeOK, ConnStates
<1>2. \A i \in SlotNums : tcp_clients'[i] = IF FirstFree(i) THEN c ELSE tcp_clients[i]
  BY DEF AcceptClient, StoreClient
<1>3. /\ \A i \in SlotNums : tcp_clients[i] # c
      /\ got[c] = <<>> /\ conn[c] = "backlog"
  BY DEF ProxyInv, TableInv, Waiting, AcceptClient
<1>4. \A d \in Clients : conn'[d] = IF d = c THEN "open" ELSE conn[d]
  BY DEF ProxyInv, ProxyTypeOK, AcceptClient
<1>5. \A d \in Clients : joined'[d] = IF d = c THEN Len(log) ELSE joined[d]
  BY DEF ProxyInv, ProxyTypeOK, AcceptClient
<1>6. got' = got /\ log' = log
  BY DEF AcceptClient
<1>7. TableInv'
  <2>1. ASSUME NEW d \in Clients, Waiting(d)'
        PROVE  got'[d] = <<>>
    BY <1>4, <1>6, <2>1 DEF ProxyInv, TableInv, Waiting
  <2>2. ASSUME NEW i \in SlotNums, tcp_clients'[i] \in Clients
        PROVE  ~Waiting(tcp_clients[i])'
    BY <1>2, <1>4, <2>2 DEF ProxyInv, TableInv, Waiting
  <2>3. ASSUME NEW i \in SlotNums, NEW j \in SlotNums,
               tcp_clients'[i] \in Clients, tcp_clients'[i] = tcp_clients'[j]
        PROVE  i = j
    BY <1>2, <1>3, <2>3, OneFirstFree DEF ProxyInv, TableInv
  <2>. QED BY <2>1, <2>2, <2>3 DEF TableInv
<1>8. JoinedInv'
  <2>1. Len(log) \in Nat
    BY DEF ProxyInv, ProxyTypeOK
  <2>2. \A d \in Clients : joined[d] <= Len(log)
    BY DEF ProxyInv, JoinedInv
  <2>. QED BY <1>5, <1>6, <2>1, <2>2 DEF JoinedInv
<1>9. ASSUME NEW i \in SlotNums, i < ServedSlots, tcp_clients'[i] \in Clients
      PROVE  got'[tcp_clients'[i]] = SubSeq(log', joined'[tcp_clients'[i]] + 1, Len(log'))
  <2>1. CASE FirstFree(i)
    BY <1>2, <1>3, <1>5, <1>6, <2>1, SubSeqNothing DEF ProxyInv, ProxyTypeOK
  <2>2. CASE ~FirstFree(i)
    BY <1>2, <1>3, <1>5, <1>6, <1>9, <2>2 DEF ProxyInv, ServedClientFollowsLog
  <2>. QED BY <2>1, <2>2
<1>10. ServedClientFollowsLog'
  BY <1>9 DEF ServedClientFollowsLog
<1>. QED BY <1>1, <1>7, <1>8, <1>10 DEF ProxyInv

\* The -1 of a failed accept displaces no client.
LEMMA AcceptFailsStep ==
    ASSUME ProxyInv, NEW c \in Clients, AcceptFails(c)
    PROVE  ProxyInv'
<1>1. StoreClient(Failed) \in [SlotNums -> Clients \cup {Empty, Failed}]
  BY DEF ProxyInv, ProxyTypeOK, StoreClient
<1>2. ProxyTypeOK'
  BY <1>1 DEF ProxyInv, AcceptFails, ProxyTypeOK
<1>3. \A i \in SlotNums : tcp_clients'[i] \in Clients => tcp_clients'[i] = tcp_clients[i]
  BY DEF AcceptFails, StoreClient
<1>4. TableInv' /\ JoinedInv' /\ ServedClientFollowsLog'
  BY <1>3 DEF ProxyInv, AcceptFails, TableInv, Waiting, JoinedInv, ServedClientFollowsLog
<1>. QED BY <1>2, <1>4 DEF ProxyInv

\* Reading a client only ever empties its own slot.
LEMMA ServeClientStep ==
    ASSUME ProxyInv, NEW k \in SlotNums, ServeClient(k)
    PROVE  ProxyInv'
<1>1. /\ tcp_clients' \in [SlotNums -> Clients \cup {Empty, Failed}]
      /\ \A i \in SlotNums : tcp_clients'[i] \in Clients => tcp_clients'[i] = tcp_clients[i]
  BY DEF ProxyInv, ProxyTypeOK, ServeClient
<1>2. inbox' \in [Clients -> Nat] /\ relayed' \in [Clients -> Nat] /\ running' \in BOOLEAN
  <2>. DEFINE c == tcp_clients[k]
  <2>1. /\ inbox \in [Clients -> Nat] /\ relayed \in [Clients -> Nat]
        /\ running \in BOOLEAN /\ c \in Clients
    BY DEF ProxyInv, ProxyTypeOK, ServeClient
  <2>2. CASE UNCHANGED <<inbox, relayed>> /\ (running' = running \/ running' = FALSE)
    BY <2>1, <2>2
  <2>3. CASE \E n \in 1 .. inbox[c] :
                /\ inbox' = [inbox EXCEPT ![c] = @ - n]
                /\ relayed' = [relayed EXCEPT ![c] = @ + n]
                /\ running' = running
    <3>1. PICK n \in 1 .. inbox[c] :
                /\ inbox' = [inbox EXCEPT ![c] = @ - n]
                /\ relayed' = [relayed EXCEPT ![c] = @ + n]
                /\ running' = running
      BY <2>3
    <3>2. inbox[c] - n \in Nat /\ relayed[c] + n \in Nat
      BY <2>1
    <3>. QED BY <2>1, <3>1, <3>2
  <2>. QED BY <2>2, <2>3 DEF ServeClient
<1>3. UNCHANGED <<last_recv_seq_num, conn, log, got, joined, failures>>
  BY DEF ServeClient
<1>4. ProxyTypeOK'
  BY <1>1, <1>2, <1>3 DEF ProxyInv, ProxyTypeOK
<1>5. TableInv' /\ JoinedInv' /\ ServedClientFollowsLog'
  BY <1>1, <1>3 DEF ProxyInv, TableInv, Waiting, JoinedInv, ServedClientFollowsLog
<1>. QED BY <1>4, <1>5 DEF ProxyInv

\* A new frame goes to the log and to every client in a served slot.
LEMMA ProxyReceiveStep ==
    ASSUME ProxyInv, NEW f \in ProxyFrames, ProxyReceive(f)
    PROVE  ProxyInv'
<1>1. CASE IsCopy(last_recv_seq_num, f)
  BY <1>1 DEF ProxyInv, ProxyReceive, ProxyTypeOK, TableInv, Waiting, JoinedInv,
              ServedClientFollowsLog
<1>2. CASE ~IsCopy(last_recv_seq_num, f)
  <2>1. /\ last_recv_seq_num' = f.seq /\ log' = Append(log, f)
        /\ got' = [c \in Clients |-> IF c \in Receivers THEN Append(got[c], f) ELSE got[c]]
        /\ UNCHANGED <<tcp_clients, running, conn, inbox, relayed, joined, failures>>
    BY <1>2 DEF ProxyReceive
  <2>2. /\ f.seq \in Nat /\ log \in Seq(ProxyFrames) /\ log' \in Seq(ProxyFrames)
        /\ Len(log') = Len(log) + 1 /\ Len(log) \in Nat
    BY <2>1 DEF ProxyInv, ProxyTypeOK, ProxyFrames
  <2>3. got' \in [Clients -> Seq(ProxyFrames)]
    BY <2>1 DEF ProxyInv, ProxyTypeOK
  <2>4. ProxyTypeOK'
    BY <2>1, <2>2, <2>3 DEF ProxyInv, ProxyTypeOK
  <2>5. \A c \in Receivers : ~Waiting(c)
    BY DEF ProxyInv, TableInv, Receivers
  <2>6. TableInv'
    BY <2>1, <2>5 DEF ProxyInv, TableInv, Waiting
  <2>7. JoinedInv'
    BY <2>1, <2>2 DEF ProxyInv, ProxyTypeOK, JoinedInv
  <2>8. ASSUME NEW i \in SlotNums, i < ServedSlots, tcp_clients[i] \in Clients
        PROVE  got'[tcp_clients[i]] = SubSeq(log', joined[tcp_clients[i]] + 1, Len(log'))
    <3>. DEFINE c == tcp_clients[i]
    <3>1. c \in Clients /\ c \in Receivers
      BY <2>8 DEF Receivers
    <3>2. got'[c] = Append(got[c], f)
      BY <2>1, <3>1
    <3>3. got[c] = SubSeq(log, joined[c] + 1, Len(log))
      BY <2>8 DEF ProxyInv, ServedClientFollowsLog
    <3>4. joined[c] \in Nat /\ joined[c] <= Len(log)
      BY <3>1 DEF ProxyInv, ProxyTypeOK, JoinedInv
    <3>. HIDE DEF c
    <3>5. SubSeq(Append(log, f), joined[c] + 1, Len(log) + 1)
             = Append(SubSeq(log, joined[c] + 1, Len(log)), f)
      BY <2>2, <3>4, SubSeqAppend
    <3>6. got'[c] = SubSeq(log', joined[c] + 1, Len(log'))
      BY <2>1, <2>2, <3>2, <3>3, <3>5
    <3>. QED BY <3>6 DEF c
  <2>9. ServedClientFollowsLog'
    BY <2>1, <2>8 DEF ServedClientFollowsLog
  <2>. QED BY <2>4, <2>6, <2>7, <2>9 DEF ProxyInv
<1>. QED BY <1>1, <1>2

\* All steps of clients and of the proxy that involve no frame.
LEMMA ProxyStepInv ==
    ASSUME ProxyInv, ProxyNext
    PROVE  ProxyInv'
BY ConnectStep, ClientSendsStep, ClientLeavesStep, AcceptClientStep, AcceptFailsStep,
   ServeClientStep DEF ProxyNext

-----------------------------------------------------------------------------
(* The composition.                                                        *)

\* What a receive buffer holds after a frame was sent.
LEMMA TransmitQueues ==
    ASSUME TelemetryInv, Transmit, NEW a \in GndAdapters
    PROVE  /\ TelemetryFrame \in ProxyFrames
           /\ rxq'[a] = rxq[a] \/ rxq'[a] = Append(rxq[a], TelemetryFrame)
<1>1. TelemetryFrame \in ProxyFrames
  BY TelemetryFrameType DEF TelemetryInv
<1>2. PICK reached \in SUBSET GndAdapters :
          rxq' = [b \in GndAdapters |->
                     IF b \in reached /\ Len(rxq[b]) < MaxQueue
                     THEN Append(rxq[b], TelemetryFrame) ELSE rxq[b]]
  BY DEF Transmit
<1>. QED BY <1>1, <1>2, Zenon

\* The radio delivers frames.
LEMMA TransmitStep ==
    ASSUME TelemetryInv, Transmit
    PROVE  RadioInv'
<1>1. ASSUME NEW a \in GndAdapters
      PROVE  rxq'[a] \in Seq(ProxyFrames)
  <2>1. rxq[a] \in Seq(ProxyFrames) /\ TelemetryFrame \in ProxyFrames
    BY TransmitQueues DEF TelemetryInv, RadioInv
  <2>2. Append(rxq[a], TelemetryFrame) \in Seq(ProxyFrames)
    BY <2>1
  <2>. QED BY <2>1, <2>2, TransmitQueues
<1>2. rxq' \in [GndAdapters -> Seq(ProxyFrames)]
  BY <1>1 DEF Transmit
<1>. QED BY <1>2 DEF Transmit, TelemetryInv, RadioInv

\* The proxy takes a frame from an adapter.
LEMMA ReceiveStep ==
    ASSUME TelemetryInv, NEW a \in GndAdapters, Receive(a)
    PROVE  ProxyInv' /\ RadioInv'
<1>1. rxq[a] \in Seq(ProxyFrames) /\ rxq[a] # <<>> /\ ProxyInv
  BY DEF TelemetryInv, RadioInv, Receive
<1>2. Head(rxq[a]) \in ProxyFrames /\ Tail(rxq[a]) \in Seq(ProxyFrames)
  BY <1>1
<1>3. ProxyInv'
  BY <1>1, <1>2, ProxyReceiveStep DEF Receive
<1>4. rxq' \in [GndAdapters -> Seq(ProxyFrames)]
  BY <1>2 DEF TelemetryInv, RadioInv, Receive
<1>5. last_read' \in Nat
  BY <1>2 DEF Receive, ProxyFrames
<1>6. late' \in BOOLEAN /\ apart' \in BOOLEAN
  BY DEF Receive
<1>. QED BY <1>3, <1>4, <1>5, <1>6 DEF RadioInv

\* The initial state satisfies the inductive invariant.
LEMMA TelemetryInit == Init => TelemetryInv
<1>. SUFFICES ASSUME Init
              PROVE  TelemetryInv
  OBVIOUS
<1>1. BufferSize \in Nat /\ NumAir * Retransmissions \in Nat
  BY DEF BufferSize
<1>2. ControlTypeOK
  BY <1>1 DEF Init, ControlInit, ControlTypeOK
<1>3. ChunkCoversSerial
  BY DEF Init, ControlInit, ChunkCoversSerial, BufferSize
<1>4. ProxyTypeOK
  BY DEF Init, ProxyInit, ProxyTypeOK, ConnStates
<1>5. TableInv /\ JoinedInv /\ ServedClientFollowsLog
  BY DEF Init, ProxyInit, TableInv, JoinedInv, ServedClientFollowsLog, Waiting
<1>6. RadioInv
  <2>1. rxq \in [GndAdapters -> Seq(ProxyFrames)] /\ last_read \in Nat
    BY DEF Init
  <2>2. late \in BOOLEAN /\ apart \in BOOLEAN
    BY Zenon DEF Init
  <2>. QED BY <2>1, <2>2 DEF RadioInv
<1>. QED BY <1>2, <1>3, <1>4, <1>5, <1>6 DEF TelemetryInv, ProxyInv

\* Every step keeps the inductive invariant.
LEMMA TelemetryStep == TelemetryInv /\ [Next]_vars => TelemetryInv'
<1>. SUFFICES ASSUME TelemetryInv, [Next]_vars
              PROVE  TelemetryInv'
  OBVIOUS
<1>1. CASE Collect
  <2>1. ControlTypeOK' /\ ChunkCoversSerial'
    BY <1>1, ReadSerialStep DEF Collect, TelemetryInv
  <2>2. UNCHANGED <<proxyVars, radioVars>>
    BY <1>1 DEF Collect
  <2>3. ProxyInv'
    BY <2>2 DEF TelemetryInv, ProxyInv, proxyVars, ProxyTypeOK, TableInv, Waiting,
                JoinedInv, ServedClientFollowsLog
  <2>4. RadioInv'
    BY <2>2 DEF TelemetryInv, RadioInv, radioVars
  <2>. QED BY <2>1, <2>3, <2>4 DEF TelemetryInv
<1>2. CASE Transmit
  <2>1. ControlTypeOK' /\ ChunkCoversSerial'
    BY <1>2, SendCopyStep DEF Transmit, TelemetryInv
  <2>2. UNCHANGED proxyVars
    BY <1>2 DEF Transmit
  <2>3. ProxyInv'
    BY <2>2 DEF TelemetryInv, ProxyInv, proxyVars, ProxyTypeOK, TableInv, Waiting,
                JoinedInv, ServedClientFollowsLog
  <2>. QED BY <1>2, <2>1, <2>3, TransmitStep DEF TelemetryInv
<1>3. CASE \E a \in GndAdapters : Receive(a)
  <2>1. UNCHANGED controlVars
    BY <1>3 DEF Receive
  <2>2. ControlTypeOK' /\ ChunkCoversSerial'
    BY <2>1 DEF TelemetryInv, controlVars, ControlTypeOK, ChunkCoversSerial, BufferSize
  <2>. QED BY <1>3, <2>2, ReceiveStep DEF TelemetryInv
<1>4. CASE ProxyStep
  <2>1. UNCHANGED <<controlVars, radioVars>> /\ ProxyInv'
    BY <1>4, ProxyStepInv DEF ProxyStep, TelemetryInv
  <2>2. ControlTypeOK' /\ ChunkCoversSerial' /\ RadioInv'
    BY <2>1 DEF TelemetryInv, controlVars, ControlTypeOK, ChunkCoversSerial, BufferSize,
                RadioInv, radioVars
  <2>. QED BY <2>1, <2>2 DEF TelemetryInv
<1>5. CASE UNCHANGED vars
  <2>1. UNCHANGED <<controlVars, proxyVars, radioVars>>
    BY <1>5 DEF vars
  <2>2. ControlTypeOK' /\ ChunkCoversSerial' /\ RadioInv'
    BY <2>1 DEF TelemetryInv, controlVars, ControlTypeOK, ChunkCoversSerial, BufferSize,
                RadioInv, radioVars
  <2>3. ProxyInv'
    BY <2>1 DEF TelemetryInv, ProxyInv, proxyVars, ProxyTypeOK, TableInv, Waiting,
                JoinedInv, ServedClientFollowsLog
  <2>. QED BY <2>2, <2>3 DEF TelemetryInv
<1>. QED BY <1>1, <1>2, <1>3, <1>4, <1>5 DEF Next

\* The variables of the telemetry path keep their types; among them the sequence
\* number, which update_seq_num keeps in one byte.
THEOREM TelemetryTypeCorrect == Spec => []TelemetryTypeOK
<1>1. TelemetryInv => TelemetryTypeOK
  BY DEF TelemetryInv, TelemetryTypeOK, ProxyInv, RadioInv
<1>. QED BY <1>1, TelemetryInit, TelemetryStep, PTL DEF Spec

\* For every chunk size, and every way read() cuts the stream of the flight
\* controller, transparent_buffer holds the bytes since the chunk before and
\* memcpy stays inside it (control_main_air.c, transparent mode).
THEOREM ChunksCoverSerial == Spec => []ChunkCoversSerial
<1>1. TelemetryInv => ChunkCoversSerial
  BY DEF TelemetryInv
<1>. QED BY <1>1, TelemetryInit, TelemetryStep, PTL DEF Spec

\* For any number of clients and slots, a client in one of the slots that
\* send_to_all_tcp_clients reaches has been sent exactly the telemetry logged
\* since it was accepted.
THEOREM ServedClientsFollowLog == Spec => []ServedClientFollowsLog
<1>1. TelemetryInv => ServedClientFollowsLog
  BY DEF TelemetryInv, ProxyInv
<1>. QED BY <1>1, TelemetryInit, TelemetryStep, PTL DEF Spec

-----------------------------------------------------------------------------
(* The filter for copies.                                                  *)

\* The pairs of a frame and its number that matter: what was sent last, what the
\* proxy read last, and what waits at the adapters.
IsMark(n, s) ==
    \/ n = frames /\ s = proxy_seq_number
    \/ n = last_read /\ s = last_recv_seq_num
    \/ \E a \in GndAdapters : \E i \in 1 .. Len(rxq[a]) :
          n = rxq[a][i].nr /\ s = rxq[a][i].seq

\* The numbers of frames less than SeqRange apart tell how far apart they are.
MarkTypes == \A n, s \in Nat : IsMark(n, s) => n <= frames /\ s < SeqRange
Distances ==
    \A m, n, s, t \in Nat :
        IsMark(m, s) /\ IsMark(n, t) /\ m <= n /\ n < m + SeqRange
            => t - s = n - m \/ t - s = n - m - SeqRange

LogBehind == ~late => \A i \in 1 .. Len(log) : log[i].nr <= last_read
LogStrict == ~late => \A i, j \in 1 .. Len(log) : i < j => log[i].nr < log[j].nr
FilterInv ==
    TelemetryInv /\ MarkTypes /\ Distances /\ LogBehind /\ LogStrict /\ NewFrameLogged

\* Types of the numbers that are compared.
LEMMA FilterTypes ==
    ASSUME TelemetryInv
    PROVE  /\ frames \in Nat /\ proxy_seq_number \in Nat /\ proxy_seq_number < SeqRange
           /\ last_read \in Nat /\ last_recv_seq_num \in Nat
           /\ log \in Seq(ProxyFrames) /\ Len(log) \in Nat
           /\ SeqRange \in Nat /\ SeqRange > 0
BY DEF TelemetryInv, ControlTypeOK, ProxyInv, ProxyTypeOK, RadioInv

\* One step of update_seq_num keeps the distances.
LEMMA NextDistance ==
    ASSUME NEW m \in Nat, NEW s \in Nat, NEW n \in Nat, NEW t \in Nat,
           SeqRange \in Nat, m <= n, s < SeqRange, t < SeqRange,
           n + 1 < m + SeqRange,
           t - s = n - m \/ t - s = n - m - SeqRange
    PROVE  \/ NextSeqNum(t) - s = n + 1 - m
           \/ NextSeqNum(t) - s = n + 1 - m - SeqRange
BY DEF NextSeqNum

\* After a transmission there is one more mark.
LEMMA TransmitMarks ==
    ASSUME FilterInv, Transmit
    PROVE  MarkTypes' /\ Distances'
<1>1. /\ frames \in Nat /\ proxy_seq_number \in Nat /\ proxy_seq_number < SeqRange
      /\ last_read \in Nat /\ SeqRange \in Nat /\ SeqRange > 0
  BY FilterTypes DEF FilterInv
<1>2. /\ frames' = frames + 1 /\ proxy_seq_number' = NextSeqNum(proxy_seq_number)
      /\ last_read' = last_read /\ last_recv_seq_num' = last_recv_seq_num
  BY DEF Transmit, SendCopy, proxyVars
<1>3. NextSeqNum(proxy_seq_number) \in Nat /\ NextSeqNum(proxy_seq_number) < SeqRange
  BY <1>1 DEF NextSeqNum
<1>4. ASSUME NEW n \in Nat, NEW s \in Nat, IsMark(n, s)'
      PROVE  IsMark(n, s) \/ (n = frames + 1 /\ s = NextSeqNum(proxy_seq_number))
  <2>1. CASE \E a \in GndAdapters : \E i \in 1 .. Len(rxq'[a]) :
                n = rxq'[a][i].nr /\ s = rxq'[a][i].seq
    <3>1. PICK a \in GndAdapters : \E i \in 1 .. Len(rxq'[a]) :
                n = rxq'[a][i].nr /\ s = rxq'[a][i].seq
      BY <2>1
    <3>2. PICK i \in 1 .. Len(rxq'[a]) : n = rxq'[a][i].nr /\ s = rxq'[a][i].seq
      BY <3>1
    <3>3. rxq[a] \in Seq(ProxyFrames) /\ TelemetryFrame \in ProxyFrames
      BY TransmitQueues DEF FilterInv, TelemetryInv, RadioInv
    <3>4. CASE rxq'[a] = rxq[a]
      BY <3>2, <3>4 DEF IsMark
    <3>5. CASE rxq'[a] = Append(rxq[a], TelemetryFrame)
      <4>1. \/ i \in 1 .. Len(rxq[a]) /\ rxq'[a][i] = rxq[a][i]
            \/ rxq'[a][i] = TelemetryFrame
        BY <3>2, <3>3, <3>5
      <4>2. TelemetryFrame.nr = frames + 1 /\ TelemetryFrame.seq = NextSeqNum(proxy_seq_number)
        BY DEF TelemetryFrame
      <4>. QED BY <3>2, <4>1, <4>2 DEF IsMark
    <3>. QED BY <3>4, <3>5, TransmitQueues DEF FilterInv
  <2>. QED BY <1>2, <1>4, <2>1 DEF IsMark
<1>5. MarkTypes'
  BY <1>1, <1>2, <1>3, <1>4 DEF MarkTypes, FilterInv
<1>6. ASSUME NEW m \in Nat, NEW n \in Nat, NEW s \in Nat, NEW t \in Nat,
             IsMark(m, s)', IsMark(n, t)', m <= n, n < m + SeqRange
      PROVE  t - s = n - m \/ t - s = n - m - SeqRange
  <2>1. CASE IsMark(m, s) /\ IsMark(n, t)
    BY <1>6, <2>1 DEF FilterInv, Distances
  <2>2. CASE IsMark(m, s) /\ n = frames + 1 /\ t = NextSeqNum(proxy_seq_number)
    <3>1. m <= frames /\ s < SeqRange
      BY <2>2 DEF FilterInv, MarkTypes
    <3>2. IsMark(frames, proxy_seq_number)
      BY DEF IsMark
    <3>3. \/ proxy_seq_number - s = frames - m
          \/ proxy_seq_number - s = frames - m - SeqRange
      BY <1>1, <1>6, <2>2, <3>1, <3>2 DEF FilterInv, Distances
    <3>. QED BY <1>1, <1>6, <2>2, <3>1, <3>3, NextDistance
  <2>3. CASE m = frames + 1 /\ s = NextSeqNum(proxy_seq_number) /\ IsMark(n, t)
    <3>1. n <= frames
      BY <2>3 DEF FilterInv, MarkTypes
    <3>. QED BY <1>1, <1>6, <2>3, <3>1
  <2>4. CASE /\ m = frames + 1 /\ s = NextSeqNum(proxy_seq_number)
             /\ n = frames + 1 /\ t = NextSeqNum(proxy_seq_number)
    BY <1>1, <1>3, <2>4
  <2>. QED BY <1>4, <1>6, <2>1, <2>2, <2>3, <2>4
<1>7. Distances'
  BY <1>6 DEF Distances
<1>. QED BY <1>5, <1>7

\* What the proxy reads was a mark before, and equal numbers less than SeqRange
\* frames apart belong to one frame.
LEMMA ReceiveFacts ==
    ASSUME FilterInv, NEW a \in GndAdapters, Receive(a)
    PROVE  LET f == Head(rxq[a])
           IN  /\ f \in ProxyFrames /\ f.nr \in Nat /\ f.seq \in Nat
               /\ IsMark(f.nr, f.seq)
               /\ last_read' = f.nr /\ last_recv_seq_num' = f.seq
               /\ f.nr = last_read => f.seq = last_recv_seq_num
               /\ f.seq = last_recv_seq_num /\ ~FarApart(last_read, f.nr) => f.nr = last_read
<1>. DEFINE f == Head(rxq[a])
<1>1. rxq[a] \in Seq(ProxyFrames) /\ rxq[a] # <<>>
  BY DEF FilterInv, TelemetryInv, RadioInv, Receive
<1>2. f \in ProxyFrames /\ f = rxq[a][1] /\ 1 \in 1 .. Len(rxq[a])
  BY <1>1
<1>3. f.nr \in Nat /\ f.seq \in Nat
  BY <1>2 DEF ProxyFrames
<1>4. IsMark(f.nr, f.seq)
  BY <1>2, Zenon DEF IsMark
<1>5. last_read' = f.nr /\ last_recv_seq_num' = f.seq
  BY DEF Receive, ProxyReceive, IsCopy
<1>6. IsMark(last_read, last_recv_seq_num)
  BY DEF IsMark
<1>7. /\ last_read \in Nat /\ last_recv_seq_num \in Nat /\ SeqRange \in Nat /\ SeqRange > 0
      /\ last_recv_seq_num < SeqRange /\ f.seq < SeqRange
  BY <1>3, <1>4, <1>6, FilterTypes DEF FilterInv, MarkTypes
<1>. HIDE DEF f
<1>8. \A m, n, s, t \in Nat :
        IsMark(m, s) /\ IsMark(n, t) /\ m <= n /\ n < m + SeqRange
            => t - s = n - m \/ t - s = n - m - SeqRange
  BY DEF FilterInv, Distances
<1>9. f.nr = last_read => f.seq = last_recv_seq_num
  <2>. SUFFICES ASSUME f.nr = last_read
                PROVE  f.seq = last_recv_seq_num
    OBVIOUS
  <2>1. \/ f.seq - last_recv_seq_num = f.nr - last_read
        \/ f.seq - last_recv_seq_num = f.nr - last_read - SeqRange
    BY <1>3, <1>4, <1>6, <1>7, <1>8
  <2>. QED BY <1>3, <1>7, <2>1
<1>10. f.seq = last_recv_seq_num /\ ~FarApart(last_read, f.nr) => f.nr = last_read
  <2>. SUFFICES ASSUME f.seq = last_recv_seq_num,
                       f.nr < last_read + SeqRange, last_read < f.nr + SeqRange
                PROVE  f.nr = last_read
    BY <1>3, <1>7 DEF FarApart
  <2>1. CASE last_read <= f.nr
    <3>1. \/ f.seq - last_recv_seq_num = f.nr - last_read
          \/ f.seq - last_recv_seq_num = f.nr - last_read - SeqRange
      BY <1>3, <1>4, <1>6, <1>7, <1>8, <2>1
    <3>. QED BY <1>3, <1>7, <3>1
  <2>2. CASE f.nr <= last_read
    <3>1. \/ last_recv_seq_num - f.seq = last_read - f.nr
          \/ last_recv_seq_num - f.seq = last_read - f.nr - SeqRange
      BY <1>3, <1>4, <1>6, <1>7, <1>8, <2>2
    <3>. QED BY <1>3, <1>7, <3>1
  <2>. QED BY <1>3, <1>7, <2>1, <2>2
<1>. QED BY <1>2, <1>3, <1>4, <1>5, <1>9, <1>10 DEF f

\* Reading a frame makes no new mark.
LEMMA ReceiveMarks ==
    ASSUME FilterInv, NEW a \in GndAdapters, Receive(a)
    PROVE  MarkTypes' /\ Distances'
<1>. DEFINE f == Head(rxq[a])
<1>1. IsMark(f.nr, f.seq) /\ last_read' = f.nr /\ last_recv_seq_num' = f.seq
  BY ReceiveFacts
<1>. HIDE DEF f
<1>2. frames' = frames /\ proxy_seq_number' = proxy_seq_number
  BY DEF Receive, controlVars
<1>3. ASSUME NEW n \in Nat, NEW s \in Nat, IsMark(n, s)'
      PROVE  IsMark(n, s)
  <2>1. CASE \E b \in GndAdapters : \E i \in 1 .. Len(rxq'[b]) :
                n = rxq'[b][i].nr /\ s = rxq'[b][i].seq
    <3>1. PICK b \in GndAdapters : \E i \in 1 .. Len(rxq'[b]) :
                n = rxq'[b][i].nr /\ s = rxq'[b][i].seq
      BY <2>1
    <3>2. PICK i \in 1 .. Len(rxq'[b]) : n = rxq'[b][i].nr /\ s = rxq'[b][i].seq
      BY <3>1
    <3>3. /\ rxq \in [GndAdapters -> Seq(ProxyFrames)] /\ rxq[a] # <<>>
          /\ rxq' = [rxq EXCEPT ![a] = Tail(@)]
      BY DEF FilterInv, TelemetryInv, RadioInv, Receive
    <3>4. rxq'[b] = rxq[b] \/ (b = a /\ rxq'[b] = Tail(rxq[a]))
      BY <3>3
    <3>5. CASE rxq'[b] = rxq[b]
      BY <3>2, <3>5 DEF IsMark
    <3>6. CASE b = a /\ rxq'[b] = Tail(rxq[a])
      <4>1. rxq[a] \in Seq(ProxyFrames) /\ rxq[a] # <<>>
        BY <3>3
      <4>2. i + 1 \in 1 .. Len(rxq[a]) /\ Tail(rxq[a])[i] = rxq[a][i + 1]
        BY <3>2, <3>6, <4>1
      <4>3. \E j \in 1 .. Len(rxq[a]) : n = rxq[a][j].nr /\ s = rxq[a][j].seq
        BY <3>2, <3>6, <4>2
      <4>. QED BY <4>3, Zenon DEF IsMark
    <3>. QED BY <3>4, <3>5, <3>6
  <2>. QED BY <1>1, <1>2, <1>3, <2>1 DEF IsMark
<1>4. MarkTypes'
  BY <1>2, <1>3 DEF FilterInv, MarkTypes
<1>5. Distances'
  BY <1>3 DEF FilterInv, Distances
<1>. QED BY <1>4, <1>5

\* A frame that is logged is another one than the proxy read last, and newer than
\* all that were logged if none was late.
LEMMA ReceiveLog ==
    ASSUME FilterInv, NEW a \in GndAdapters, Receive(a)
    PROVE  LogBehind' /\ LogStrict' /\ NewFrameLogged'
<1>. DEFINE f == Head(rxq[a])
<1>1. /\ f \in ProxyFrames /\ f.nr \in Nat /\ f.seq \in Nat /\ last_read' = f.nr
      /\ f.nr = last_read => f.seq = last_recv_seq_num
      /\ f.seq = last_recv_seq_num /\ ~FarApart(last_read, f.nr) => f.nr = last_read
  BY ReceiveFacts
<1>2. /\ last_read \in Nat /\ log \in Seq(ProxyFrames) /\ Len(log) \in Nat
  BY FilterTypes DEF FilterInv
<1>3. /\ ~late' => ~late /\ last_read <= f.nr
      /\ ~apart' => ~apart /\ ~FarApart(last_read, f.nr)
  <2>1. /\ ~late' => ~late /\ ~(f.nr < last_read)
        /\ ~apart' => ~apart /\ ~FarApart(last_read, f.nr)
    BY Zenon DEF Receive
  <2>. QED BY <1>1, <1>2, <2>1
<1>4. \/ f.seq = last_recv_seq_num /\ log' = log
      \/ f.seq # last_recv_seq_num /\ log' = Append(log, f)
  BY DEF Receive, ProxyReceive, IsCopy
<1>. HIDE DEF f
<1>5. \A i \in 1 .. Len(log) : log[i].nr \in Nat
  <2>1. \A i \in 1 .. Len(log) : log[i] \in ProxyFrames
    BY <1>2
  <2>. QED BY <2>1 DEF ProxyFrames
<1>6. CASE f.seq = last_recv_seq_num /\ log' = log
  <2>1. LogBehind' /\ LogStrict'
    BY <1>1, <1>2, <1>3, <1>5, <1>6 DEF FilterInv, LogBehind, LogStrict
  <2>2. ASSUME ~apart', last_read' # 0
        PROVE  \E i \in 1 .. Len(log') : log'[i].nr = last_read'
    <3>1. ~apart /\ f.nr = last_read
      BY <1>1, <1>3, <1>6, <2>2
    <3>2. last_read # 0
      BY <1>1, <2>2, <3>1
    <3>. QED BY <1>1, <1>6, <3>1, <3>2 DEF FilterInv, NewFrameLogged
  <2>. QED BY <2>1, <2>2 DEF NewFrameLogged
<1>7. CASE f.seq # last_recv_seq_num /\ log' = Append(log, f)
  <2>1. /\ Len(log') = Len(log) + 1 /\ log'[Len(log) + 1] = f
        /\ \A i \in 1 .. Len(log) : log'[i] = log[i]
    BY <1>1, <1>2, <1>7
  <2>2. ASSUME ~late'
        PROVE  ~late /\ \A i \in 1 .. Len(log) : log[i].nr < f.nr
    <3>1. ~late /\ last_read < f.nr
      BY <1>1, <1>2, <1>3, <1>7, <2>2
    <3>. QED BY <1>1, <1>2, <1>5, <3>1 DEF FilterInv, LogBehind
  <2>3. LogBehind'
    BY <1>1, <1>2, <1>5, <2>1, <2>2 DEF LogBehind
  <2>4. ASSUME ~late', NEW i \in 1 .. Len(log'), NEW j \in 1 .. Len(log'), i < j
        PROVE  log'[i].nr < log'[j].nr
    <3>1. i \in 1 .. Len(log) /\ log'[i] = log[i]
      BY <1>2, <2>1, <2>4
    <3>2. CASE j = Len(log) + 1
      BY <2>1, <2>2, <2>4, <3>1, <3>2
    <3>3. CASE j \in 1 .. Len(log)
      <4>1. log[i].nr < log[j].nr
        BY <2>2, <2>4, <3>1, <3>3 DEF FilterInv, LogStrict
      <4>. QED BY <2>1, <3>1, <3>3, <4>1
    <3>. QED BY <1>2, <2>1, <3>2, <3>3
  <2>5. LogStrict'
    BY <2>4 DEF LogStrict
  <2>6. NewFrameLogged'
    <3>1. Len(log) + 1 \in 1 .. Len(log') /\ log'[Len(log) + 1].nr = last_read'
      BY <1>1, <1>2, <2>1
    <3>. QED BY <3>1 DEF NewFrameLogged
  <2>. QED BY <2>3, <2>5, <2>6
<1>. QED BY <1>4, <1>6, <1>7

\* The other steps leave the filter alone.
LEMMA FilterUnchanged ==
    ASSUME FilterInv, UNCHANGED <<frames, proxy_seq_number, last_recv_seq_num, log, radioVars>>
    PROVE  MarkTypes' /\ Distances' /\ LogBehind' /\ LogStrict' /\ NewFrameLogged'
<1>1. UNCHANGED <<frames, proxy_seq_number, last_recv_seq_num, log, rxq, last_read, late, apart>>
  BY DEF radioVars
<1>2. MarkTypes' /\ Distances'
  <2>1. ASSUME NEW n \in Nat, NEW s \in Nat
        PROVE  IsMark(n, s)' <=> IsMark(n, s)
    BY <1>1, Zenon DEF IsMark
  <2>. QED BY <1>1, <2>1 DEF FilterInv, MarkTypes, Distances
<1>3. LogBehind' /\ LogStrict' /\ NewFrameLogged'
  BY <1>1 DEF FilterInv, LogBehind, LogStrict, NewFrameLogged
<1>. QED BY <1>2, <1>3

\* The filter's invariant holds at the start and after every step.
LEMMA FilterInvariant ==
    /\ Init => FilterInv
    /\ FilterInv /\ [Next]_vars => FilterInv'
<1>1. Init => FilterInv
  <2>. SUFFICES ASSUME Init
                PROVE  FilterInv
    OBVIOUS
  <2>1. /\ frames = 0 /\ proxy_seq_number = 0 /\ last_recv_seq_num = 0 /\ log = <<>>
        /\ last_read = 0 /\ \A a \in GndAdapters : rxq[a] = <<>>
    BY DEF Init, ControlInit, ProxyInit
  <2>2. \A n, s \in Nat : IsMark(n, s) => n = 0 /\ s = 0
    BY <2>1 DEF IsMark
  <2>3. MarkTypes /\ Distances
    BY <2>1, <2>2 DEF MarkTypes, Distances
  <2>4. LogBehind /\ LogStrict /\ NewFrameLogged
    BY <2>1 DEF LogBehind, LogStrict, NewFrameLogged
  <2>. QED BY <2>3, <2>4, TelemetryInit DEF FilterInv
<1>2. ASSUME FilterInv, [Next]_vars
      PROVE  FilterInv'
  <2>. USE <1>2
  <2>1. TelemetryInv'
    BY TelemetryStep DEF FilterInv
  <2>2. CASE Transmit
    <3>1. UNCHANGED <<log, last_read, late, apart>>
      BY <2>2 DEF Transmit, proxyVars
    <3>2. LogBehind' /\ LogStrict' /\ NewFrameLogged'
      BY <3>1 DEF FilterInv, LogBehind, LogStrict, NewFrameLogged
    <3>. QED BY <2>1, <2>2, <3>2, TransmitMarks DEF FilterInv
  <2>3. CASE \E a \in GndAdapters : Receive(a)
    BY <2>1, <2>3, ReceiveMarks, ReceiveLog DEF FilterInv
  <2>4. CASE Collect \/ ProxyStep \/ UNCHANGED vars
    <3>1. UNCHANGED <<frames, proxy_seq_number, last_recv_seq_num, log, radioVars>>
      <4>1. CASE Collect
        BY <4>1 DEF Collect, ReadSerial, proxyVars
      <4>2. CASE ProxyStep
        BY <4>2 DEF ProxyStep, ProxyNext, controlVars, Connect, ClientSends, ClientLeaves,
                    AcceptClient, AcceptFails, ServeClient
      <4>3. CASE UNCHANGED vars
        BY <4>3 DEF vars, controlVars, proxyVars
      <4>. QED BY <2>4, <4>1, <4>2, <4>3
    <3>. QED BY <2>1, <3>1, FilterUnchanged DEF FilterInv
  <2>. QED BY <2>2, <2>3, <2>4 DEF Next
<1>. QED BY <1>1, <1>2

\* For every number of adapters and copies, every lag and every loss: until a
\* frame is read after a newer one, the proxy logs a frame at most once and in
\* the order of sending (the comparison with last_recv_seq_num in proxy_main.c).
THEOREM LogIsInOrder == Spec => []LogInOrder
<1>1. FilterInv => LogInOrder
  <2>. SUFFICES ASSUME FilterInv, ~late, NEW i \in 1 .. Len(log) - 1
                PROVE  log[i].nr < log[i + 1].nr
    BY DEF LogInOrder
  <2>1. Len(log) \in Nat
    BY FilterTypes DEF FilterInv
  <2>. QED BY <2>1 DEF FilterInv, LogStrict
<1>. QED BY <1>1, FilterInvariant, PTL DEF Spec

\* For every number of adapters and copies, late frames included: what the proxy
\* drops it has logged before, unless two frames read one after the other were
\* sent SeqRange or more frames apart (proxy_main.c, update_seq_num).
THEOREM NewFramesLogged == Spec => []NewFrameLogged
<1>1. FilterInv => NewFrameLogged
  BY DEF FilterInv
<1>. QED BY <1>1, FilterInvariant, PTL DEF Spec
=============================================================================
