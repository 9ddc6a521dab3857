------------------------------- MODULE Proxy ---------------------------------
(***************************************************************************)
(* The proxy of the ground station (proxy_main.c, tcp_server.c): telemetry *)
(* of the UAV goes to a log and to the TCP clients, what the clients send  *)
(* goes to the UAV.                                                        *)
(*                                                                         *)
(* A client is one TCP connection; its socket stands for it in the table.  *)
(***************************************************************************)
EXTENDS Naturals, Sequences, FiniteSets

CONSTANTS
    Clients,      \* connections of ground control stations
    Empty,        \* 0 in tcp_clients
    Failed,       \* -1 in tcp_clients
    MaxClients,   \* MAX_TCP_CLIENTS, 10
    ServedSlots,  \* sizeof(&list_client_sockets) / sizeof(int): 1 or 2
    MaxMessages,  \* bound: messages a client sends
    MaxFailures   \* bound: failing calls of accept

ASSUME ProxyAssumption ==
    /\ Empty \notin Clients /\ Failed \notin Clients /\ Empty # Failed
    /\ MaxClients \in Nat \ {0} /\ ServedSlots \in 0 .. MaxClients
    /\ MaxMessages \in Nat /\ MaxFailures \in Nat

VARIABLES
    tcp_clients,
    last_recv_seq_num,
    running,    \* the process has not died
    conn,       \* what each client did with its connection
    inbox,      \* number of the messages of a client that wait to be read
    relayed,    \* history: number of the messages of a client sent to the UAV
    log,        \* history: telemetry frames passed on, with the log file
    got,        \* history: telemetry frames given to send() for each client
    joined,     \* history: length of the log when the client was stored
    failures    \* history: failed calls of accept

proxyVars == <<tcp_clients, last_recv_seq_num, running, conn, inbox, relayed,
               log, got, joined, failures>>

SlotNums == 0 .. MaxClients - 1
ConnStates == {"idle", "backlog", "open", "hungup", "reset"}
Stored == {c \in Clients : \E i \in SlotNums : tcp_clients[i] = c}

ProxyInit ==
    /\ tcp_clients = [i \in SlotNums |-> Empty]
    /\ last_recv_seq_num = 0
    /\ running = TRUE
    /\ conn = [c \in Clients |-> "idle"]
    /\ inbox = [c \in Clients |-> 0]
    /\ relayed = [c \in Clients |-> 0]
    /\ log = <<>>
    /\ got = [c \in Clients |-> <<>>]
    /\ joined = [c \in Clients |-> 0]
    /\ failures = 0

-----------------------------------------------------------------------------
(* The clients.                                                            *)

Connect(c) ==
    /\ conn[c] = "idle"
    /\ conn' = [conn EXCEPT ![c] = "backlog"]
    /\ UNCHANGED <<tcp_clients, last_recv_seq_num, running, inbox, relayed, log, got, joined, failures>>

ClientSends(c) ==
    /\ conn[c] \in {"backlog", "open"}
    /\ inbox[c] + relayed[c] < MaxMessages
    /\ inbox' = [inbox EXCEPT ![c] = @ + 1]
    /\ UNCHANGED <<tcp_clients, last_recv_seq_num, running, conn, relayed, log, got, joined, failures>>

\* A client closes its socket, or its connection is reset.
ClientLeaves(c, how) ==
    /\ conn[c] = "open"
    /\ conn' = [conn EXCEPT ![c] = how]
    /\ UNCHANGED <<tcp_clients, last_recv_seq_num, running, inbox, relayed, log, got, joined, failures>>

-----------------------------------------------------------------------------
(* The select loop.                                                        *)

\* Mutant: without an empty position the last one is taken.
StoreClientOverLast(sock) ==
    [i \in SlotNums |->
        IF \/ tcp_clients[i] = Empty /\ \A j \in SlotNums : j < i => tcp_clients[j] # Empty
           \/ i = MaxClients - 1 /\ \A j \in SlotNums : tcp_clients[j] # Empty
        THEN sock ELSE tcp_clients[i]]

\* The result of accept goes to the first position that is empty, even if it is
\* -1, and is forgotten, without close, if the table is full.
FirstFree(i) ==
    tcp_clients[i] = Empty /\ \A j \in SlotNums : j < i => tcp_clients[j] # Empty
StoreClient(sock) ==
    [i \in SlotNums |-> IF FirstFree(i) THEN sock ELSE tcp_clients[i]]

AcceptClient(c) ==
    /\ running /\ conn[c] = "backlog"
    /\ conn' = [conn EXCEPT ![c] = "open"]
    /\ tcp_clients' = StoreClient(c)
    /\ joined' = [joined EXCEPT ![c] = Len(log)]
    /\ UNCHANGED <<last_recv_seq_num, running, inbox, relayed, log, got, failures>>

\* The process is out of descriptors; the client stays in the backlog.
AcceptFails(c) ==
    /\ running /\ conn[c] = "backlog"
    /\ failures < MaxFailures
    /\ failures' = failures + 1
    /\ tcp_clients' = StoreClient(Failed)
    /\ UNCHANGED <<last_recv_seq_num, running, conn, inbox, relayed, log, got, joined>>

\* One read of a readable socket: one or more messages, which make one packet
\* for the UAV, the end of the connection, or an error, whose -1 is taken for a
\* length and makes memcpy run off the buffers.
ServeClient(i) ==
    LET c == tcp_clients[i] IN
    /\ running /\ c \in Clients
    /\ \/ /\ conn[c] # "reset" /\ inbox[c] > 0
          /\ \E n \in 1 .. inbox[c] :
                /\ inbox' = [inbox EXCEPT ![c] = @ - n]
                /\ relayed' = [relayed EXCEPT ![c] = @ + n]
          /\ UNCHANGED <<tcp_clients, running>>
       \/ /\ conn[c] = "hungup" /\ inbox[c] = 0
          /\ tcp_clients' = [tcp_clients EXCEPT ![i] = Empty]
          /\ UNCHANGED <<inbox, relayed, running>>
       \/ /\ conn[c] = "reset"
          /\ running' = FALSE
          /\ UNCHANGED <<tcp_clients, inbox, relayed>>
    /\ UNCHANGED <<last_recv_seq_num, conn, log, got, joined, failures>>

\* Mutants: the list of receivers ends one slot early; copies are not noticed;
\* smaller numbers are taken for old ones.
ReceiversButLast == {tcp_clients[i] : i \in {j \in SlotNums : j + 1 < ServedSlots}} \cap Clients
IsCopyNever(last, f) == FALSE
IsCopyOrSmaller(last, f) == f.seq <= last

\* send_to_all_tcp_clients takes the length of the list from the size of a
\* pointer and reaches the first slots only.
Receivers == {tcp_clients[i] : i \in {j \in SlotNums : j < ServedSlots}} \cap Clients
IsCopy(last, f) == f.seq = last

\* One telemetry frame: unless it is a copy of the last one, it goes to the log
\* file, to the clients and to the OSD.
ProxyReceive(f) ==
    /\ running
    /\ IF IsCopy(last_recv_seq_num, f)
       THEN UNCHANGED <<last_recv_seq_num, log, got>>
       ELSE /\ last_recv_seq_num' = f.seq
            /\ log' = Append(log, f)
            /\ got' = [c \in Clients |-> IF c \in Receivers THEN Append(got[c], f) ELSE got[c]]
    /\ UNCHANGED <<tcp_clients, running, conn, inbox, relayed, joined, failures>>

ProxyNext ==
    \/ \E c \in Clients : Connect(c)
    \/ \E c \in Clients : ClientSends(c)
    \/ \E c \in Clients, how \in {"hungup", "reset"} : ClientLeaves(c, how)
    \/ \E c \in Clients : AcceptClient(c)
    \/ \E c \in Clients : AcceptFails(c)
    \/ \E i \in SlotNums : ServeClient(i)

-----------------------------------------------------------------------------
ProxyFrames == [seq : Nat, chunk : Seq(Nat), nr : Nat]

ProxyTypeOK ==
    /\ tcp_clients \in [SlotNums -> Clients \cup {Empty, Failed}]
    /\ last_recv_seq_num \in Nat
    /\ running \in BOOLEAN
    /\ conn \in [Clients -> ConnStates]
    /\ inbox \in [Clients -> Nat] /\ relayed \in [Clients -> Nat]
    /\ log \in Seq(ProxyFrames)
    /\ got \in [Clients -> Seq(ProxyFrames)]
    /\ joined \in [Clients -> Nat]
    /\ failures \in Nat

\* A client in one of the first slots has been sent every telemetry frame
\* logged since it was stored, once and in order, whoever came, left or failed
\* to connect in between (send_to_all_tcp_clients).
ServedClientFollowsLog ==
    \A i \in SlotNums :
        i < ServedSlots /\ tcp_clients[i] \in Clients =>
            LET c == tcp_clients[i]
            IN  got[c] = SubSeq(log, joined[c] + 1, Len(log))

\* As long as the proxy runs, what a stored client has sent goes to the UAV,
\* unless its connection is reset: neither a full table, nor a failed accept,
\* nor a client that comes or goes makes the loop forget a stored socket.
StoredClientRelayed ==
    \A c \in Clients :
        (c \in Stored /\ inbox[c] > 0)
            ~> (inbox[c] = 0 \/ conn[c] = "reset" \/ ~running)
=============================================================================
