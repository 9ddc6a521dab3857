---------------------------- MODULE Communication ----------------------------
(***************************************************************************)
(* The communication module: the process of the ground station             *)
(* (db_communication_gnd.py), which takes requests of ground control       *)
(* stations over TCP, answers or forwards them, and the process of the UAV *)
(* (db_communication_air.py), which executes and answers what arrives over *)
(* the radio (DroneBridge.py).                                             *)
(*                                                                         *)
(* A request is known by its number, the id of the message.  Frames arrive *)
(* intact or not at all and wait at the adapters, so one adapter may lag   *)
(* behind another.  Types of requests stand for what the handler does with *)
(* them: "param" for those whose handler raises an exception that nobody   *)
(* catches.                                                                *)
(***************************************************************************)
EXTENDS Integers, Sequences, FiniteSetsExt, SequencesExt

CONSTANTS
    Clients,       \* connections of ground control stations
    NumAir,        \* adapters of the UAV, in the order of list_lr_sockets
    GndAdapters,   \* adapters of the ground station
    SeqRange,      \* 256: sequence numbers of the raw protocol
    Before,        \* requests handled before, which brings the overflow near
    Dsts,          \* destinations of the requests
    Types,         \* types of the requests
    MaxRequests,   \* bound: requests
    MaxLeaving     \* bound: clients that leave

ASSUME CommAssumption ==
    /\ NumAir \in Nat \ {0} /\ SeqRange \in Nat \ {0} /\ Before \in 0 .. SeqRange - 1
    /\ Dsts \subseteq {"GND", "GND_UAV", "UAV", "GCS", "unknown"}
    /\ Types \subseteq {"ping", "param"}
    /\ MaxRequests \in Nat /\ MaxLeaving \in Nat /\ IsFiniteSet(GndAdapters)

VARIABLES
    tcp_connections,
    prev_seq_num,      \* None, or the number of the last frame from the UAV
    gnd_seq_num,       \* _seq_num of the ground station
    gnd_up,
    recv_seq_num,      \* recv_seq_num of the UAV
    uav_seq_num,       \* _seq_num of the UAV
    uav_up,
    upq, downq,        \* frames waiting at the adapters, oldest first
    conn,              \* what each client did with its connection
    todo,              \* requests of a client waiting in its connection
    torn,              \* clients with the rest of a request in front of them
    requests,          \* history: all requests
    spoilt,            \* history: requests that were read as a corrupt message
    sent,              \* history: frames the ground station sent
    executed,          \* history: requests the UAV executed, one frame for each
    recv_nr, prev_nr,  \* history: which frames the remembered numbers are of
    late_up, late_down,\* history: a frame was read after a newer one
    apart,             \* history: a frame was read SeqRange or more frames off
                       \* the one whose number it was compared with
    log,               \* history: frames of the UAV passed on to the clients
    got,               \* history: the messages each client received
    clear              \* from now on no frame is lost

gndVars == <<tcp_connections, prev_seq_num, gnd_seq_num, gnd_up, sent, prev_nr, late_down>>
uavVars == <<recv_seq_num, uav_seq_num, uav_up, executed, recv_nr, late_up>>
clientVars == <<conn, todo, torn, spoilt, log, got>>
vars == <<gndVars, uavVars, clientVars, upq, downq, requests, apart, clear>>

AirAdapters == 1 .. NumAir
None == -1

Init ==
    /\ tcp_connections = <<>>
    /\ prev_seq_num = IF Before = 0 THEN None ELSE Before
    /\ gnd_seq_num = Before /\ gnd_up = TRUE
    /\ recv_seq_num = Before /\ uav_seq_num = Before /\ uav_up = TRUE
    /\ upq = [a \in AirAdapters |-> <<>>]
    /\ downq = [a \in GndAdapters |-> <<>>]
    /\ conn = [c \in Clients |-> "idle"]
    /\ todo = [c \in Clients |-> <<>>] /\ torn = {} /\ spoilt = {}
    /\ got = [c \in Clients |-> {}]
    /\ requests = <<>> /\ executed = <<>> /\ log = <<>>
    /\ sent = 0 /\ recv_nr = 0 /\ prev_nr = 0
    /\ late_up = FALSE /\ late_down = FALSE /\ apart = FALSE
    /\ clear = FALSE

-----------------------------------------------------------------------------
(* The clients and the radio.                                              *)

Connect(c) ==
    /\ conn[c] = "idle"
    /\ conn' = [conn EXCEPT ![c] = "backlog"]
    /\ UNCHANGED <<gndVars, uavVars, todo, torn, spoilt, log, got, upq, downq, requests, apart, clear>>

\* Clients whose connection is gone, and those of them the ground station has
\* not removed.
Gone == {c \in Clients : conn[c] \in {"hungup", "reset", "urgent", "closed"}}
Failing == Gone \cap Range(tcp_connections)

Request(c, dst, type) ==
    /\ gnd_up /\ conn[c] = "open" /\ Len(requests) < MaxRequests
    /\ dst \in {"GCS", "unknown"} => type = "ping"   \* nobody looks at the type
    /\ requests' = Append(requests, [by |-> c, dst |-> dst, type |-> type,
                                     calm |-> clear /\ Failing = {}, gone |-> Gone])
    /\ todo' = [todo EXCEPT ![c] = Append(@, Len(requests) + 1)]
    /\ UNCHANGED <<gndVars, uavVars, conn, torn, spoilt, log, got, upq, downq, apart, clear>>

\* A client closes its connection, or resets it, which drops what waits in it.
Leave(c, how) ==
    /\ gnd_up /\ conn[c] = "open" /\ Cardinality(Gone) < MaxLeaving
    /\ conn' = [conn EXCEPT ![c] = how]
    /\ IF how = "reset" THEN todo' = [todo EXCEPT ![c] = <<>>] /\ torn' = torn \ {c}
       ELSE UNCHANGED <<todo, torn>>
    /\ UNCHANGED <<gndVars, uavVars, spoilt, log, got, upq, downq, requests, apart, clear>>

RadioClears ==
    /\ ~clear
    /\ clear' = TRUE
    /\ UNCHANGED <<gndVars, uavVars, clientVars, upq, downq, requests, apart>>

\* What the queues q may be after frame f was sent by n adapters: each adapter
\* on the other side receives some of the n copies.
Copies(f, k) == [i \in 1 .. k |-> f]
AfterSend(q, f, n) ==
    LET received == [DOMAIN q -> (IF clear THEN 1 ELSE 0) .. n]
    IN  {[a \in DOMAIN q |-> q[a] \o Copies(f, k[a])] : k \in received}

FarApart(m, n) == m + SeqRange <= n \/ n + SeqRange <= m

\* Mutant: the number stays at the last one.
NextSeqSaturates(s) == IF s = SeqRange - 1 THEN s ELSE s + 1

NextSeq(s) == IF s = SeqRange - 1 THEN 0 ELSE s + 1

-----------------------------------------------------------------------------
(* The ground station.                                                     *)

\* sendto_tcp_clients: sendall raises an exception for a client whose
\* connection is gone, and the rest of the list is not served.  The first
\* message to a client that closed its end goes through.
FirstGone ==
    LET gone == {i \in 1 .. Len(tcp_connections) : conn[tcp_connections[i]] = "reset"}
    IN  IF gone = {} THEN Len(tcp_connections) + 1
        ELSE CHOOSE i \in gone : \A j \in gone : i <= j
Served == {tcp_connections[i] : i \in 1 .. FirstGone - 1}
Raises == FirstGone <= Len(tcp_connections)

sendto_tcp_clients(msg) ==
    /\ got' = [c \in Clients |-> IF c \in Served THEN got[c] \cup {msg} ELSE got[c]]
    /\ conn' = [c \in Clients |-> IF c \in Served /\ conn[c] = "hungup"
                                  THEN "reset" ELSE conn[c]]

Message(id, from, what) == [id |-> id, from |-> from, what |-> what]

\* db.sendto_uav
sendto_uav(id) ==
    /\ gnd_seq_num' = NextSeq(gnd_seq_num)
    /\ sent' = sent + 1
    /\ \E n \in 1 .. Cardinality(GndAdapters) :
          upq' \in AfterSend(upq, [seq |-> NextSeq(gnd_seq_num), id |-> id, nr |-> sent + 1], n)

\* The handler of the request raises: the exception ends the process.
Fatal(id) == requests[id].type = "param"

\* Ping requests are answered "right away".
AnswersPing(id) == requests[id].type = "ping"

Answer(id, what) ==
    /\ sendto_tcp_clients(Message(id, "gnd", what))
    /\ UNCHANGED <<gnd_up, gnd_seq_num, sent, upq>>

Forward(id) ==
    /\ sendto_uav(id)
    /\ UNCHANGED <<gnd_up, conn, got>>

\* An exception that nobody catches.
Dies == gnd_up' = FALSE /\ UNCHANGED <<conn, got, gnd_seq_num, sent, upq>>

\* process_comm_proto for a request of a client.
process_comm_proto(id) ==
    CASE requests[id].dst = "GND" /\ Fatal(id) -> Dies
      [] requests[id].dst = "GND" /\ ~Fatal(id) -> Answer(id, "ok")
      [] requests[id].dst = "GND_UAV" /\ AnswersPing(id) ->
            /\ sendto_tcp_clients(Message(id, "gnd", "ok"))
            /\ IF Raises THEN UNCHANGED <<gnd_seq_num, sent, upq>> ELSE sendto_uav(id)
            /\ UNCHANGED gnd_up
      [] requests[id].dst = "GND_UAV" /\ ~AnswersPing(id) -> Answer(id, "error")
      [] requests[id].dst = "UAV" -> Forward(id)
      [] requests[id].dst = "GCS" -> Answer(id, "copy")
      [] OTHER -> Answer(id, "error")

Accept(c) ==
    /\ gnd_up /\ conn[c] = "backlog"
    /\ conn' = [conn EXCEPT ![c] = "open"]
    /\ tcp_connections' = Append(tcp_connections, c)
    /\ UNCHANGED <<prev_seq_num, gnd_seq_num, gnd_up, sent, prev_nr, late_down, uavVars,
                   todo, torn, spoilt, log, got, upq, downq, requests, apart, clear>>

\* One recv returns n requests, or n and a part of the next one, whose rest comes
\* with the next recv.  Only a single whole request is a valid message.  If the
\* closing brace is all that is missing of it, parse_comm_message finds valid
\* JSON and no checksum, and the index error ends the process.
ReadClient(c) ==
    /\ gnd_up /\ c \in Range(tcp_connections)
    /\ \E n \in 0 .. Len(todo[c]), part \in {0, 1} :
          /\ n + part \in (IF c \in torn THEN 0 ELSE 1) .. Len(todo[c])
          /\ todo' = [todo EXCEPT ![c] = SubSeq(@, n + part + 1, Len(@))]
          /\ torn' = IF part = 1 THEN torn \cup {c} ELSE torn \ {c}
          /\ IF n = 1 /\ part = 0 /\ c \notin torn
             THEN process_comm_proto(Head(todo[c])) /\ UNCHANGED spoilt
             ELSE /\ \/ Answer(0, "error")
                     \/ n = 0 /\ part = 1 /\ c \notin torn /\ Dies
                  /\ spoilt' = spoilt \cup {todo[c][i] : i \in 1 .. n + part}
    /\ UNCHANGED <<tcp_connections, prev_seq_num, prev_nr, late_down, uavVars, log, downq,
                   requests, apart, clear>>

\* A client is in the list once.
RemoveClient(c) ==
    /\ gnd_up /\ todo[c] = <<>> /\ c \notin torn
    /\ conn[c] \in {"hungup", "reset"}
    /\ \E i \in 1 .. Len(tcp_connections) :
          /\ tcp_connections[i] = c
          /\ tcp_connections' = RemoveAt(tcp_connections, i)
    /\ conn' = [conn EXCEPT ![c] = "closed"]
    /\ UNCHANGED <<prev_seq_num, gnd_seq_num, gnd_up, sent, prev_nr, late_down, uavVars,
                   todo, torn, spoilt, log, got, upq, downq, requests, apart, clear>>

\* A client sends urgent data, which select reports as an exceptional condition.
\* The message for the log adds the address, a tuple, to a string: a type error
\* ends the process.
ErrorSocket(c) ==
    /\ gnd_up /\ c \in Range(tcp_connections) /\ conn[c] = "open"
    /\ Cardinality(Gone) < MaxLeaving
    /\ gnd_up' = FALSE
    /\ conn' = [conn EXCEPT ![c] = "urgent"]
    /\ UNCHANGED <<tcp_connections, prev_seq_num, gnd_seq_num, sent, prev_nr, late_down, uavVars,
                   todo, torn, spoilt, log, got, upq, downq, requests, apart, clear>>

\* Mutant: copies are not recognised.
IsCopyNever(f) == FALSE

IsCopy(f) == f.seq = prev_seq_num

\* A frame of the UAV.  Its number is remembered only if no client failed.
ReadRadio(a) ==
    /\ gnd_up /\ downq[a] # <<>>
    /\ downq' = [downq EXCEPT ![a] = Tail(@)]
    /\ LET f == Head(downq[a])
       IN  /\ late_down' = (late_down \/ f.nr < prev_nr)
           /\ apart' = (apart \/ FarApart(prev_nr, f.nr))
           /\ IF IsCopy(f) THEN UNCHANGED <<prev_seq_num, prev_nr, conn, log, got>>
              ELSE /\ sendto_tcp_clients(f.msg)
                   /\ log' = Append(log, [nr |-> f.nr, full |-> ~Raises])
                   /\ IF Raises THEN UNCHANGED <<prev_seq_num, prev_nr>>
                      ELSE prev_seq_num' = f.seq /\ prev_nr' = f.nr
    /\ UNCHANGED <<tcp_connections, gnd_seq_num, gnd_up, sent, uavVars, todo, torn, spoilt, upq,
                   requests, clear>>

-----------------------------------------------------------------------------
(* The UAV.                                                                *)

\* The frame that adapter a delivers next, and the one whose number receive_data
\* compares it with if it reads the adapters rs: the frame read before.
NextFrame(a) == Head(upq[a])
ReadBefore(rs, a) ==
    LET before == {b \in rs : b < a}
    IN  IF before = {} THEN [seq |-> recv_seq_num, nr |-> recv_nr]
        ELSE [seq |-> NextFrame(Max(before)).seq, nr |-> NextFrame(Max(before)).nr]

\* Mutant: the number of a frame is not remembered.
PickAnyOf(rs) == [recv |-> recv_seq_num, id |-> NextFrame(Max(rs)).id]

\* receive_data reads one frame of every readable adapter and returns the last
\* one whose number differs from the one read before it.
Pick(rs) ==
    LET fresh == {a \in rs : NextFrame(a).seq # ReadBefore(rs, a).seq}
    IN  [recv |-> NextFrame(Max(rs)).seq,
         id |-> IF fresh = {} THEN 0 ELSE NextFrame(Max(fresh)).id]

\* One of the adapters rs delivers a frame older than one read before it.
Late(rs) ==
    \E a \in rs :
        \/ NextFrame(a).nr < recv_nr
        \/ \E b \in rs : b < a /\ NextFrame(a).nr < NextFrame(b).nr

Readable == {a \in AirAdapters : upq[a] # <<>>}

UavReceives(rs) ==
    /\ uav_up /\ rs # {} /\ rs \subseteq Readable
    /\ upq' = [a \in AirAdapters |-> IF a \in rs THEN Tail(upq[a]) ELSE upq[a]]
    /\ recv_nr' = NextFrame(Max(rs)).nr
    /\ late_up' = (late_up \/ Late(rs))
    /\ apart' = (apart \/ \E a \in rs : FarApart(ReadBefore(rs, a).nr, NextFrame(a).nr))
    /\ \E p \in {Pick(rs)} :
        /\ recv_seq_num' = p.recv
        /\ CASE p.id = 0 -> UNCHANGED <<uav_up, uav_seq_num, executed, downq>>
             [] p.id # 0 /\ Fatal(p.id) ->
                    /\ uav_up' = FALSE
                    /\ UNCHANGED <<uav_seq_num, executed, downq>>
             [] OTHER ->
                    /\ executed' = Append(executed, p.id)
                    /\ uav_seq_num' = NextSeq(uav_seq_num)
                    /\ \E n \in 1 .. NumAir :
                          downq' \in AfterSend(downq, [seq |-> NextSeq(uav_seq_num),
                                                      msg |-> Message(p.id, "uav", "ok"),
                                                      nr |-> Len(executed) + 1], n)
                    /\ UNCHANGED uav_up
    /\ UNCHANGED <<gndVars, clientVars, requests, clear>>

GndStep ==
    \/ \E c \in Clients : Accept(c)
    \/ \E c \in Clients : ReadClient(c)
    \/ \E c \in Clients : RemoveClient(c)
    \/ \E a \in GndAdapters : ReadRadio(a)

UavStep == \E rs \in SUBSET AirAdapters : UavReceives(rs)

Next ==
    \/ \E c \in Clients : Connect(c)
    \/ \E c \in Clients, dst \in Dsts, type \in Types : Request(c, dst, type)
    \/ \E c \in Clients, how \in {"hungup", "reset"} : Leave(c, how)
    \/ \E c \in Clients : ErrorSocket(c)
    \/ RadioClears
    \/ GndStep
    \/ UavStep

Spec == Init /\ [][Next]_vars

\* For TLC: neither the clients nor the adapters of the ground station have an
\* order of their own.
Symmetry == Permutations(Clients) \cup Permutations(GndAdapters)

-----------------------------------------------------------------------------
\* As long as no adapter of the UAV delivers a frame after a newer one was read,
\* a request is executed at most once, however many copies of it arrived on
\* which adapters and whatever was lost (receive_data: "Only return data that
\* was not returned before").  The UAV remembers one number only: behind a late
\* frame the copies of the newer ones are executed again.
ExecutedOnce ==
    ~late_up => \A i, j \in 1 .. Len(executed) : i # j => executed[i] # executed[j]

\* As long as no frame of the UAV is late, the clients get an answer of the UAV
\* a second time only if a client failed the time before: the number is
\* remembered behind the loop over the clients, and the next copy of the answer
\* goes also to those that have it.
AnswerSentOnce ==
    ~late_down =>
        \A i, j \in 1 .. Len(log) :
            i < j /\ log[i].nr = log[j].nr => ~log[i].full

\* A request to the UAV made when no frame is lost any more and no client is
\* failing is not lost: it waits at the client's connection or at an adapter of
\* the UAV, or its answer waits at an adapter of the ground station, until the
\* client has the answer, unless the request is read as a corrupt message, a
\* client leaves then or the process of the ground station ends.  What was lost
\* before, clients that left before, lagging adapters and frames overwritten in
\* receive_data cannot keep the answer back, with one exception: a frame that
\* comes SeqRange (256) frames after the one remembered has the number of a copy.
UnderWay(id) ==
    \/ \E i \in 1 .. Len(todo[requests[id].by]) : todo[requests[id].by][i] = id
    \/ \E a \in AirAdapters : \E i \in 1 .. Len(upq[a]) : upq[a][i].id = id
    \/ \E a \in GndAdapters : \E i \in 1 .. Len(downq[a]) : downq[a][i].msg.id = id

ForUav == {id \in 1 .. Len(requests) :
               /\ requests[id].calm /\ requests[id].gone = Gone
               /\ requests[id].dst \in {"UAV", "GND_UAV"} /\ requests[id].type = "ping"}

NoRequestLost ==
    gnd_up /\ ~apart =>
        \A id \in ForUav \ spoilt :
            UnderWay(id) \/ Message(id, "uav", "ok") \in got[requests[id].by]
=============================================================================
