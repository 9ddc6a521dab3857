------------------------ MODULE CommunicationProofs -------------------------
(***************************************************************************)
(* Proofs about Communication, for any number of clients, adapters,        *)
(* requests, copies and sequence numbers, whatever the radio loses,        *)
(* however far an adapter lags and whoever leaves: until a frame is read   *)
(* after a newer one, the UAV executes a request once, and the clients get *)
(* an answer of the UAV again only if one of them failed.                  *)
(***************************************************************************)
EXTENDS Communication, FiniteSetTheorems, SequenceTheorems, TLAPS

-----------------------------------------------------------------------------
(* The way up.                                                             *)

Numbers == 0 .. SeqRange - 1
Ids == 1 .. Len(requests)
RequestRecords == [by : Clients, dst : Dsts, type : Types, calm : BOOLEAN, gone : SUBSET Clients]
UpFrames == [seq : Numbers, id : Nat, nr : Nat]

UpTypes ==
    /\ requests \in Seq(RequestRecords) /\ todo \in [Clients -> Seq(Nat)]
    /\ executed \in Seq(Nat)
    /\ upq \in [AirAdapters -> Seq(UpFrames)]
    /\ gnd_seq_num \in Numbers /\ sent \in Nat /\ recv_nr \in Nat

\* A request waits at one place of one connection.
TodoOnce ==
    \A c, d \in Clients : \A i \in 1 .. Len(todo[c]), j \in 1 .. Len(todo[d]) :
        todo[c][i] = todo[d][j] => c = d /\ i = j

\* The requests still waiting in connections.
Waiting == {id \in Nat : \E c \in Clients : \E i \in 1 .. Len(todo[c]) : todo[c][i] = id}

\* The requests the UAV executed, and the frames under way to it.
Done == {id \in Nat : \E i \in 1 .. Len(executed) : executed[i] = id}
InUp(x) == \E a \in AirAdapters : \E i \in 1 .. Len(upq[a]) : upq[a][i] = x

\* A request is taken from its connection before it is sent or executed.
TakenFirst ==
    /\ Waiting \subseteq Ids /\ Done \subseteq Ids \ Waiting
    /\ \A x \in UpFrames : InUp(x) => x.id \in Ids \ Waiting

\* Frames under way are copies of one another or differ in request and place;
\* a copy of the frame the UAV read last has the number it remembers.
UpCopies ==
    /\ recv_nr <= sent
    /\ \A x \in UpFrames : InUp(x) => x.nr \in 1 .. sent /\ (x.nr = recv_nr => x.seq = recv_seq_num)
    /\ \A x, y \in UpFrames : InUp(x) /\ InUp(y) /\ (x.nr = y.nr \/ x.id = y.id) => x = y

\* Until a frame is late, what is left of executed requests is not newer than
\* the frame read last.
DoneRead == ~late_up => \A x \in UpFrames : InUp(x) /\ x.id \in Done => x.nr <= recv_nr

UpInv == TodoOnce /\ TakenFirst /\ UpCopies /\ DoneRead /\ ExecutedOnce

-----------------------------------------------------------------------------
(* The way down.                                                           *)

Messages == [id : Nat, from : {"gnd", "uav"}, what : {"ok", "error", "copy"}]
DownFrames == [seq : Numbers, msg : Messages, nr : Nat]
LogEntries == [nr : Nat, full : BOOLEAN]

DownTypes ==
    /\ downq \in [GndAdapters -> Seq(DownFrames)] /\ uav_seq_num \in Numbers
    /\ log \in Seq(LogEntries) /\ prev_nr \in Nat

InDown(x) == \E a \in GndAdapters : \E i \in 1 .. Len(downq[a]) : downq[a][i] = x

\* The same for the answers and the ground station.
DownCopies ==
    /\ prev_nr <= Len(executed)
    /\ \A x \in DownFrames :
          InDown(x) => x.nr \in 1 .. Len(executed) /\ (x.nr = prev_nr => x.seq = prev_seq_num)
    /\ \A x, y \in DownFrames : InDown(x) /\ InDown(y) /\ x.nr = y.nr => x.seq = y.seq

\* Until a frame is late, an answer that went to all clients is not newer than
\* the frame whose number is remembered.
FullRemembered ==
    ~late_down => \A i \in 1 .. Len(log) : log[i].full => log[i].nr <= prev_nr

DownInv == DownCopies /\ FullRemembered /\ AnswerSentOnce

CommInv == UpTypes /\ UpInv /\ DownTypes /\ DownInv

USE CommAssumption

-----------------------------------------------------------------------------
(* Sequences and sets.                                                     *)

\* Every set of adapters has a last one.
LEMMA LastAdapter ==
    ASSUME NEW rs \in SUBSET AirAdapters, rs # {}
    PROVE  Max(rs) \in rs /\ \A b \in rs : b <= Max(rs)
<1> DEFINE T == {n \in Nat : NumAir - n \in rs}
<1>1. T \subseteq Nat /\ T # {}
  <2>1. PICK a \in rs : TRUE
    OBVIOUS
  <2>2. a \in Int /\ NumAir - a \in Nat /\ NumAir - (NumAir - a) = a
    BY DEF AirAdapters
  <2> QED
    BY <2>1, <2>2
<1>2. PICK n \in T : \A m \in T : ~(<<m, n>> \in OpToRel(<, Nat))
  BY <1>1, NatLessThanWellFounded, WFMin
<1>3. \A m \in T : n <= m
  <2>1. \A m \in T : ~(m < n)
    BY <1>2 DEF OpToRel
  <2> QED
    BY <2>1
<1>4. ASSUME NEW b \in rs PROVE NumAir - n >= b
  <2>1. b \in Int /\ NumAir - b \in Nat /\ NumAir - (NumAir - b) = b
    BY DEF AirAdapters
  <2>2. n <= NumAir - b
    BY <1>3, <2>1
  <2> QED
    BY <2>1, <2>2
<1>5. \E m \in rs : \A b \in rs : m >= b
  BY <1>2, <1>4
<1>6. \A m \in rs : m \in Int
  BY DEF AirAdapters
<1> QED
  BY <1>5, <1>6 DEF Max

\* What an appended sequence holds.
LEMMA AppendAt ==
    ASSUME NEW S, NEW q \in Seq(S), NEW x \in S
    PROVE  /\ Append(q, x) \in Seq(S) /\ Len(Append(q, x)) = Len(q) + 1
           /\ \A i \in 1 .. Len(q) : Append(q, x)[i] = q[i]
           /\ Append(q, x)[Len(q) + 1] = x
OBVIOUS

\* What is left of a sequence after the first n elements were taken.
LEMMA RestAt ==
    ASSUME NEW S, NEW q \in Seq(S), NEW n \in 0 .. Len(q)
    PROVE  /\ SubSeq(q, n + 1, Len(q)) \in Seq(S)
           /\ Len(SubSeq(q, n + 1, Len(q))) = Len(q) - n
           /\ \A i \in 1 .. Len(q) - n : SubSeq(q, n + 1, Len(q))[i] = q[n + i]
OBVIOUS

\* The elements of a concatenation.
LEMMA ConcatAt ==
    ASSUME NEW S, NEW s \in Seq(S), NEW t \in Seq(S)
    PROVE  /\ s \o t \in Seq(S) /\ Len(s \o t) = Len(s) + Len(t)
           /\ \A j \in 1 .. Len(s) + Len(t) :
                 (s \o t)[j] = IF j <= Len(s) THEN s[j] ELSE t[j - Len(s)]
OBVIOUS

-----------------------------------------------------------------------------
(* The radio.                                                              *)

\* After a frame was sent, the queues hold what they held and copies of it.
LEMMA SentQueues ==
    ASSUME NEW D, NEW S, NEW q \in [D -> Seq(S)], NEW f \in S, NEW n \in Nat,
           NEW r \in AfterSend(q, f, n)
    PROVE  /\ r \in [D -> Seq(S)]
           /\ \A a \in D : \A i \in 1 .. Len(r[a]) :
                 r[a][i] = f \/ (i \in 1 .. Len(q[a]) /\ r[a][i] = q[a][i])
<1>1. DOMAIN q = D
  OBVIOUS
<1>2. PICK k \in [D -> (IF clear THEN 1 ELSE 0) .. n] :
          r = [a \in D |-> q[a] \o Copies(f, k[a])]
  BY <1>1 DEF AfterSend
<1>3. ASSUME NEW a \in D
      PROVE  /\ r[a] \in Seq(S)
             /\ \A i \in 1 .. Len(r[a]) : r[a][i] = f \/ (i \in 1 .. Len(q[a]) /\ r[a][i] = q[a][i])
  <2>1. (IF clear THEN 1 ELSE 0) .. n \subseteq Nat
    OBVIOUS
  <2>2. PICK m \in Nat : m = k[a]
    BY <1>2, <2>1
  <2> DEFINE t == Copies(f, m)
  <2>3. t \in Seq(S) /\ Len(t) = m /\ \A i \in 1 .. m : t[i] = f
    BY DEF Copies
  <2>4. r[a] = q[a] \o t
    BY <1>2, <2>2
  <2>5. q[a] \in Seq(S) /\ t \in Seq(S)
    BY <2>3
  <2> HIDE DEF t
  <2>6. /\ q[a] \o t \in Seq(S) /\ Len(q[a] \o t) = Len(q[a]) + Len(t)
        /\ \A i \in 1 .. Len(q[a]) + Len(t) :
              (q[a] \o t)[i] = IF i <= Len(q[a]) THEN q[a][i] ELSE t[i - Len(q[a])]
    BY <2>5, ConcatAt
  <2>7. ASSUME NEW i \in 1 .. Len(r[a])
        PROVE  r[a][i] = f \/ (i \in 1 .. Len(q[a]) /\ r[a][i] = q[a][i])
    <3>1. i \in 1 .. Len(q[a]) + m /\ Len(q[a]) \in Nat
      BY <2>3, <2>4, <2>6, <2>7, <2>5
    <3>2. CASE i <= Len(q[a])
      BY <2>3, <2>4, <2>6, <3>1, <3>2
    <3>3. CASE ~(i <= Len(q[a]))
      <4>1. i - Len(q[a]) \in 1 .. m
        BY <3>1, <3>3
      <4>2. r[a][i] = t[i - Len(q[a])]
        BY <2>3, <2>4, <2>6, <3>1, <3>3
      <4> QED
        BY <2>3, <4>1, <4>2
    <3> QED
      BY <3>2, <3>3
  <2> QED
    BY <2>4, <2>6, <2>7
<1> QED
  BY <1>2, <1>3

\* What is left of a queue when its head was read.
LEMMA TailAt ==
    ASSUME NEW S, NEW q \in Seq(S), q # <<>>
    PROVE  /\ Tail(q) \in Seq(S) /\ Head(q) = q[1] /\ q[1] \in S /\ 1 \in 1 .. Len(q)
           /\ \A i \in 1 .. Len(Tail(q)) : i + 1 \in 1 .. Len(q) /\ Tail(q)[i] = q[i + 1]
OBVIOUS

LEMMA NextSeqType ==
    ASSUME NEW s \in Numbers PROVE NextSeq(s) \in Numbers
BY DEF NextSeq, Numbers

-----------------------------------------------------------------------------
(* Requests in the connections.                                            *)

\* A new request gets a number that no other one has.
LEMMA TodoMore ==
    ASSUME UpTypes, UpInv, NEW c \in Clients, NEW dst \in Dsts, NEW type \in Types,
           Request(c, dst, type)
    PROVE  UpTypes' /\ TodoOnce' /\ TakenFirst'
<1> DEFINE n == Len(requests) + 1
<1>1. requests \in Seq(RequestRecords) /\ todo \in [Clients -> Seq(Nat)] /\ n \in Nat \ Ids
  BY DEF UpTypes, Ids
<1>2. requests' \in Seq(RequestRecords) /\ Len(requests') = n
  <2> DEFINE r == [by |-> c, dst |-> dst, type |-> type,
                   calm |-> clear /\ Failing = {}, gone |-> Gone]
  <2>1. (clear /\ Failing = {}) \in BOOLEAN /\ Gone \in SUBSET Clients
    BY DEF Gone
  <2>2. r \in RequestRecords
    BY <2>1 DEF RequestRecords
  <2>3. requests' = Append(requests, r)
    BY DEF Request
  <2> HIDE DEF r
  <2> QED
    BY <1>1, <2>2, <2>3, AppendAt
<1>3. todo' = [todo EXCEPT ![c] = Append(@, n)] /\ executed' = executed /\ upq' = upq
  BY DEF Request, uavVars
<1>4. todo' \in [Clients -> Seq(Nat)]
  BY <1>1, <1>3, AppendAt
<1>5. ASSUME NEW d \in Clients, NEW i \in 1 .. Len(todo'[d])
      PROVE  \/ i \in 1 .. Len(todo[d]) /\ todo'[d][i] = todo[d][i] /\ todo[d][i] \in Waiting
             \/ d = c /\ i = Len(todo[c]) + 1 /\ todo'[d][i] = n
  <2>1. CASE d = c
    <3>1. todo'[d] = Append(todo[c], n) /\ todo[c] \in Seq(Nat)
      BY <1>1, <1>3, <2>1
    <3>2. Len(todo'[d]) = Len(todo[c]) + 1
      BY <3>1, <1>1
    <3>3. i = Len(todo[c]) + 1 \/ i \in 1 .. Len(todo[c])
      BY <3>1, <3>2
    <3>4. i \in 1 .. Len(todo[c]) => todo'[d][i] = todo[c][i] /\ todo[c][i] \in Nat
      BY <3>1, <1>1
    <3>5. i = Len(todo[c]) + 1 => todo'[d][i] = n
      BY <3>1, <1>1
    <3> QED
      BY <2>1, <3>3, <3>4, <3>5 DEF Waiting
  <2>2. CASE d # c
    <3>1. todo'[d] = todo[d] /\ todo[d] \in Seq(Nat)
      BY <1>1, <1>3, <2>2
    <3> QED
      BY <3>1 DEF Waiting
  <2> QED
    BY <2>1, <2>2
<1>6. Waiting' \subseteq Waiting \cup {n} /\ n \notin Waiting
  <2>1. n \notin Waiting
    BY <1>1 DEF UpInv, TakenFirst
  <2> QED
    BY <1>4, <1>5, <2>1 DEF Waiting
<1>7. TodoOnce'
  <2> SUFFICES ASSUME NEW d \in Clients, NEW e \in Clients,
                      NEW i \in 1 .. Len(todo'[d]), NEW j \in 1 .. Len(todo'[e]),
                      todo'[d][i] = todo'[e][j]
               PROVE  d = e /\ i = j
    BY DEF TodoOnce
  <2>1. CASE todo'[d][i] = n
    BY <1>5, <1>6, <2>1
  <2>2. CASE todo'[d][i] # n
    <3>1. i \in 1 .. Len(todo[d]) /\ j \in 1 .. Len(todo[e]) /\ todo[d][i] = todo[e][j]
      BY <1>5, <2>2
    <3> QED
      BY <3>1 DEF TodoOnce, UpInv
  <2> QED
    BY <2>1, <2>2
<1>8. Ids' = Ids \cup {n}
  BY <1>1, <1>2 DEF Ids
<1>9. Done' = Done /\ \A x \in UpFrames : InUp(x)' <=> InUp(x)
  BY <1>3 DEF Done, InUp
<1>10. TakenFirst'
  BY <1>1, <1>6, <1>8, <1>9 DEF TakenFirst, UpInv
<1> QED
  BY <1>2, <1>3, <1>4, <1>7, <1>10 DEF UpTypes, Request, gndVars, uavVars

\* A request that was read is not in the connection any more.
LEMMA TodoLess ==
    ASSUME UpTypes, TodoOnce, NEW c \in Clients, NEW n \in 0 .. Len(todo[c]),
           todo' = [todo EXCEPT ![c] = SubSeq(@, n + 1, Len(@))]
    PROVE  /\ todo' \in [Clients -> Seq(Nat)] /\ TodoOnce'
           /\ Waiting' \subseteq Waiting
           /\ n > 0 => Waiting' \subseteq Waiting \ {todo[c][1]} /\ todo[c][1] \in Waiting
<1>1. todo \in [Clients -> Seq(Nat)] /\ todo[c] \in Seq(Nat)
  BY DEF UpTypes
<1>2. /\ todo'[c] \in Seq(Nat) /\ Len(todo'[c]) = Len(todo[c]) - n
      /\ \A i \in 1 .. Len(todo[c]) - n : todo'[c][i] = todo[c][n + i]
  BY <1>1, RestAt
<1>3. todo' \in [Clients -> Seq(Nat)] /\ \A d \in Clients : d # c => todo'[d] = todo[d]
  BY <1>1, <1>2
<1>4. ASSUME NEW d \in Clients, NEW i \in 1 .. Len(todo'[d])
      PROVE  \E k \in 1 .. Len(todo[d]) : /\ todo'[d][i] = todo[d][k] /\ todo[d][k] \in Nat
                                         /\ k = IF d = c THEN n + i ELSE i
  <2>1. CASE d = c
    <3>1. n + i \in 1 .. Len(todo[c]) /\ todo'[c][i] = todo[c][n + i]
      BY <1>1, <1>2, <2>1
    <3> QED
      BY <1>1, <2>1, <3>1
  <2>2. CASE d # c
    BY <1>1, <1>3, <2>2
  <2> QED
    BY <2>1, <2>2
<1>5. TodoOnce'
  <2> SUFFICES ASSUME NEW d \in Clients, NEW e \in Clients,
                      NEW i \in 1 .. Len(todo'[d]), NEW j \in 1 .. Len(todo'[e]),
                      todo'[d][i] = todo'[e][j]
               PROVE  d = e /\ i = j
    BY DEF TodoOnce
  <2>1. PICK k \in 1 .. Len(todo[d]) : todo'[d][i] = todo[d][k] /\ k = IF d = c THEN n + i ELSE i
    BY <1>4
  <2>2. PICK l \in 1 .. Len(todo[e]) : todo'[e][j] = todo[e][l] /\ l = IF e = c THEN n + j ELSE j
    BY <1>4
  <2>3. d = e /\ k = l
    BY <2>1, <2>2 DEF TodoOnce
  <2> QED
    BY <2>1, <2>2, <2>3
<1>6. n > 0 => todo[c][1] \in Nat /\ 1 \in 1 .. Len(todo[c])
  <2>1. n > 0 => 1 \in 1 .. Len(todo[c])
    BY <1>1
  <2> QED
    BY <1>1, <2>1
<1>7. ASSUME NEW d \in Clients, NEW i \in 1 .. Len(todo'[d])
      PROVE  todo'[d][i] \in Waiting /\ (n > 0 => todo'[d][i] # todo[c][1])
  <2>1. PICK k \in 1 .. Len(todo[d]) : /\ todo'[d][i] = todo[d][k] /\ todo[d][k] \in Nat
                                       /\ k = IF d = c THEN n + i ELSE i
    BY <1>4
  <2>2. n > 0 => d # c \/ k # 1
    BY <2>1
  <2>3. n > 0 => todo[d][k] # todo[c][1]
    BY <1>6, <2>2 DEF TodoOnce
  <2> QED
    BY <2>1, <2>3 DEF Waiting
<1>8. Waiting' \subseteq Waiting /\ (n > 0 => Waiting' \subseteq Waiting \ {todo[c][1]})
  BY <1>7 DEF Waiting
<1> QED
  BY <1>3, <1>5, <1>6, <1>8 DEF Waiting

\* A reset connection drops its requests.
LEMMA TodoDropped ==
    ASSUME UpTypes, TodoOnce, NEW c \in Clients,
           todo' = [todo EXCEPT ![c] = <<>>] \/ todo' = todo
    PROVE  todo' \in [Clients -> Seq(Nat)] /\ TodoOnce' /\ Waiting' \subseteq Waiting
<1>1. todo \in [Clients -> Seq(Nat)]
  BY DEF UpTypes
<1>2. todo' \in [Clients -> Seq(Nat)]
  <2>1. <<>> \in Seq(Nat)
    OBVIOUS
  <2> QED
    BY <1>1, <2>1
<1>3. \A d \in Clients : todo'[d] = todo[d] \/ todo'[d] = <<>>
  BY <1>1
<1>4. \A d \in Clients : \A i \in 1 .. Len(todo'[d]) : todo'[d] = todo[d]
  BY <1>1, <1>3
<1>5. TodoOnce'
  BY <1>4 DEF TodoOnce
<1>6. Waiting' \subseteq Waiting
  BY <1>4 DEF Waiting
<1> QED
  BY <1>2, <1>5, <1>6

\* The handler of a request sends at most the request itself to the UAV.
LEMMA HandlerOutcome ==
    ASSUME NEW id \in Nat, process_comm_proto(id)
    PROVE  UNCHANGED <<gnd_seq_num, sent, upq>> \/ sendto_uav(id)
BY DEF process_comm_proto, Answer, Forward, Dies

\* So does a read of a client, which takes what it reads from the connection.
LEMMA ReadOutcome ==
    ASSUME UpTypes, TodoOnce, NEW c \in Clients, ReadClient(c)
    PROVE  /\ todo' \in [Clients -> Seq(Nat)] /\ TodoOnce' /\ Waiting' \subseteq Waiting
           /\ \/ UNCHANGED <<gnd_seq_num, sent, upq>>
              \/ /\ todo[c][1] \in Waiting /\ Waiting' \subseteq Waiting \ {todo[c][1]}
                 /\ sendto_uav(todo[c][1])
<1>1. todo[c] \in Seq(Nat)
  BY DEF UpTypes
<1>2. PICK n \in 0 .. Len(todo[c]), part \in {0, 1} :
          /\ n + part \in (IF c \in torn THEN 0 ELSE 1) .. Len(todo[c])
          /\ todo' = [todo EXCEPT ![c] = SubSeq(@, n + part + 1, Len(@))]
          /\ \/ n = 1 /\ part = 0 /\ process_comm_proto(Head(todo[c]))
             \/ Answer(0, "error") \/ Dies
  BY DEF ReadClient
<1>3. n + part \in 0 .. Len(todo[c])
  BY <1>1, <1>2
<1>4. PICK m \in 0 .. Len(todo[c]) : m = n + part
  BY <1>3
<1>5. todo' = [todo EXCEPT ![c] = SubSeq(@, m + 1, Len(@))]
  BY <1>2, <1>4
<1>6. /\ todo' \in [Clients -> Seq(Nat)] /\ TodoOnce' /\ Waiting' \subseteq Waiting
      /\ m > 0 => Waiting' \subseteq Waiting \ {todo[c][1]} /\ todo[c][1] \in Waiting
  BY <1>5, TodoLess
<1>7. CASE n = 1 /\ part = 0 /\ process_comm_proto(Head(todo[c]))
  <2>1. m > 0 /\ m <= Len(todo[c])
    BY <1>4, <1>7
  <2>2. Head(todo[c]) = todo[c][1] /\ todo[c][1] \in Nat
    BY <1>1, <2>1
  <2> QED
    BY <1>6, <1>7, <2>1, <2>2, HandlerOutcome
<1>8. CASE Answer(0, "error") \/ Dies
  BY <1>6, <1>8 DEF Answer, Dies
<1> QED
  BY <1>2, <1>7, <1>8

-----------------------------------------------------------------------------
(* Requests under way and executed.                                        *)

\* Nothing about the requests changes.
LEMMA UpSame ==
    ASSUME UpTypes, UpInv, todo' \in [Clients -> Seq(Nat)], TodoOnce', Waiting' \subseteq Waiting,
           UNCHANGED <<upq, gnd_seq_num, sent, recv_seq_num, recv_nr, late_up, executed, requests>>
    PROVE  UpTypes' /\ UpInv'
<1>1. Done' = Done /\ Ids' = Ids
  BY DEF Done, Ids
<1>2. \A x \in UpFrames : InUp(x)' <=> InUp(x)
  BY DEF InUp
<1>3. TakenFirst'
  BY <1>1, <1>2 DEF UpInv, TakenFirst
<1>4. UpCopies'
  BY <1>2 DEF UpInv, UpCopies
<1>5. DoneRead'
  BY <1>1, <1>2 DEF UpInv, DoneRead
<1>6. ExecutedOnce'
  BY DEF UpInv, ExecutedOnce
<1> QED
  BY <1>3, <1>4, <1>5, <1>6 DEF UpTypes, UpInv

\* A request taken from its connection is sent.
LEMMA UpSends ==
    ASSUME UpTypes, UpInv, NEW id \in Waiting, sendto_uav(id),
           todo' \in [Clients -> Seq(Nat)], TodoOnce', Waiting' \subseteq Waiting \ {id},
           UNCHANGED <<recv_seq_num, recv_nr, late_up, executed, requests>>
    PROVE  UpTypes' /\ UpInv'
<1> DEFINE f == [seq |-> NextSeq(gnd_seq_num), id |-> id, nr |-> sent + 1]
<1>1. id \in Nat /\ id \in Ids /\ id \notin Done /\ sent \in Nat /\ recv_nr \in Nat
  BY DEF UpTypes, UpInv, TakenFirst, Waiting
<1>2. f \in UpFrames /\ f.id = id /\ f.nr = sent + 1 /\ gnd_seq_num' \in Numbers /\ sent' = sent + 1
  BY <1>1, NextSeqType DEF UpFrames, UpTypes, sendto_uav
<1>3. PICK n \in 1 .. Cardinality(GndAdapters) : upq' \in AfterSend(upq, f, n)
  BY DEF sendto_uav
<1>4. n \in Nat /\ upq \in [AirAdapters -> Seq(UpFrames)]
  BY <1>3, FS_CardinalityType DEF UpTypes
<1> HIDE DEF f
<1>5. /\ upq' \in [AirAdapters -> Seq(UpFrames)]
      /\ \A a \in AirAdapters : \A i \in 1 .. Len(upq'[a]) :
            upq'[a][i] = f \/ (i \in 1 .. Len(upq[a]) /\ upq'[a][i] = upq[a][i])
  <2>1. f \in UpFrames
    BY <1>2
  <2> QED
    BY <1>3, <1>4, <2>1, SentQueues
<1>6. \A x \in UpFrames : InUp(x)' => x = f \/ InUp(x)
  BY <1>5 DEF InUp
<1>7. Done' = Done /\ Ids' = Ids
  BY DEF Done, Ids
<1>8. \A x \in UpFrames : InUp(x) => x.nr \in 1 .. sent /\ x.id # id
  BY DEF UpInv, UpCopies, TakenFirst
<1>9. TakenFirst'
  BY <1>1, <1>2, <1>6, <1>7 DEF UpInv, TakenFirst
<1>10. UpCopies'
  <2>1. recv_nr <= sent /\ recv_nr' = recv_nr /\ recv_seq_num' = recv_seq_num
    BY DEF UpInv, UpCopies
  <2>2. ASSUME NEW x \in UpFrames, InUp(x)'
        PROVE  x.nr \in 1 .. sent' /\ (x.nr = recv_nr' => x.seq = recv_seq_num')
    <3>1. CASE x = f
      BY <1>1, <1>2, <2>1, <3>1
    <3>2. CASE InUp(x)
      BY <1>1, <1>2, <2>1, <3>2 DEF UpInv, UpCopies
    <3> QED
      BY <1>6, <2>2, <3>1, <3>2
  <2>3. ASSUME NEW x \in UpFrames, NEW y \in UpFrames, InUp(x)', InUp(y)', x.nr = y.nr \/ x.id = y.id
        PROVE  x = y
    <3>1. CASE InUp(x) /\ InUp(y)
      BY <2>3, <3>1 DEF UpInv, UpCopies
    <3>2. CASE x = f /\ InUp(y)
      BY <1>1, <1>2, <1>8, <2>3, <3>2
    <3>3. CASE InUp(x) /\ y = f
      BY <1>1, <1>2, <1>8, <2>3, <3>3
    <3> QED
      BY <1>6, <2>3, <3>1, <3>2, <3>3
  <2> QED
    BY <1>1, <1>2, <2>1, <2>2, <2>3 DEF UpCopies
<1>11. DoneRead'
  BY <1>1, <1>2, <1>6, <1>7 DEF UpInv, DoneRead
<1>12. ExecutedOnce'
  BY DEF UpInv, ExecutedOnce
<1>13. UpTypes'
  BY <1>1, <1>2, <1>5 DEF UpTypes
<1> QED
  BY <1>9, <1>10, <1>11, <1>12, <1>13 DEF UpInv

\* receive_data: unless a frame is late, a frame that is returned is not a copy
\* of the one read last, and none read in the round is newer than the last.
LEMMA PickFacts ==
    ASSUME UpTypes, UpCopies, NEW rs \in SUBSET Readable, rs # {}
    PROVE  \E l \in UpFrames :
              /\ InUp(l) /\ l = NextFrame(Max(rs)) /\ Pick(rs).recv = l.seq
              /\ ~Late(rs) => recv_nr <= l.nr
              /\ Pick(rs).id # 0 =>
                    \E f \in UpFrames :
                       /\ InUp(f) /\ Pick(rs).id = f.id
                       /\ ~Late(rs) => recv_nr < f.nr /\ f.nr <= l.nr
<1>1. rs \subseteq AirAdapters /\ \A a \in rs : upq[a] # <<>>
  BY DEF Readable
<1>2. ASSUME NEW a \in rs
      PROVE  NextFrame(a) \in UpFrames /\ InUp(NextFrame(a)) /\ NextFrame(a).nr \in Nat
  <2>1. a \in AirAdapters /\ upq[a] \in Seq(UpFrames) /\ upq[a] # <<>>
    BY <1>1 DEF UpTypes
  <2>2. Head(upq[a]) = upq[a][1] /\ upq[a][1] \in UpFrames /\ 1 \in 1 .. Len(upq[a])
    BY <2>1, TailAt
  <2>3. upq[a][1].nr \in Nat
    BY <2>2 DEF UpFrames
  <2> QED
    BY <2>1, <2>2, <2>3 DEF NextFrame, InUp
<1>3. Max(rs) \in rs /\ \A b \in rs : b <= Max(rs) /\ b \in Int
  BY <1>1, LastAdapter DEF AirAdapters
<1> DEFINE l == NextFrame(Max(rs))
<1>4. l \in UpFrames /\ InUp(l) /\ Pick(rs).recv = l.seq /\ l.nr \in Nat
  BY <1>2, <1>3 DEF Pick
<1>5. recv_nr \in Nat
  BY DEF UpTypes
<1>6. ASSUME ~Late(rs), NEW a \in rs
      PROVE  recv_nr <= NextFrame(a).nr /\ \A b \in rs : b < a => NextFrame(b).nr <= NextFrame(a).nr
  BY <1>2, <1>5, <1>6 DEF Late
<1> DEFINE fresh == {a \in rs : NextFrame(a).seq # ReadBefore(rs, a).seq}
<1>7. ASSUME Pick(rs).id # 0
      PROVE  \E f \in UpFrames :
                /\ InUp(f) /\ Pick(rs).id = f.id
                /\ ~Late(rs) => recv_nr < f.nr /\ f.nr <= l.nr
  <2>1. fresh # {} /\ Pick(rs).id = NextFrame(Max(fresh)).id
    BY <1>7 DEF Pick
  <2>2. Max(fresh) \in fresh
    BY <1>1, <2>1, LastAdapter
  <2> HIDE DEF l
  <2>3. PICK a \in rs : a = Max(fresh) /\ NextFrame(a).seq # ReadBefore(rs, a).seq
    BY <2>2
  <2>4. ASSUME ~Late(rs) PROVE recv_nr < NextFrame(a).nr /\ NextFrame(a).nr <= l.nr
    <3>1. NextFrame(a).nr <= l.nr
      <4>1. CASE a = Max(rs)
        BY <1>2, <4>1 DEF l
      <4>2. CASE a # Max(rs)
        <5>1. a < Max(rs)
          BY <1>3, <4>2
        <5> QED
          BY <1>3, <1>6, <2>4, <5>1 DEF l
      <4> QED
        BY <4>1, <4>2
    <3>2. ASSUME NextFrame(a).nr = recv_nr PROVE FALSE
      <4>1. NextFrame(a).seq = recv_seq_num
        BY <1>2, <3>2 DEF UpCopies
      <4> DEFINE before == {b \in rs : b < a}
      <4>2. CASE before = {}
        <5>1. ReadBefore(rs, a).seq = recv_seq_num
          BY <4>2 DEF ReadBefore
        <5> QED
          BY <2>3, <4>1, <5>1
      <4>3. CASE before # {}
        <5>1. Max(before) \in before
          BY <1>1, <4>3, LastAdapter
        <5>2. PICK b \in rs : b = Max(before) /\ b < a
          BY <5>1
        <5>3. ReadBefore(rs, a).seq = NextFrame(b).seq
          BY <4>3, <5>2 DEF ReadBefore
        <5>4. NextFrame(b).nr = recv_nr
          <6>1. recv_nr <= NextFrame(b).nr /\ NextFrame(b).nr <= NextFrame(a).nr
            BY <1>6, <2>4, <5>2
          <6> QED
            BY <1>2, <1>5, <3>2, <6>1
        <5>5. NextFrame(b).seq = recv_seq_num
          BY <1>2, <5>4 DEF UpCopies
        <5> QED
          BY <2>3, <4>1, <5>3, <5>5
      <4> QED
        BY <4>2, <4>3
    <3>3. recv_nr <= NextFrame(a).nr
      BY <1>6, <2>4
    <3> QED
      BY <1>2, <1>5, <3>1, <3>2, <3>3
  <2>5. NextFrame(a) \in UpFrames /\ InUp(NextFrame(a)) /\ Pick(rs).id = NextFrame(a).id
    BY <1>2, <2>1, <2>3
  <2> QED
    BY <2>4, <2>5
<1>8. ~Late(rs) => recv_nr <= l.nr
  BY <1>3, <1>6
<1> HIDE DEF l
<1> QED
  BY <1>4, <1>7, <1>8 DEF l

\* What a round of the UAV does to the requests.
LEMMA UpReceives ==
    ASSUME UpTypes, UpInv, NEW rs \in SUBSET AirAdapters, UavReceives(rs)
    PROVE  /\ UpTypes' /\ UpInv'
           /\ \/ UNCHANGED <<executed, uav_seq_num, downq>>
              \/ \E id \in Nat, n \in 1 .. NumAir :
                    /\ Len(executed') = Len(executed) + 1 /\ uav_seq_num' = NextSeq(uav_seq_num)
                    /\ downq' \in AfterSend(downq, [seq |-> NextSeq(uav_seq_num),
                                                   msg |-> Message(id, "uav", "ok"),
                                                   nr |-> Len(executed) + 1], n)
<1>1. /\ rs # {} /\ rs \in SUBSET Readable /\ upq \in [AirAdapters -> Seq(UpFrames)]
      /\ UpCopies /\ executed \in Seq(Nat) /\ recv_nr \in Nat
  BY DEF UavReceives, UpTypes, UpInv
<1>2. PICK l \in UpFrames :
              /\ InUp(l) /\ l = NextFrame(Max(rs)) /\ Pick(rs).recv = l.seq
              /\ ~Late(rs) => recv_nr <= l.nr
              /\ Pick(rs).id # 0 =>
                    \E f \in UpFrames :
                       /\ InUp(f) /\ Pick(rs).id = f.id
                       /\ ~Late(rs) => recv_nr < f.nr /\ f.nr <= l.nr
  BY <1>1, PickFacts
<1>3. /\ UNCHANGED <<todo, requests, gnd_seq_num, sent>>
      /\ recv_seq_num' = l.seq /\ recv_nr' = l.nr /\ l.nr \in Nat
      /\ upq' = [a \in AirAdapters |-> IF a \in rs THEN Tail(upq[a]) ELSE upq[a]]
  BY <1>2 DEF UavReceives, gndVars, clientVars, UpFrames
<1>4. ~late_up' => ~late_up /\ ~Late(rs)
  BY Zenon DEF UavReceives
<1>5. ASSUME NEW a \in AirAdapters
      PROVE  /\ upq'[a] \in Seq(UpFrames)
             /\ \A i \in 1 .. Len(upq'[a]) : \E j \in 1 .. Len(upq[a]) : upq'[a][i] = upq[a][j]
  <2>1. CASE a \in rs
    <3>1. upq'[a] = Tail(upq[a]) /\ upq[a] \in Seq(UpFrames) /\ upq[a] # <<>>
      BY <1>1, <1>3, <2>1 DEF Readable
    <3>2. /\ Tail(upq[a]) \in Seq(UpFrames)
          /\ \A i \in 1 .. Len(Tail(upq[a])) : i + 1 \in 1 .. Len(upq[a]) /\ Tail(upq[a])[i] = upq[a][i + 1]
      BY <3>1, TailAt
    <3> QED
      BY <3>1, <3>2
  <2>2. CASE a \notin rs
    BY <1>1, <1>3, <2>2
  <2> QED
    BY <2>1, <2>2
<1>6. upq' \in [AirAdapters -> Seq(UpFrames)]
  BY <1>3, <1>5
<1>7. \A x \in UpFrames : InUp(x)' => InUp(x)
  BY <1>5 DEF InUp
<1>8. UpCopies'
  <2>1. l.nr \in 1 .. sent
    BY <1>2 DEF UpInv, UpCopies
  <2>2. \A x \in UpFrames : InUp(x)' => x.nr \in 1 .. sent /\ (x.nr = l.nr => x.seq = l.seq)
    BY <1>2, <1>7 DEF UpInv, UpCopies
  <2>3. \A x, y \in UpFrames : InUp(x)' /\ InUp(y)' /\ (x.nr = y.nr \/ x.id = y.id) => x = y
    BY <1>7 DEF UpInv, UpCopies
  <2> QED
    BY <1>3, <2>1, <2>2, <2>3 DEF UpCopies
<1>9. TodoOnce' /\ Ids' = Ids /\ Waiting' = Waiting
  BY <1>3 DEF UpInv, TodoOnce, Ids, Waiting
<1>10. CASE UNCHANGED <<executed, uav_seq_num, downq>>
  <2>1. Done' = Done
    BY <1>10 DEF Done
  <2>2. ExecutedOnce'
    BY <1>4, <1>10 DEF UpInv, ExecutedOnce
  <2>3. TakenFirst'
    BY <1>7, <1>9, <2>1 DEF UpInv, TakenFirst
  <2>4. DoneRead'
    <3> SUFFICES ASSUME ~late_up', NEW x \in UpFrames, InUp(x)', x.id \in Done'
                 PROVE  x.nr <= l.nr
      BY <1>3 DEF DoneRead
    <3>1. x.nr <= recv_nr /\ x.nr \in Nat
      BY <1>4, <1>7, <2>1 DEF UpInv, DoneRead, UpFrames
    <3>2. recv_nr <= l.nr
      BY <1>2, <1>4
    <3> QED
      BY <1>1, <1>3, <3>1, <3>2
  <2>5. UpTypes'
    BY <1>3, <1>6, <1>10 DEF UpTypes
  <2> QED
    BY <1>8, <1>9, <1>10, <2>2, <2>3, <2>4, <2>5 DEF UpInv
<1>11. CASE ~UNCHANGED <<executed, uav_seq_num, downq>>
  <2> DEFINE id == Pick(rs).id
  <2>1. PICK n \in 1 .. NumAir :
        /\ id # 0 /\ executed' = Append(executed, id)
        /\ uav_seq_num' = NextSeq(uav_seq_num)
        /\ downq' \in AfterSend(downq, [seq |-> NextSeq(uav_seq_num),
                                        msg |-> Message(id, "uav", "ok"),
                                        nr |-> Len(executed) + 1], n)
    BY <1>11 DEF UavReceives
  <2>2. PICK f \in UpFrames : /\ InUp(f) /\ id = f.id
                              /\ ~Late(rs) => recv_nr < f.nr /\ f.nr <= l.nr
    BY <1>2, <2>1
  <2> HIDE DEF id
  <2>3. id \in Nat /\ id \in Ids \ Waiting /\ f.nr \in Nat
    BY <2>2 DEF UpInv, TakenFirst, UpFrames
  <2>4. ~late_up' => id \notin Done
    <3> SUFFICES ASSUME ~late_up', id \in Done
                 PROVE  FALSE
      OBVIOUS
    <3>1. f.nr <= recv_nr
      BY <1>4, <2>2 DEF UpInv, DoneRead
    <3>2. recv_nr < f.nr
      BY <1>4, <2>2
    <3> QED
      BY <1>1, <2>3, <3>1, <3>2
  <2>5. /\ executed' \in Seq(Nat) /\ Len(executed') = Len(executed) + 1
        /\ \A i \in 1 .. Len(executed) : executed'[i] = executed[i] /\ executed[i] \in Done
        /\ executed'[Len(executed) + 1] = id
    BY <1>1, <2>1, <2>3, AppendAt DEF Done
  <2>6. Done' \subseteq Done \cup {id}
    <3>1. \A i \in 1 .. Len(executed') : i \in 1 .. Len(executed) \/ i = Len(executed) + 1
      BY <1>1, <2>5
    <3>2. \A i \in 1 .. Len(executed') : executed'[i] \in Done \cup {id}
      BY <2>5, <3>1
    <3> QED
      BY <3>2 DEF Done
  <2>7. ExecutedOnce'
    <3> SUFFICES ASSUME ~late_up', NEW i \in 1 .. Len(executed'), NEW j \in 1 .. Len(executed'), i # j
                 PROVE  executed'[i] # executed'[j]
      BY DEF ExecutedOnce
    <3>1. (i = Len(executed) + 1 \/ i \in 1 .. Len(executed)) /\ (j = Len(executed) + 1 \/ j \in 1 .. Len(executed))
      BY <1>1, <2>5
    <3>2. id \notin Done /\ ~late_up
      BY <1>4, <2>4
    <3> QED
      BY <2>5, <3>1, <3>2 DEF UpInv, ExecutedOnce
  <2>8. TakenFirst'
    BY <1>7, <1>9, <2>3, <2>6 DEF UpInv, TakenFirst
  <2>9. DoneRead'
    <3> SUFFICES ASSUME ~late_up', NEW x \in UpFrames, InUp(x)', x.id \in Done'
                 PROVE  x.nr <= l.nr
      BY <1>3 DEF DoneRead
    <3>1. InUp(x) /\ x.nr \in Nat /\ ~late_up /\ recv_nr <= l.nr /\ f.nr <= l.nr
      BY <1>2, <1>4, <1>7, <2>2 DEF UpFrames
    <3>2. CASE x.id \in Done
      <4>1. x.nr <= recv_nr
        BY <3>1, <3>2 DEF UpInv, DoneRead
      <4> QED
        BY <1>1, <1>3, <3>1, <4>1
    <3>3. CASE x.id = id
      <4>1. x = f
        BY <2>2, <3>1, <3>3 DEF UpInv, UpCopies
      <4> QED
        BY <3>1, <4>1
    <3> QED
      BY <2>6, <3>2, <3>3
  <2>10. UpTypes'
    BY <1>3, <1>6, <2>5 DEF UpTypes
  <2>11. UpInv'
    BY <1>8, <1>9, <2>7, <2>8, <2>9 DEF UpInv
  <2> QED
    BY <2>1, <2>3, <2>5, <2>10, <2>11
<1> QED
  BY <1>10, <1>11

-----------------------------------------------------------------------------
(* Answers under way and given to the clients.                             *)

\* Nothing about the answers changes.
LEMMA DownSame ==
    ASSUME DownTypes, DownInv,
           UNCHANGED <<downq, uav_seq_num, prev_seq_num, prev_nr, late_down, log, executed>>
    PROVE  DownTypes' /\ DownInv'
<1>1. \A x \in DownFrames : InDown(x)' <=> InDown(x)
  BY DEF InDown
<1>2. DownCopies'
  BY <1>1 DEF DownInv, DownCopies
<1>3. FullRemembered' /\ AnswerSentOnce'
  BY DEF DownInv, FullRemembered, AnswerSentOnce
<1> QED
  BY <1>2, <1>3 DEF DownTypes, DownInv

\* The UAV answers with a frame newer than all before.
LEMMA DownSends ==
    ASSUME DownTypes, DownInv, executed \in Seq(Nat), NEW id \in Nat, NEW n \in 1 .. NumAir,
           Len(executed') = Len(executed) + 1, uav_seq_num' = NextSeq(uav_seq_num),
           downq' \in AfterSend(downq, [seq |-> NextSeq(uav_seq_num),
                                        msg |-> Message(id, "uav", "ok"),
                                        nr |-> Len(executed) + 1], n),
           UNCHANGED <<prev_seq_num, prev_nr, late_down, log>>
    PROVE  DownTypes' /\ DownInv'
<1> DEFINE f == [seq |-> NextSeq(uav_seq_num), msg |-> Message(id, "uav", "ok"),
                 nr |-> Len(executed) + 1]
<1>1. Len(executed) \in Nat /\ n \in Nat /\ prev_nr \in Nat /\ prev_nr <= Len(executed)
  BY DEF DownTypes, DownInv, DownCopies
<1>2. Message(id, "uav", "ok") \in Messages /\ NextSeq(uav_seq_num) \in Numbers
  BY NextSeqType DEF Message, Messages, DownTypes
<1>3. f \in DownFrames /\ f.nr = Len(executed) + 1
  BY <1>1, <1>2 DEF DownFrames
<1>4. downq' \in AfterSend(downq, f, n)
  OBVIOUS
<1> HIDE DEF f
<1>5. /\ downq' \in [GndAdapters -> Seq(DownFrames)]
      /\ \A a \in GndAdapters : \A i \in 1 .. Len(downq'[a]) :
            downq'[a][i] = f \/ (i \in 1 .. Len(downq[a]) /\ downq'[a][i] = downq[a][i])
  BY <1>1, <1>3, <1>4, SentQueues DEF DownTypes
<1>6. \A x \in DownFrames : InDown(x)' => x = f \/ InDown(x)
  BY <1>5 DEF InDown
<1>7. \A x \in DownFrames : InDown(x) => x.nr \in 1 .. Len(executed)
  BY DEF DownInv, DownCopies
<1>8. DownCopies'
  <2>1. ASSUME NEW x \in DownFrames, InDown(x)'
        PROVE  x.nr \in 1 .. Len(executed') /\ (x.nr = prev_nr' => x.seq = prev_seq_num')
    <3>1. CASE x = f
      BY <1>1, <1>3, <3>1
    <3>2. CASE InDown(x)
      BY <1>1, <3>2 DEF DownInv, DownCopies
    <3> QED
      BY <1>6, <2>1, <3>1, <3>2
  <2>2. ASSUME NEW x \in DownFrames, NEW y \in DownFrames, InDown(x)', InDown(y)', x.nr = y.nr
        PROVE  x.seq = y.seq
    <3>1. CASE InDown(x) /\ InDown(y)
      BY <2>2, <3>1 DEF DownInv, DownCopies
    <3>2. CASE x = f /\ InDown(y)
      BY <1>1, <1>3, <1>7, <2>2, <3>2
    <3>3. CASE InDown(x) /\ y = f
      BY <1>1, <1>3, <1>7, <2>2, <3>3
    <3> QED
      BY <1>6, <2>2, <3>1, <3>2, <3>3
  <2> QED
    BY <1>1, <2>1, <2>2 DEF DownCopies
<1>9. FullRemembered' /\ AnswerSentOnce'
  BY DEF DownInv, FullRemembered, AnswerSentOnce
<1> QED
  BY <1>2, <1>5, <1>8, <1>9 DEF DownTypes, DownInv

\* The ground station reads an answer.
LEMMA DownReads ==
    ASSUME DownTypes, DownInv, executed' = executed, Len(executed) \in Nat,
           NEW a \in GndAdapters, ReadRadio(a)
    PROVE  DownTypes' /\ DownInv'
<1> DEFINE f == Head(downq[a])
<1>1. /\ downq \in [GndAdapters -> Seq(DownFrames)] /\ downq[a] \in Seq(DownFrames)
      /\ downq[a] # <<>> /\ downq' = [downq EXCEPT ![a] = Tail(downq[a])]
      /\ uav_seq_num' = uav_seq_num /\ prev_nr \in Nat
      /\ log \in Seq(LogEntries) /\ Len(log) \in Nat
  BY DEF DownTypes, ReadRadio, uavVars
<1>2. /\ Tail(downq[a]) \in Seq(DownFrames) /\ f = downq[a][1] /\ f \in DownFrames
      /\ 1 \in 1 .. Len(downq[a])
      /\ \A i \in 1 .. Len(Tail(downq[a])) :
            i + 1 \in 1 .. Len(downq[a]) /\ Tail(downq[a])[i] = downq[a][i + 1]
  BY <1>1, TailAt
<1>3. InDown(f) /\ f.nr \in Nat
  BY <1>2 DEF InDown, DownFrames
<1>4. ~late_down' => ~late_down /\ ~(f.nr < prev_nr)
  BY Zenon DEF ReadRadio
<1>5. \/ f.seq = prev_seq_num /\ UNCHANGED <<prev_seq_num, prev_nr, log>>
      \/ /\ f.seq # prev_seq_num
         /\ log' = Append(log, [nr |-> f.nr, full |-> ~Raises])
         /\ IF Raises THEN UNCHANGED <<prev_seq_num, prev_nr>>
            ELSE prev_seq_num' = f.seq /\ prev_nr' = f.nr
  BY DEF ReadRadio, IsCopy
<1> HIDE DEF f
<1>6. ASSUME NEW x \in DownFrames, InDown(x)' PROVE InDown(x)
  <2>1. PICK b \in GndAdapters : \E i \in 1 .. Len(downq'[b]) : downq'[b][i] = x
    BY <1>6 DEF InDown
  <2>2. PICK i \in 1 .. Len(downq'[b]) : downq'[b][i] = x
    BY <2>1
  <2>3. CASE b = a
    <3>1. downq'[b] = Tail(downq[a])
      BY <1>1, <2>3
    <3>2. i + 1 \in 1 .. Len(downq[a]) /\ downq[a][i + 1] = x
      BY <1>2, <2>2, <3>1
    <3> QED
      BY <3>2 DEF InDown
  <2>4. CASE b # a
    <3>1. downq'[b] = downq[b]
      BY <1>1, <2>4
    <3> QED
      BY <2>2, <3>1 DEF InDown
  <2> QED
    BY <2>3, <2>4
<1>7. downq' \in [GndAdapters -> Seq(DownFrames)]
  BY <1>1, <1>2
<1>8. /\ f.nr \in 1 .. Len(executed) /\ (f.nr = prev_nr => f.seq = prev_seq_num)
      /\ prev_nr <= Len(executed)
      /\ \A x \in DownFrames : InDown(x) => /\ x.nr \in 1 .. Len(executed)
                                            /\ x.nr = prev_nr => x.seq = prev_seq_num
                                            /\ x.nr = f.nr => x.seq = f.seq
      /\ \A x, y \in DownFrames : InDown(x) /\ InDown(y) /\ x.nr = y.nr => x.seq = y.seq
  BY <1>2, <1>3 DEF DownInv, DownCopies
<1>9. DownCopies' /\ prev_nr' \in Nat
  <2>1. CASE prev_seq_num' = prev_seq_num /\ prev_nr' = prev_nr
    BY <1>1, <1>6, <1>8, <2>1 DEF DownCopies
  <2>2. CASE prev_seq_num' = f.seq /\ prev_nr' = f.nr
    <3>1. prev_nr' <= Len(executed') /\ prev_nr' \in Nat
      BY <1>8, <2>2
    <3>2. \A x \in DownFrames : InDown(x)' =>
              x.nr \in 1 .. Len(executed') /\ (x.nr = prev_nr' => x.seq = prev_seq_num')
      BY <1>6, <1>8, <2>2
    <3>3. \A x, y \in DownFrames : InDown(x)' /\ InDown(y)' /\ x.nr = y.nr => x.seq = y.seq
      BY <1>6, <1>8
    <3> QED
      BY <3>1, <3>2, <3>3 DEF DownCopies
  <2> QED
    BY <1>5, <2>1, <2>2
<1>10. CASE UNCHANGED <<prev_seq_num, prev_nr, log>>
  <2>1. FullRemembered' /\ AnswerSentOnce'
    BY <1>4, <1>10 DEF DownInv, FullRemembered, AnswerSentOnce
  <2> QED
    BY <1>1, <1>7, <1>9, <1>10, <2>1 DEF DownTypes, DownInv
<1>11. CASE /\ f.seq # prev_seq_num
            /\ log' = Append(log, [nr |-> f.nr, full |-> ~Raises])
            /\ IF Raises THEN UNCHANGED <<prev_seq_num, prev_nr>>
               ELSE prev_seq_num' = f.seq /\ prev_nr' = f.nr
  <2> DEFINE e == [nr |-> f.nr, full |-> ~Raises]
  <2>1. e \in LogEntries /\ e.nr = f.nr
    <3>1. (~Raises) \in BOOLEAN
      OBVIOUS
    <3> QED
      BY <1>3, <3>1 DEF LogEntries
  <2>2. e.full => prev_nr' = f.nr
    BY <1>11
  <2>3. prev_nr' = f.nr \/ prev_nr' = prev_nr
    BY <1>11
  <2>4. log' = Append(log, e)
    BY <1>11
  <2> HIDE DEF e
  <2>5. /\ log' \in Seq(LogEntries) /\ Len(log') = Len(log) + 1 /\ log'[Len(log) + 1] = e
        /\ \A i \in 1 .. Len(log) : log'[i] = log[i]
    BY <1>1, <2>1, <2>4, AppendAt
  <2>6. \A i \in 1 .. Len(log') : i \in 1 .. Len(log) \/ i = Len(log) + 1
    BY <1>1, <2>5
  <2>7. \A i \in 1 .. Len(log) : log[i].nr \in Nat
    <3>1. \A i \in 1 .. Len(log) : log[i] \in LogEntries
      BY <1>1
    <3> QED
      BY <3>1 DEF LogEntries
  <2>8. ASSUME ~late_down'
        PROVE  /\ ~late_down /\ prev_nr < f.nr
               /\ \A i \in 1 .. Len(log) : log[i].full => log[i].nr <= prev_nr
    <3>1. ~late_down /\ ~(f.nr < prev_nr) /\ f.nr # prev_nr
      BY <1>4, <1>8, <1>11, <2>8
    <3> QED
      BY <1>1, <1>3, <3>1 DEF DownInv, FullRemembered
  <2>9. FullRemembered'
    <3> SUFFICES ASSUME ~late_down', NEW i \in 1 .. Len(log'), log'[i].full
                 PROVE  log'[i].nr <= prev_nr'
      BY DEF FullRemembered
    <3>1. CASE i \in 1 .. Len(log)
      <4>1. log[i].nr <= prev_nr /\ log'[i] = log[i] /\ prev_nr < f.nr
        BY <2>5, <2>8, <3>1
      <4> QED
        BY <1>1, <1>3, <2>3, <2>7, <3>1, <4>1
    <3>2. CASE i = Len(log) + 1
      BY <1>3, <2>1, <2>2, <2>5, <3>2
    <3> QED
      BY <2>6, <3>1, <3>2
  <2>10. AnswerSentOnce'
    <3> SUFFICES ASSUME ~late_down', NEW i \in 1 .. Len(log'), NEW j \in 1 .. Len(log'),
                        i < j, log'[i].nr = log'[j].nr, log'[i].full
                 PROVE  FALSE
      BY DEF AnswerSentOnce
    <3>1. i \in 1 .. Len(log) /\ log'[i] = log[i]
      BY <1>1, <2>5, <2>6
    <3>2. CASE j \in 1 .. Len(log)
      <4>1. log'[j] = log[j] /\ ~late_down
        BY <2>5, <2>8, <3>2
      <4> QED
        BY <3>1, <3>2, <4>1 DEF DownInv, AnswerSentOnce
    <3>3. CASE j = Len(log) + 1
      <4>1. log[i].nr = f.nr /\ log[i].nr <= prev_nr /\ prev_nr < f.nr
        BY <2>1, <2>5, <2>8, <3>1, <3>3
      <4> QED
        BY <1>1, <1>3, <4>1
    <3> QED
      BY <2>6, <3>2, <3>3
  <2> QED
    BY <1>1, <1>7, <1>9, <2>5, <2>9, <2>10 DEF DownTypes, DownInv
<1> QED
  BY <1>5, <1>10, <1>11

-----------------------------------------------------------------------------
(* The two ways together.                                                  *)

LEMMA CommInit == Init => CommInv
<1> SUFFICES ASSUME Init PROVE CommInv
  OBVIOUS
<1>1. /\ requests = <<>> /\ executed = <<>> /\ log = <<>> /\ sent = 0 /\ recv_nr = 0 /\ prev_nr = 0
      /\ gnd_seq_num = Before /\ uav_seq_num = Before
      /\ upq = [a \in AirAdapters |-> <<>>] /\ downq = [a \in GndAdapters |-> <<>>]
      /\ todo = [c \in Clients |-> <<>>]
  BY DEF Init
<1>2. UpTypes
  BY <1>1 DEF UpTypes, Numbers
<1>3. DownTypes
  BY <1>1 DEF DownTypes, Numbers
<1>4. Waiting = {} /\ Done = {} /\ TodoOnce
  BY <1>1 DEF Waiting, Done, TodoOnce
<1>5. \A x \in UpFrames : ~InUp(x)
  BY <1>1 DEF InUp
<1>6. \A x \in DownFrames : ~InDown(x)
  BY <1>1 DEF InDown
<1>7. TakenFirst /\ UpCopies /\ DoneRead /\ ExecutedOnce
  BY <1>1, <1>4, <1>5 DEF TakenFirst, UpCopies, DoneRead, ExecutedOnce
<1>8. DownCopies /\ FullRemembered /\ AnswerSentOnce
  BY <1>1, <1>6 DEF DownCopies, FullRemembered, AnswerSentOnce
<1> QED
  BY <1>2, <1>3, <1>4, <1>7, <1>8 DEF CommInv, UpInv, DownInv

LEMMA CommStep == CommInv /\ [Next]_vars => CommInv'
<1> SUFFICES ASSUME CommInv, [Next]_vars PROVE CommInv'
  OBVIOUS
<1>1. UpTypes /\ UpInv /\ DownTypes /\ DownInv /\ TodoOnce /\ Len(executed) \in Nat
      /\ todo \in [Clients -> Seq(Nat)] /\ executed \in Seq(Nat)
  BY DEF CommInv, UpInv, UpTypes
<1>2. ASSUME UNCHANGED <<todo, upq, gnd_seq_num, sent, recv_seq_num, recv_nr, late_up, executed, requests>>
      PROVE  UpTypes' /\ UpInv'
  <2>1. TodoOnce' /\ Waiting' = Waiting
    BY <1>1, <1>2 DEF TodoOnce, Waiting
  <2> QED
    BY <1>1, <1>2, <2>1, UpSame
<1>3. ASSUME NEW c \in Clients, NEW dst \in Dsts, NEW type \in Types, Request(c, dst, type)
      PROVE  CommInv'
  <2>1. UNCHANGED <<upq, recv_seq_num, recv_nr, late_up, executed, sent>>
    BY <1>3 DEF Request, gndVars, uavVars
  <2>2. UpTypes' /\ TodoOnce' /\ TakenFirst'
    BY <1>1, <1>3, TodoMore
  <2>3. (\A x \in UpFrames : InUp(x)' <=> InUp(x)) /\ Done' = Done
    BY <2>1 DEF InUp, Done
  <2>4. UpCopies' /\ DoneRead' /\ ExecutedOnce'
    BY <1>1, <2>1, <2>3 DEF UpInv, UpCopies, DoneRead, ExecutedOnce
  <2>5. DownTypes' /\ DownInv'
    BY <1>1, <1>3, DownSame DEF Request, gndVars, uavVars
  <2> QED
    BY <2>2, <2>4, <2>5 DEF CommInv, UpInv
<1>4. ASSUME NEW c \in Clients, NEW how \in {"hungup", "reset"}, Leave(c, how)
      PROVE  CommInv'
  <2>1. todo' = [todo EXCEPT ![c] = <<>>] \/ todo' = todo
    BY <1>4 DEF Leave
  <2>2. todo' \in [Clients -> Seq(Nat)] /\ TodoOnce' /\ Waiting' \subseteq Waiting
    BY <1>1, <2>1, TodoDropped
  <2>3. UpTypes' /\ UpInv'
    BY <1>1, <1>4, <2>2, UpSame DEF Leave, gndVars, uavVars
  <2>4. DownTypes' /\ DownInv'
    BY <1>1, <1>4, DownSame DEF Leave, gndVars, uavVars
  <2> QED
    BY <2>3, <2>4 DEF CommInv
<1>5. ASSUME NEW c \in Clients, ReadClient(c) PROVE CommInv'
  <2>1. UNCHANGED <<recv_seq_num, recv_nr, late_up, executed, requests>>
    BY <1>5 DEF ReadClient, uavVars
  <2>2. /\ todo' \in [Clients -> Seq(Nat)] /\ TodoOnce' /\ Waiting' \subseteq Waiting
        /\ \/ UNCHANGED <<gnd_seq_num, sent, upq>>
           \/ /\ todo[c][1] \in Waiting /\ Waiting' \subseteq Waiting \ {todo[c][1]}
              /\ sendto_uav(todo[c][1])
    BY <1>1, <1>5, ReadOutcome
  <2>3. UpTypes' /\ UpInv'
    <3>1. CASE UNCHANGED <<gnd_seq_num, sent, upq>>
      BY <1>1, <2>1, <2>2, <3>1, UpSame
    <3>2. CASE /\ todo[c][1] \in Waiting /\ Waiting' \subseteq Waiting \ {todo[c][1]}
               /\ sendto_uav(todo[c][1])
      <4>1. PICK id \in Waiting : id = todo[c][1]
        BY <3>2
      <4> QED
        BY <1>1, <2>1, <2>2, <3>2, <4>1, UpSends
    <3> QED
      BY <2>2, <3>1, <3>2
  <2>4. DownTypes' /\ DownInv'
    BY <1>1, <1>5, DownSame DEF ReadClient, uavVars
  <2> QED
    BY <2>3, <2>4 DEF CommInv
<1>6. ASSUME NEW a \in GndAdapters, ReadRadio(a) PROVE CommInv'
  <2>1. UpTypes' /\ UpInv'
    BY <1>2, <1>6 DEF ReadRadio, uavVars
  <2>2. executed' = executed
    BY <1>6 DEF ReadRadio, uavVars
  <2> QED
    BY <1>1, <1>6, <2>1, <2>2, DownReads DEF CommInv
<1>7. ASSUME NEW rs \in SUBSET AirAdapters, UavReceives(rs) PROVE CommInv'
  <2>1. UNCHANGED <<prev_seq_num, prev_nr, late_down, log>>
    BY <1>7 DEF UavReceives, gndVars, clientVars
  <2>2. /\ UpTypes' /\ UpInv'
        /\ \/ UNCHANGED <<executed, uav_seq_num, downq>>
           \/ \E id \in Nat, n \in 1 .. NumAir :
                 /\ Len(executed') = Len(executed) + 1 /\ uav_seq_num' = NextSeq(uav_seq_num)
                 /\ downq' \in AfterSend(downq, [seq |-> NextSeq(uav_seq_num),
                                                msg |-> Message(id, "uav", "ok"),
                                                nr |-> Len(executed) + 1], n)
    BY <1>1, <1>7, UpReceives
  <2>3. CASE UNCHANGED <<executed, uav_seq_num, downq>>
    BY <1>1, <2>1, <2>2, <2>3, DownSame DEF CommInv
  <2>4. CASE \E id \in Nat, n \in 1 .. NumAir :
                 /\ Len(executed') = Len(executed) + 1 /\ uav_seq_num' = NextSeq(uav_seq_num)
                 /\ downq' \in AfterSend(downq, [seq |-> NextSeq(uav_seq_num),
                                                msg |-> Message(id, "uav", "ok"),
                                                nr |-> Len(executed) + 1], n)
    BY <1>1, <2>1, <2>2, <2>4, DownSends DEF CommInv
  <2> QED
    BY <2>2, <2>3, <2>4
<1>8. ASSUME NEW c \in Clients, Connect(c) \/ Accept(c) \/ RemoveClient(c) \/ ErrorSocket(c)
      PROVE  CommInv'
  <2>1. /\ UNCHANGED <<todo, upq, gnd_seq_num, sent, recv_seq_num, recv_nr, late_up, executed, requests>>
        /\ UNCHANGED <<downq, uav_seq_num, prev_seq_num, prev_nr, late_down, log, executed>>
    BY <1>8 DEF Connect, Accept, RemoveClient, ErrorSocket, gndVars, uavVars
  <2> QED
    BY <1>1, <1>2, <2>1, DownSame DEF CommInv
<1>9. CASE RadioClears \/ UNCHANGED vars
  <2>1. /\ UNCHANGED <<todo, upq, gnd_seq_num, sent, recv_seq_num, recv_nr, late_up, executed, requests>>
        /\ UNCHANGED <<downq, uav_seq_num, prev_seq_num, prev_nr, late_down, log, executed>>
    BY <1>9 DEF RadioClears, vars, gndVars, uavVars, clientVars
  <2> QED
    BY <1>1, <1>2, <2>1, DownSame DEF CommInv
<1> QED
  BY <1>3, <1>4, <1>5, <1>6, <1>7, <1>8, <1>9 DEF Next, GndStep, UavStep

\* For any number of adapters, copies, clients and requests and any lag: until a
\* frame is read after a newer one, receive_data returns no request twice
\* (DroneBridge.py).
THEOREM RequestsExecutedOnce == Spec => []ExecutedOnce
<1>1. CommInv => ExecutedOnce
  BY DEF CommInv, UpInv
<1> QED
  BY <1>1, CommInit, CommStep, PTL DEF Spec

\* For any number of adapters, copies and clients and any lag: until a frame of
\* the UAV is read after a newer one, its answer goes to the clients again only
\* if one of them failed (db_communication_gnd.py, prev_seq_num).
THEOREM AnswersSentOnce == Spec => []AnswerSentOnce
<1>1. CommInv => AnswerSentOnce
  BY DEF CommInv, DownInv
<1> QED
  BY <1>1, CommInit, CommStep, PTL DEF Spec
=============================================================================
