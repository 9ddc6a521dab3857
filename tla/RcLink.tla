------------------------------- MODULE RcLink --------------------------------
(***************************************************************************)
(* Remote control end to end: the control module of the ground station     *)
(* (rc_ground.c) sends the positions of the sticks about 60 times a second,*)
(* the app may overwrite them through the status module (status_main.c),   *)
(* the control module of the UAV (control_main_air.c, rc_air.c) receives   *)
(* the messages on several adapters, drops copies and writes each command  *)
(* to the flight controller.                                               *)
(*                                                                         *)
(* Axes are the channels, a command is a position for each of them; how    *)
(* they are packed is the subject of RcMessage.                            *)
(***************************************************************************)
EXTENDS RcMessage, FiniteSets

CONSTANTS
    Axes,          \* channels of a command
    Positions,     \* positions of a stick, and values the app may send
    SeqRange,      \* 256: sequence numbers of the raw protocol
    NumGnd,        \* adapters of the ground station, each sends every command
    NumAir,        \* adapters of the UAV
    DamagedSeqs,   \* sequence numbers a damaged frame may show
    MaxQueue,      \* bound: frames waiting at one adapter
    MaxRestarts,   \* bound: restarts of the ground module
    AllowOverwrite, \* en_rc_overwrite
    None           \* no command

ASSUME RcAssumption ==
    /\ Positions \subseteq 1000 .. 2000
    /\ SeqRange \in Nat /\ NumGnd \in Nat \ {0} /\ NumAir \in Nat \ {0}
    /\ MaxQueue \in Nat /\ MaxRestarts \in Nat /\ AllowOverwrite \in BOOLEAN

VARIABLES
    sticks,     \* what the joystick driver last read
    ow_ch,      \* shared memory db_rc_overwrite: ch
    ow_fresh,   \* its timestamp is at most 100 ms old
    copying,    \* the overwrite message the status module is copying, or None
    rc_seq_number,
    airq,       \* frames waiting at each adapter of the UAV, oldest first
    last_recv_rc_seq_num,
    fc,         \* the command the flight controller got last, or None
    restarts,   \* history: how often the ground module was started again
    clear,      \* from now on the radio delivers every frame intact
    ledger      \* history of the last round: frames written and dropped

vars == <<sticks, ow_ch, ow_fresh, copying, rc_seq_number, airq,
          last_recv_rc_seq_num, fc, restarts, clear, ledger>>

Unset == 0           \* what shared memory holds before the app sets a channel
Air == 1 .. NumAir

Overwrites == [Axes -> Positions \cup {Unset}]

NothingWritten == [written |-> <<>>, dropped |-> {}]

Init ==
    /\ sticks \in [Axes -> Positions]
    /\ ow_ch = [x \in Axes |-> Unset]
    /\ ow_fresh = FALSE
    /\ copying = None
    /\ rc_seq_number = 0
    /\ airq = [a \in Air |-> <<>>]
    /\ last_recv_rc_seq_num = 0
    /\ fc = None
    /\ restarts = 0
    /\ clear = FALSE
    /\ ledger = NothingWritten

-----------------------------------------------------------------------------
\* The status module gets an overwrite message of the app: memcpy of the
\* channels, then the time stamp, while send_rc_packet may read at any time.
OverwriteArrives(m) ==
    /\ AllowOverwrite /\ copying = None
    /\ copying' = [msg |-> m, left |-> Axes]
    /\ ledger' = NothingWritten
    /\ UNCHANGED <<sticks, ow_ch, ow_fresh, rc_seq_number, airq, last_recv_rc_seq_num,
                   fc, restarts, clear>>

OverwriteCopy(x) ==
    /\ copying # None /\ x \in copying.left
    /\ ow_ch' = [ow_ch EXCEPT ![x] = copying.msg[x]]
    /\ copying' = [copying EXCEPT !.left = @ \ {x}]
    /\ ledger' = NothingWritten
    /\ UNCHANGED <<sticks, ow_fresh, rc_seq_number, airq, last_recv_rc_seq_num,
                   fc, restarts, clear>>

OverwriteStamp ==
    /\ copying # None /\ copying.left = {}
    /\ ow_fresh' = TRUE
    /\ copying' = None
    /\ ledger' = NothingWritten
    /\ UNCHANGED <<sticks, ow_ch, rc_seq_number, airq, last_recv_rc_seq_num,
                   fc, restarts, clear>>

\* 100 ms pass without a message of the app.
OverwriteAges ==
    /\ ow_fresh
    /\ ow_fresh' = FALSE
    /\ ledger' = NothingWritten
    /\ UNCHANGED <<sticks, ow_ch, copying, rc_seq_number, airq, last_recv_rc_seq_num,
                   fc, restarts, clear>>

-----------------------------------------------------------------------------
MoveStick(x, p) ==
    /\ sticks[x] # p
    /\ sticks' = [sticks EXCEPT ![x] = p]
    /\ ledger' = NothingWritten
    /\ UNCHANGED <<ow_ch, ow_fresh, copying, rc_seq_number, airq, last_recv_rc_seq_num,
                   fc, restarts, clear>>

\* The test of every single channel, shm_rc_overwrite->ch > 0, looks at the
\* address of the array and is always true.
Overwriting == AllowOverwrite /\ ow_fresh
Command ==
    [x \in Axes |-> Capped(IF Overwriting THEN ow_ch[x] ELSE sticks[x])]

\* Mutant: the number is not updated.
NextSeqStays(s) == s

NextSeq(s) == IF s = SeqRange - 1 THEN 0 ELSE s + 1
SeqAfter[k \in Nat] == IF k = 0 THEN rc_seq_number ELSE NextSeq(SeqAfter[k - 1])

\* What may arrive at an adapter of the UAV when frame f is on the air; the
\* checksum of the message does not cover the sequence number.
IntactFrame(f) == [seq |-> f.seq, crc |-> TRUE, cmd |-> f.cmd]
DamagedFrames(f) ==
    {[seq |-> s, crc |-> FALSE, cmd |-> None] : s \in DamagedSeqs}
        \cup {[seq |-> s, crc |-> TRUE, cmd |-> f.cmd] : s \in DamagedSeqs}
Receptions(f) ==
    IF clear THEN {<<IntactFrame(f)>>}
    ELSE {<<>>, <<IntactFrame(f)>>} \cup {<<d>> : d \in DamagedFrames(f)}

\* Every adapter of the ground station sends the command under a sequence
\* number of its own, here the g-th.
SentBy(g) == [seq |-> SeqAfter[g], cmd |-> Command]

\* What the adapters of the UAV receive of the frames of one command.
Broadcast ==
    \E got \in [1 .. NumGnd -> [Air -> UNION {Receptions(SentBy(g)) : g \in 1 .. NumGnd}]] :
        /\ \A g \in 1 .. NumGnd, a \in Air : got[g][a] \in Receptions(SentBy(g))
        /\ LET Arrived[a \in Air, g \in 0 .. NumGnd] ==
                   IF g = 0 THEN airq[a] ELSE Arrived[a, g - 1] \o got[g][a]
           IN  airq' = [a \in Air |-> Arrived[a, NumGnd]]

send_rc_packet ==
    /\ \A a \in Air : Len(airq[a]) + NumGnd <= MaxQueue
    /\ rc_seq_number' = SeqAfter[NumGnd]
    /\ Broadcast
    /\ ledger' = NothingWritten
    /\ UNCHANGED <<sticks, ow_ch, ow_fresh, copying, last_recv_rc_seq_num, fc, restarts, clear>>

\* The control module is started again and waits for the joystick, longer than
\* an overwrite is valid; opening the shared memory resets its channels.
GndRestart ==
    /\ restarts < MaxRestarts
    /\ restarts' = restarts + 1
    /\ rc_seq_number' = 0
    /\ ow_ch' = [x \in Axes |-> Unset]
    /\ ow_fresh' = FALSE
    /\ ledger' = NothingWritten
    /\ UNCHANGED <<sticks, copying, airq, last_recv_rc_seq_num, fc, clear>>

-----------------------------------------------------------------------------
\* last_recv_rc_seq_num is an int8_t, the received number a uint8_t.
Int8(s) == IF s < SeqRange \div 2 THEN s ELSE s - SeqRange

\* Mutant: the number is not remembered.
RememberedNot(last, s) == last

IsNew(last, s) == last # s
Remembered(last, s) == Int8(s)

\* What the loop makes of frame f, with s of the frames before it.
TakeFrame(s, f) ==
    IF ~IsNew(s.last, f.seq)
    THEN [s EXCEPT !.dropped = @ \cup {f}]
    ELSE IF f.crc
    THEN [s EXCEPT !.last = Remembered(@, f.seq), !.fc = f.cmd, !.written = Append(@, f)]
    ELSE [s EXCEPT !.last = Remembered(@, f.seq)]

\* The loop over the adapters that select reports in one round.
RoundBegins == [last |-> last_recv_rc_seq_num, fc |-> fc, written |-> <<>>, dropped |-> {}]
Round(ready) ==
    LET After[a \in 0 .. NumAir] ==
            IF a = 0 THEN RoundBegins
            ELSE IF a \in ready THEN TakeFrame(After[a - 1], Head(airq[a])) ELSE After[a - 1]
    IN  After[NumAir]

ReceiveRc(ready) ==
    /\ ready # {} /\ \A a \in ready : airq[a] # <<>>
    /\ LET r == Round(ready) IN
          /\ last_recv_rc_seq_num' = r.last
          /\ fc' = r.fc
          /\ ledger' = [written |-> r.written, dropped |-> r.dropped]
    /\ airq' = [a \in Air |-> IF a \in ready THEN Tail(airq[a]) ELSE airq[a]]
    /\ UNCHANGED <<sticks, ow_ch, ow_fresh, copying, rc_seq_number, restarts, clear>>

RadioClears ==
    /\ ~clear
    /\ clear' = TRUE
    /\ ledger' = NothingWritten
    /\ UNCHANGED <<sticks, ow_ch, ow_fresh, copying, rc_seq_number, airq,
                   last_recv_rc_seq_num, fc, restarts>>

Next ==
    \/ \E m \in Overwrites : OverwriteArrives(m)
    \/ \E x \in Axes : OverwriteCopy(x)
    \/ OverwriteStamp
    \/ OverwriteAges
    \/ \E x \in Axes, p \in Positions : MoveStick(x, p)
    \/ send_rc_packet
    \/ GndRestart
    \/ \E ready \in SUBSET Air : ReceiveRc(ready)
    \/ RadioClears

Spec == Init /\ [][Next]_vars

\* The send loop of the joystick drivers and the select loop of the UAV run
\* for ever; time stamps grow old.  Nothing makes the radio clear, the sticks
\* move, the app send or a process restart.
Fairness ==
    /\ WF_vars(send_rc_packet)
    /\ \A a \in Air : WF_vars(\E ready \in SUBSET Air : a \in ready /\ ReceiveRc(ready))
    /\ \A x \in Axes : WF_vars(OverwriteCopy(x))
    /\ WF_vars(OverwriteStamp)
    /\ WF_vars(OverwriteAges)

LiveSpec == Spec /\ Fairness

-----------------------------------------------------------------------------
\* Once the app is silent, the sticks rest and the radio is
\* clear, the flight controller gets the positions of the sticks and keeps
\* them: neither an overwrite, nor a late copy, nor the overflow of the
\* sequence number makes it stay with another command.
FcFollowsPilot ==
    \A s \in [Axes -> Positions] :
        <>[](clear /\ sticks = s /\ ~ow_fresh) => <>[](fc = s)

\* With two adapters, copies of one frame read in the same round reach the
\* flight controller once, as long as the number fits into an int8_t.
LowerHalfFiltered ==
    \A i, j \in 1 .. Len(ledger.written) :
        /\ ledger.written[i] = ledger.written[j]
        /\ ledger.written[i].seq < SeqRange \div 2
        => i = j

\* A frame dropped as a copy was written to the flight controller before: in
\* the same round or, if the filter had its number from there, earlier.
\* "packet has bad crc. Better skip it!" (rc_air.c:216) is about the damaged
\* copy, not about the intact one that follows it.
IntactCopyWritten ==
    [][\A f \in ledger'.dropped :
          f.crc /\ last_recv_rc_seq_num # f.seq =>
              \E i \in 1 .. Len(ledger'.written) : ledger'.written[i] = f]_vars
=============================================================================
