------------------------------ MODULE Telemetry ------------------------------
(***************************************************************************)
(* Telemetry end to end: ControlAir, the radio and Proxy.                  *)
(*                                                                         *)
(* Every frame may reach each adapter of the ground station or not, and    *)
(* waits there, so one adapter may lag behind another.  The proxy does not *)
(* look at the frame check sequence; frames arrive intact.                 *)
(* What the proxy sends to the UAV ends in sockets that control_main_air.c *)
(* never adds to the set it gives to select, so the way up stops there.    *)
(***************************************************************************)
EXTENDS ControlAir, Proxy

CONSTANTS
    GndAdapters,  \* adapters of the ground station
    MaxQueue      \* bound: frames waiting at one of them; it loses the others

ASSUME TelemetryAssumption == MaxQueue \in Nat

VARIABLES
    rxq,        \* frames waiting at each adapter, oldest first
    last_read,  \* history: which frame the proxy read last, 0 at the start
    late,       \* history: a frame was read after a newer one
    apart       \* history: two frames read one after the other were sent
                \* SeqRange or more frames apart

radioVars == <<rxq, last_read, late, apart>>
vars == <<controlVars, proxyVars, radioVars>>

Init ==
    /\ ControlInit /\ ProxyInit
    /\ rxq = [a \in GndAdapters |-> <<>>]
    /\ last_read = 0 /\ late = FALSE /\ apart = FALSE

-----------------------------------------------------------------------------
Collect ==
    /\ \E n \in 1 .. ReadBuf : ReadSerial(n)
    /\ UNCHANGED <<proxyVars, radioVars>>

\* The UAV does not wait for the ground station: an adapter misses the frame, or
\* loses it because its receive buffer is full, or keeps it.
Transmit ==
    /\ SendCopy
    /\ \E reached \in SUBSET GndAdapters :
          rxq' = [a \in GndAdapters |->
                     IF a \in reached /\ Len(rxq[a]) < MaxQueue
                     THEN Append(rxq[a], TelemetryFrame) ELSE rxq[a]]
    /\ UNCHANGED <<proxyVars, last_read, late, apart>>

FarApart(m, n) == m + SeqRange <= n \/ n + SeqRange <= m

\* The loop over the adapters takes one frame of each readable one; the
\* adapters are independent of the clients in between.
Receive(a) ==
    /\ rxq[a] # <<>>
    /\ ProxyReceive(Head(rxq[a]))
    /\ rxq' = [rxq EXCEPT ![a] = Tail(@)]
    /\ LET n == Head(rxq[a]).nr
       IN  /\ last_read' = n
           /\ late' = (late \/ n < last_read)
           /\ apart' = (apart \/ FarApart(last_read, n))
    /\ UNCHANGED controlVars

ProxyStep ==
    /\ ProxyNext
    /\ UNCHANGED <<controlVars, radioVars>>

Next ==
    \/ Collect
    \/ Transmit
    \/ \E a \in GndAdapters : Receive(a)
    \/ ProxyStep

Spec == Init /\ [][Next]_vars

\* The proxy's loop serves every readable socket in each round.  This needs
\* clients that take what they are sent: send() blocks the loop otherwise.
Fairness ==
    /\ \A i \in SlotNums : WF_vars(ServeClient(i) /\ UNCHANGED <<controlVars, radioVars>>)
    /\ \A a \in GndAdapters : WF_vars(Receive(a))

LiveSpec == Spec /\ Fairness

-----------------------------------------------------------------------------
TelemetryTypeOK ==
    /\ ControlTypeOK
    /\ ProxyTypeOK
    /\ rxq \in [GndAdapters -> Seq(ProxyFrames)]
    /\ last_read \in Nat /\ late \in BOOLEAN /\ apart \in BOOLEAN

\* As long as no adapter delivers a frame after the proxy has read a newer one,
\* every frame is logged at most once and in the order of sending, whichever
\* adapter lost which copies, also across the overflow of the sequence number.
\* The proxy remembers one number only: behind a late frame all copies of the
\* newer ones are logged again.
LogInOrder ==
    ~late => \A i \in 1 .. Len(log) - 1 : log[i].nr < log[i + 1].nr

\* The filter drops copies only, in order or late: a frame that was read has
\* been logged, as long as the frames read one after the other were sent less
\* than SeqRange (256) frames apart, so that a number is not taken for the one
\* before the overflow.
NewFrameLogged ==
    ~apart /\ last_read # 0 => \E i \in 1 .. Len(log) : log[i].nr = last_read

\* "send every MAVLink transparent packet twice for better reliability"
\* (control_main_air.c:46): the second copy replaces a lost first one.  The
\* ground control station gets each chunk of the serial stream once.
ChunkLoggedOnce ==
    \A i \in 1 .. Len(log) - 1 : log[i].chunk # log[i + 1].chunk
=============================================================================
