---------------------------- MODULE RcLinkProofs -----------------------------
(***************************************************************************)
(* The duplicate filter of the remote control (control_main_air.c): what   *)
(* one round over the adapters of the UAV writes to the flight controller, *)
(* for every range of the sequence number, any history and all damages.    *)
(***************************************************************************)
EXTENDS RcLink, TLAPS

\* The state of the loop behind adapter a.
Passed(s, a, ready) == IF a \in ready THEN TakeFrame(s, Head(airq[a])) ELSE s

\* With at most two adapters the loop takes their frames one after the other.
LEMMA RoundUnfolds ==
    ASSUME NumAir \in 1 .. 2, NEW ready
    PROVE  Round(ready) = IF NumAir = 1 THEN Passed(RoundBegins, 1, ready)
                          ELSE Passed(Passed(RoundBegins, 1, ready), 2, ready)
<1> DEFINE Loop(g) ==
             [a \in 0 .. NumAir |->
                 IF a = 0 THEN RoundBegins
                 ELSE IF a \in ready THEN TakeFrame(g[a - 1], Head(airq[a])) ELSE g[a - 1]]
           after == CHOOSE g : g = Loop(g)
           s1 == Passed(RoundBegins, 1, ready)
           all == [a \in 0 .. NumAir |-> IF a = 0 THEN RoundBegins ELSE IF a = 1 THEN s1
                                         ELSE Passed(s1, 2, ready)]
<1>1. Round(ready) = after[NumAir]
  BY DEF Round
<1>2. all = Loop(all)
  <2>1. ASSUME NEW a \in 0 .. NumAir PROVE all[a] = Loop(all)[a]
    <3>1. a \in 0 .. 2
      OBVIOUS
    <3>2. CASE a = 0
      BY <3>2
    <3>3. CASE a = 1
      <4>1. all[0] = RoundBegins /\ all[1] = s1
        OBVIOUS
      <4> QED
        BY <3>3, <4>1 DEF Passed
    <3>4. CASE a = 2
      <4>1. all[1] = s1 /\ all[2] = Passed(s1, 2, ready) /\ 2 - 1 = 1
        BY <3>4
      <4> HIDE DEF s1, all
      <4> QED
        BY <3>4, <4>1 DEF Passed
    <3> QED
      BY <3>1, <3>2, <3>3, <3>4
  <2> QED
    BY <2>1
<1>3. after = Loop(after)
  BY <1>2
<1> HIDE DEF after, all, s1
<1>4. after[0] = RoundBegins
  BY <1>3
<1>5. after[1] = s1
  BY <1>3, <1>4 DEF s1, Passed
<1>6. NumAir = 2 => after[2] = Passed(s1, 2, ready)
  BY <1>3, <1>5 DEF Passed
<1> QED
  BY <1>1, <1>5, <1>6 DEF s1

\* The state of the loop is a record of four fields.
IsLoopState(s) == s = [last |-> s.last, fc |-> s.fc, written |-> s.written, dropped |-> s.dropped]

\* A frame is written at the end of what was written before, or not at all.
LEMMA FrameWritten ==
    ASSUME NEW s, IsLoopState(s), NEW a, NEW ready
    PROVE  /\ IsLoopState(Passed(s, a, ready))
           /\ \/ Passed(s, a, ready).written = s.written
              \/ /\ Passed(s, a, ready).written = Append(s.written, Head(airq[a]))
                 /\ s.last # Head(airq[a]).seq
                 /\ Passed(s, a, ready).last = Int8(Head(airq[a]).seq)
<1> DEFINE f == Head(airq[a])
<1> HIDE DEF f
<1>1. /\ IsLoopState(TakeFrame(s, f))
      /\ \/ TakeFrame(s, f).written = s.written
         \/ /\ TakeFrame(s, f).written = Append(s.written, f)
            /\ s.last # f.seq
            /\ TakeFrame(s, f).last = Int8(f.seq)
  BY DEF TakeFrame, Remembered, IsNew, IsLoopState
<1> QED
  BY <1>1 DEF Passed, f

LEMMA TwoAppended ==
    ASSUME NEW f, NEW g
    PROVE  Append(<<>>, g) = <<g>> /\ Append(<<f>>, g) = <<f, g>>
<1>1. Append(<<>>, g) = <<g>>
  OBVIOUS
<1>2. <<f>> \in Seq({f, g}) /\ Len(<<f>>) = 1 /\ <<f>>[1] = f
  OBVIOUS
<1>3. Append(<<f>>, g) = [i \in 1 .. 2 |-> IF i = 1 THEN f ELSE g]
  BY <1>2
<1>4. <<f, g>> = [i \in 1 .. 2 |-> IF i = 1 THEN f ELSE g]
  OBVIOUS
<1> QED
  BY <1>1, <1>3, <1>4

\* What two adapters' frames make the loop write: if it is both, the number the
\* filter remembers of the first is not the number of the second.
LEMMA FilterSecond ==
    ASSUME NEW ready, NEW one, one = Passed(RoundBegins, 1, ready),
           NEW two, two = Passed(one, 2, ready),
           NEW f, f = Head(airq[1]), NEW g, g = Head(airq[2])
    PROVE  /\ one.written \in {<<>>, <<f>>}
           /\ \/ two.written \in {<<>>, <<f>>, <<g>>}
              \/ two.written = <<f, g>> /\ Int8(f.seq) # g.seq
<1>1. IsLoopState(RoundBegins) /\ RoundBegins.written = <<>>
  BY DEF RoundBegins, IsLoopState
<1>2. /\ IsLoopState(one)
      /\ one.written = <<>> \/ (one.written = Append(<<>>, f) /\ one.last = Int8(f.seq))
  BY <1>1, FrameWritten
<1>3. \/ two.written = one.written
      \/ two.written = Append(one.written, g) /\ one.last # g.seq
  BY <1>2, FrameWritten
<1>4. /\ Append(<<>>, f) = <<f>> /\ Append(<<>>, g) = <<g>> /\ Append(<<f>>, g) = <<f, g>>
  BY TwoAppended
<1> QED
  BY <1>2, <1>3, <1>4

\* Two writes of one frame in a round: only if its number does not fit.
LEMMA WrittenOnce ==
    ASSUME NEW w, NEW f, NEW g,
           \/ w \in {<<>>, <<f>>, <<g>>}
           \/ w = <<f, g>> /\ Int8(f.seq) # g.seq,
           NEW i \in 1 .. Len(w), NEW j \in 1 .. Len(w), w[i] = w[j], w[i].seq < SeqRange \div 2
    PROVE  i = j
<1>1. CASE w \in {<<>>, <<f>>, <<g>>}
  <2>1. Len(w) \in 0 .. 1
    BY <1>1
  <2> QED
    BY <2>1
<1>2. CASE w = <<f, g>> /\ Int8(f.seq) # g.seq
  <2>1. Len(w) = 2 /\ w[1] = f /\ w[2] = g
    BY <1>2
  <2>2. f = g /\ f.seq < SeqRange \div 2 => FALSE
    BY <1>2 DEF Int8
  <2> QED
    BY <2>1, <2>2
<1> QED
  BY <1>1, <1>2

\* With at most two adapters on the UAV, copies of one frame that are read in
\* the same round reach the flight controller once, as long as the number fits
\* into an int8_t: for every range of the sequence number, whatever was lost or
\* damaged and whatever the filter remembers (control_main_air.c:502).
THEOREM LowerHalfIsFiltered ==
    ASSUME NumAir \in 1 .. 2
    PROVE  Spec => []LowerHalfFiltered
<1>1. ASSUME ledger = NothingWritten PROVE LowerHalfFiltered
  BY <1>1 DEF NothingWritten, LowerHalfFiltered
<1>2. ASSUME NEW ready, ReceiveRc(ready) PROVE LowerHalfFiltered'
  <2>1. ledger'.written = Round(ready).written
    BY <1>2 DEF ReceiveRc
  <2> DEFINE f == Head(airq[1])
             g == Head(airq[2])
             w == Round(ready).written
  <2>2. \/ w \in {<<>>, <<f>>, <<g>>}
        \/ w = <<f, g>> /\ Int8(f.seq) # g.seq
    <3> DEFINE one == Passed(RoundBegins, 1, ready)
               two == Passed(one, 2, ready)
    <3>1. Round(ready) = one \/ Round(ready) = two
      BY RoundUnfolds
    <3>2. /\ one.written \in {<<>>, <<f>>}
          /\ \/ two.written \in {<<>>, <<f>>, <<g>>}
             \/ two.written = <<f, g>> /\ Int8(f.seq) # g.seq
      BY FilterSecond
    <3> HIDE DEF one, two, f, g
    <3> QED
      BY <3>1, <3>2
  <2> HIDE DEF f, g, w
  <2>3. \A i, j \in 1 .. Len(w) : w[i] = w[j] /\ w[i].seq < SeqRange \div 2 => i = j
    BY <2>2, WrittenOnce
  <2> QED
    BY <2>1, <2>3 DEF LowerHalfFiltered, w
<1>3. ASSUME LowerHalfFiltered, [Next]_vars PROVE LowerHalfFiltered'
  <2>1. CASE UNCHANGED vars
    BY <1>3, <2>1 DEF vars, LowerHalfFiltered
  <2>2. CASE ledger' = NothingWritten
    BY <2>2 DEF NothingWritten, LowerHalfFiltered
  <2>3. CASE \E ready \in SUBSET Air : ReceiveRc(ready)
    BY <1>2, <2>3
  <2>4. Next => ledger' = NothingWritten \/ \E ready \in SUBSET Air : ReceiveRc(ready)
    <3>1. send_rc_packet => ledger' = NothingWritten
      BY DEF send_rc_packet
    <3>2. \A m \in Overwrites : OverwriteArrives(m) => ledger' = NothingWritten
      BY DEF OverwriteArrives
    <3>3. \A x \in Axes : OverwriteCopy(x) => ledger' = NothingWritten
      BY DEF OverwriteCopy
    <3>4. OverwriteStamp \/ OverwriteAges => ledger' = NothingWritten
      BY DEF OverwriteStamp, OverwriteAges
    <3>5. \A x \in Axes, p \in Positions : MoveStick(x, p) => ledger' = NothingWritten
      BY DEF MoveStick
    <3>6. GndRestart \/ RadioClears => ledger' = NothingWritten
      BY DEF GndRestart, RadioClears
    <3> QED
      BY <3>1, <3>2, <3>3, <3>4, <3>5, <3>6 DEF Next
  <2> QED
    BY <1>3, <2>1, <2>2, <2>3, <2>4
<1> QED
  BY <1>1, <1>3, PTL DEF Spec, Init
=============================================================================
