----------------------------- MODULE PartsProofs -----------------------------
(***************************************************************************)
(* Theorems about parts that work on their own: the DB-RC message carries  *)
(* every position of every stick, for all positions a driver can report    *)
(* and any number of moved sticks; the plugins of the UAV keep their       *)
(* places and get the telemetry without a gap; the MSP parser stays within *)
(* its buffer, cuts a clean stream at its messages, what the loop sends    *)
(* ends in a message also if there is noise, and after a noisy byte the    *)
(* parser finds back.                                                      *)
(***************************************************************************)
EXTENDS MCRcMessage, MspSerial, UnixServer, ControlAirProofs, FiniteSetTheorems, SequenceTheorems

-----------------------------------------------------------------------------
(* The remote control messages.                                            *)

SticksTyped == sticks \in [StickChannels -> Nat]

\* A capped channel, less the offset of 1000, fits into ten bits.
LEMMA CappedFits ==
    ASSUME NEW i \in Channels, SticksTyped
    PROVE  /\ Capped(sticks[i]) \in 1000 .. 2000
           /\ Capped(sticks[i]) \in 0 .. 2000
           /\ Capped(sticks[i]) - 1000 \in 0 .. 1023
           /\ (Capped(sticks[i]) - 1000) + 1000 = Capped(sticks[i])
  <1> DEFINE x == sticks[i]
  <1>1. x \in Nat
    BY DEF SticksTyped, StickChannels, Channels
  <1> HIDE DEF x
  <1>2. /\ Capped(x) \in 1000 .. 2000 /\ Capped(x) \in 0 .. 2000
        /\ Capped(x) - 1000 \in 0 .. 1023 /\ (Capped(x) - 1000) + 1000 = Capped(x)
    BY <1>1 DEF Capped
  <1> QED
    BY <1>2 DEF x

\* The channel values that arrive are the capped stick positions.
LEMMA ChannelsArrive ==
    ASSUME SticksTyped
    PROVE  Arrived = Pilot
  <1> DEFINE ch == [i \in Channels |-> Capped(sticks[i]) - 1000]
             Group(g) == PackGroup(ch[4 * g], ch[4 * g + 1], ch[4 * g + 2], ch[4 * g + 3])
             msg == generate_db_rc_message(sticks)
  <1>1. \A i \in Channels : /\ ch[i] \in 0 .. 1023
                            /\ ch[i] + 1000 = Capped(sticks[i])
    <2> SUFFICES ASSUME NEW i \in Channels
                 PROVE  ch[i] \in 0 .. 1023 /\ ch[i] + 1000 = Capped(sticks[i])
      OBVIOUS
    <2>1. ch[i] = Capped(sticks[i]) - 1000
      OBVIOUS
    <2>2. /\ Capped(sticks[i]) - 1000 \in 0 .. 1023
          /\ (Capped(sticks[i]) - 1000) + 1000 = Capped(sticks[i])
      BY CappedFits
    <2> HIDE DEF ch, msg
    <2> QED
      BY <2>1, <2>2
  <1>2. msg = [g \in 0 .. 2 |-> Group(g)]
    BY DEF generate_db_rc_message
  <1>3. ASSUME NEW g \in 0 .. 2
        PROVE  UnpackGroup(msg[g][1], msg[g][2], msg[g][3], msg[g][4], msg[g][5])
                 = <<ch[4 * g], ch[4 * g + 1], ch[4 * g + 2], ch[4 * g + 3]>>
    <2>1. msg[g] = Group(g)
      BY <1>2
    <2>2. {4 * g, 4 * g + 1, 4 * g + 2, 4 * g + 3} \subseteq Channels
      BY DEF Channels
    <2> HIDE DEF ch, msg
    <2> DEFINE a == ch[4 * g]
               b == ch[4 * g + 1]
               c == ch[4 * g + 2]
               d == ch[4 * g + 3]
    <2>3. a \in 0 .. 1023 /\ b \in 0 .. 1023 /\ c \in 0 .. 1023 /\ d \in 0 .. 1023
      BY <1>1, <2>2
    <2>4. msg[g] = PackGroup(a, b, c, d)
      BY <2>1
    <2> HIDE DEF a, b, c, d
    <2>5. /\ msg[g][1] = a % 256
          /\ msg[g][2] = ((a \div 256) % 4) + 4 * (b % 64)
          /\ msg[g][3] = ((b \div 64) % 16) + 16 * (c % 16)
          /\ msg[g][4] = ((c \div 16) % 64) + 64 * (d % 4)
          /\ msg[g][5] = (d \div 4) % 256
      BY <2>4 DEF PackGroup
    <2>6. msg[g][1] + 256 * (msg[g][2] % 4) = a
      BY <2>3, <2>5
    <2>7. (msg[g][2] \div 4) + 64 * (msg[g][3] % 16) = b
      BY <2>3, <2>5
    <2>8. (msg[g][3] \div 16) + 16 * (msg[g][4] % 64) = c
      BY <2>3, <2>5
    <2>9. (msg[g][4] \div 64) + 4 * msg[g][5] = d
      BY <2>3, <2>5
    <2> QED
      BY <2>6, <2>7, <2>8, <2>9 DEF UnpackGroup, a, b, c, d
  <1>4. ASSUME NEW i \in Channels
        PROVE  deserialize_db_rc_protocol(msg)[i] = ch[i]
    <2> DEFINE g == i \div 4
    <2>1. /\ g \in 0 .. 2
          /\ i % 4 \in 0 .. 3
          /\ i = 4 * g + (i % 4)
      BY DEF Channels
    <2>2. deserialize_db_rc_protocol(msg)[i]
            = UnpackGroup(msg[g][1], msg[g][2], msg[g][3], msg[g][4], msg[g][5])[(i % 4) + 1]
      BY DEF deserialize_db_rc_protocol
    <2> HIDE DEF ch, msg, g
    <2>3. deserialize_db_rc_protocol(msg)[i]
            = <<ch[4 * g], ch[4 * g + 1], ch[4 * g + 2], ch[4 * g + 3]>>[(i % 4) + 1]
      BY <1>3, <2>1, <2>2
    <2>4. CASE i % 4 = 0
      BY <2>1, <2>3, <2>4
    <2>5. CASE i % 4 = 1
      BY <2>1, <2>3, <2>5
    <2>6. CASE i % 4 = 2
      BY <2>1, <2>3, <2>6
    <2>7. CASE i % 4 = 3
      BY <2>1, <2>3, <2>7
    <2> QED
      BY <2>1, <2>4, <2>5, <2>6, <2>7
  <1>5. Arrived = [i \in Channels |-> deserialize_db_rc_protocol(msg)[i] + 1000]
    BY DEF Arrived, RcChannels
  <1> HIDE DEF ch, msg
  <1>6. [i \in Channels |-> deserialize_db_rc_protocol(msg)[i] + 1000]
          = [i \in Channels |-> Capped(sticks[i])]
    BY <1>1, <1>4
  <1> QED
    BY <1>5, <1>6 DEF Pilot

\* Every reading of the sticks is a natural number.
LEMMA SticksStayTyped == SticksSpec => []SticksTyped
  <1>1. SticksInit => SticksTyped
    BY DEF SticksInit, SticksTyped, Middle
  <1>2. SticksTyped /\ [SticksNext]_sticks => SticksTyped'
    BY PositionsAssumption DEF SticksTyped, SticksNext, Move
  <1> QED
    BY <1>1, <1>2, PTL DEF SticksSpec

\* Whatever the sticks report and however many of them are moved, rc_air.c
\* unpacks on each of the twelve channels the capped position of its stick.
THEOREM RcRoundTripHolds == SticksSpec => []RcRoundTrip
  <1>1. SticksTyped => RcRoundTrip
    BY ChannelsArrive DEF RcRoundTrip
  <1> QED
    BY <1>1, SticksStayTyped, PTL

\* And a flight controller reads these positions from the MSPv2 message.
THEOREM MspV2CarriesChannelsHolds == SticksSpec => []MspV2CarriesChannels
  <1>1. ASSUME SticksTyped
        PROVE  MspV2CarriesChannels
    <2> DEFINE m == generate_mspv2(Pilot)
    <2>1. \A i \in Channels : Pilot[i] \in 0 .. 2000
      <3> SUFFICES ASSUME NEW i \in Channels
                   PROVE  Pilot[i] \in 0 .. 2000
        OBVIOUS
      <3>1. Capped(sticks[i]) \in 0 .. 2000
        BY <1>1, CappedFits
      <3> QED
        BY <3>1 DEF Pilot
    <2>2. ASSUME NEW i \in Channels
          PROVE  256 * m[8 + 2 * i + 1] + m[8 + 2 * i + 0] = Pilot[i]
      <3>1. /\ 8 + 2 * i + 1 \in 8 .. 31
            /\ 8 + 2 * i + 0 \in 8 .. 31
            /\ (2 * i + 1) \div 2 = i
            /\ (2 * i + 1) % 2 = 1
            /\ (2 * i) \div 2 = i
            /\ (2 * i) % 2 = 0
        BY DEF Channels
      <3>0. ASSUME NEW k \in 8 .. 31
            PROVE  m[k] = LittleEndian(Pilot, k - 8)
        BY DEF generate_mspv2
      <3>2. m[8 + 2 * i + 1] = LittleEndian(Pilot, 2 * i + 1)
        <4>1. (8 + 2 * i + 1) - 8 = 2 * i + 1
          BY DEF Channels
        <4> QED
          BY <3>0, <3>1, <4>1
      <3>3. m[8 + 2 * i + 0] = LittleEndian(Pilot, 2 * i)
        <4>1. (8 + 2 * i + 0) - 8 = 2 * i
          BY DEF Channels
        <4> QED
          BY <3>0, <3>1, <4>1
      <3>4. /\ m[8 + 2 * i + 1] = (Pilot[i] \div 256) % 256
            /\ m[8 + 2 * i + 0] = Pilot[i] % 256
        BY <3>1, <3>2, <3>3 DEF LittleEndian, LowByte, HighByte
      <3>5. Pilot[i] \in 0 .. 2000
        BY <2>1
      <3> DEFINE hi == m[8 + 2 * i + 1]
                 lo == m[8 + 2 * i + 0]
                 v  == Pilot[i]
      <3>6. hi = (v \div 256) % 256 /\ lo = v % 256 /\ v \in 0 .. 2000
        BY <3>4, <3>5
      <3> HIDE DEF hi, lo, v
      <3>7. 256 * hi + lo = v
        BY <3>6
      <3> QED
        BY <3>7 DEF hi, lo, v
    <2>3. FcReadsMspV2(m) = Pilot
      <3>1. Pilot = [i \in Channels |-> Pilot[i]]
        BY DEF Pilot
      <3> HIDE DEF m
      <3> QED
        BY <2>2, <3>1 DEF FcReadsMspV2, FcReads
    <2> QED
      BY <1>1, <2>3, ChannelsArrive DEF MspV2CarriesChannels
  <1> QED
    BY <1>1, SticksStayTyped, PTL

\* And the same positions from the SUMD message, which carries them times eight.
THEOREM SumdCarriesChannelsHolds == SticksSpec => []SumdCarriesChannels
  <1>1. ASSUME SticksTyped
        PROVE  SumdCarriesChannels
    <2> DEFINE m == generate_sumd(Pilot)
               scaled == [i \in Channels |-> (8 * Pilot[i]) % 65536]
    <2>1. ASSUME NEW i \in Channels
          PROVE  (256 * m[3 + 2 * i + 0] + m[3 + 2 * i + 1]) \div 8 = Pilot[i]
      <3>1. /\ 3 + 2 * i + 0 \in 3 .. 26 /\ 3 + 2 * i + 1 \in 3 .. 26
            /\ (3 + 2 * i + 0) - 3 = 2 * i /\ (3 + 2 * i + 1) - 3 = 2 * i + 1
            /\ (2 * i + 1) \div 2 = i /\ (2 * i + 1) % 2 = 1
            /\ (2 * i) \div 2 = i /\ (2 * i) % 2 = 0
        BY DEF Channels
      <3>2. ASSUME NEW k \in 3 .. 26
            PROVE  m[k] = BigEndian(scaled, k - 3)
        BY DEF generate_sumd
      <3>3. /\ m[3 + 2 * i + 0] = BigEndian(scaled, 2 * i)
            /\ m[3 + 2 * i + 1] = BigEndian(scaled, 2 * i + 1)
        BY <3>1, <3>2
      <3>4. /\ m[3 + 2 * i + 0] = (scaled[i] \div 256) % 256
            /\ m[3 + 2 * i + 1] = scaled[i] % 256
        BY <3>1, <3>3 DEF BigEndian, LowByte, HighByte
      <3>5. scaled[i] = (8 * Pilot[i]) % 65536
        OBVIOUS
      <3> DEFINE hi == m[3 + 2 * i + 0]
                 lo == m[3 + 2 * i + 1]
                 v  == Pilot[i]
      <3>6. v \in 0 .. 2000
        BY <1>1, CappedFits DEF Pilot
      <3>7. hi = (((8 * v) % 65536) \div 256) % 256 /\ lo = ((8 * v) % 65536) % 256
        BY <3>4, <3>5
      <3> HIDE DEF hi, lo, v
      <3>8. (8 * v) % 65536 = 8 * v
        BY <3>6
      <3>9. (256 * hi + lo) \div 8 = v
        BY <3>6, <3>7, <3>8
      <3> QED
        BY <3>9 DEF hi, lo, v
    <2>2. FcReadsSumd(m) = Pilot
      <3>1. Pilot = [i \in Channels |-> Pilot[i]]
        BY DEF Pilot
      <3> HIDE DEF m
      <3>2. \A i \in Channels : FcReads(m, 3, 0, 1)[i] \div 8 = Pilot[i]
        BY <2>1 DEF FcReads
      <3> QED
        BY <3>1, <3>2 DEF FcReadsSumd
    <2> QED
      BY <1>1, <2>2, ChannelsArrive DEF SumdCarriesChannels
  <1> QED
    BY <1>1, SticksStayTyped, PTL

-----------------------------------------------------------------------------
(* The checksums of the MSP messages.                                      *)

\* Every set of natural numbers has a least one.
LEMMA NatLeast ==
    ASSUME NEW T, T \subseteq Nat, T # {}
    PROVE  \E n \in T : \A m \in T : n <= m
<1>1. PICK n \in T : \A m \in T : ~(<<m, n>> \in OpToRel(<, Nat))
  BY NatLessThanWellFounded, WFMin
<1>2. \A m \in T : ~(m < n)
  BY <1>1 DEF OpToRel
<1> QED
  BY <1>2

\* Induction over the natural numbers.
LEMMA NatInductionSet ==
    ASSUME NEW P, 0 \in P, \A n \in Nat : n \in P => n + 1 \in P
    PROVE  \A n \in Nat : n \in P
<1> DEFINE bad == {n \in Nat : n \notin P}
<1> SUFFICES ASSUME bad # {} PROVE FALSE
  OBVIOUS
<1>1. PICK n \in bad : \A m \in bad : n <= m
  BY NatLeast
<1>2. n \in Nat /\ n # 0
  BY <1>1
<1>3. n - 1 \in Nat /\ n - 1 \notin bad /\ (n - 1) + 1 = n
  BY <1>1, <1>2
<1> QED
  BY <1>1, <1>3

\* The sums over the first bytes, up to the k-th.
FirstSums(next, bytes, k, g) ==
    /\ g[0] = 0
    /\ \A i \in 1 .. k : g[i] = next[g[i - 1]][bytes[i]]

LEMMA FirstSumsExist ==
    ASSUME NEW next, NEW bytes
    PROVE  \A k \in Nat : \E g : FirstSums(next, bytes, k, g)
<1> DEFINE P == {k \in Nat : \E g : FirstSums(next, bytes, k, g)}
<1>1. 0 \in P
  <2>1. FirstSums(next, bytes, 0, [i \in {0} |-> 0])
    BY DEF FirstSums
  <2> QED
    BY <2>1
<1>2. ASSUME NEW k \in Nat, k \in P PROVE k + 1 \in P
  <2>1. PICK g : FirstSums(next, bytes, k, g)
    BY <1>2
  <2> DEFINE h == [i \in 0 .. k + 1 |-> IF i = k + 1 THEN next[g[k]][bytes[k + 1]] ELSE g[i]]
  <2>2. h[0] = 0
    BY <2>1 DEF FirstSums
  <2>3. ASSUME NEW i \in 1 .. k + 1 PROVE h[i] = next[h[i - 1]][bytes[i]]
    <3>1. i - 1 \in 0 .. k /\ h[i - 1] = g[i - 1]
      OBVIOUS
    <3>2. CASE i = k + 1
      BY <3>1, <3>2
    <3>3. CASE i # k + 1
      <4>1. i \in 1 .. k /\ h[i] = g[i]
        BY <3>3
      <4> QED
        BY <2>1, <3>1, <4>1 DEF FirstSums
    <3> QED
      BY <3>2, <3>3
  <2>4. FirstSums(next, bytes, k + 1, h)
    <3> HIDE DEF h
    <3> QED
      BY <2>2, <2>3 DEF FirstSums
  <2> QED
    BY <2>4
<1> HIDE DEF P
<1>3. \A k \in Nat : k \in P
  BY <1>1, <1>2, NatInductionSet
<1> QED
  BY <1>3 DEF P

\* The sums agree as far as the bytes do.
LEMMA FirstSumsAgree ==
    ASSUME NEW next, NEW a, NEW b, NEW k \in Nat, \A i \in 1 .. k : a[i] = b[i],
           NEW g, FirstSums(next, a, k, g), NEW h, FirstSums(next, b, k, h)
    PROVE  g[k] = h[k]
<1> DEFINE P == {i \in Nat : i <= k => g[i] = h[i]}
<1>1. 0 \in P
  BY DEF FirstSums
<1>2. ASSUME NEW i \in Nat, i \in P PROVE i + 1 \in P
  <2> SUFFICES ASSUME i + 1 <= k PROVE g[i + 1] = h[i + 1]
    OBVIOUS
  <2>1. i + 1 \in 1 .. k /\ (i + 1) - 1 = i /\ g[i] = h[i]
    BY <1>2
  <2>2. a[i + 1] = b[i + 1]
    BY <2>1
  <2>3. g[i + 1] = next[g[i]][a[i + 1]] /\ h[i + 1] = next[h[i]][b[i + 1]]
    BY <2>1 DEF FirstSums
  <2> QED
    BY <2>1, <2>2, <2>3
<1> HIDE DEF P
<1>3. \A i \in Nat : i \in P
  BY <1>1, <1>2, NatInductionSet
<1> QED
  BY <1>3 DEF P

\* The sum of the definition is the last one of them.
LEMMA SumOfIs ==
    ASSUME NEW next, NEW bytes, Len(bytes) \in Nat
    PROVE  \E g : FirstSums(next, bytes, Len(bytes), g) /\ SumOf(next, bytes) = g[Len(bytes)]
<1> DEFINE val(k) == CHOOSE g : FirstSums(next, bytes, k, g)
           f == [n \in Nat |-> val(n)[n]]
           Eq(r) == r = [n \in Nat |-> IF n = 0 THEN 0 ELSE next[r[n - 1]][bytes[n]]]
           run == CHOOSE r : Eq(r)
<1>1. \A k \in Nat : FirstSums(next, bytes, k, val(k))
  BY FirstSumsExist
<1> HIDE DEF val
<1>2. f[0] = 0
  BY <1>1 DEF FirstSums
<1>3. ASSUME NEW n \in Nat, n # 0 PROVE f[n] = next[f[n - 1]][bytes[n]]
  <2>1. n - 1 \in Nat /\ n - 1 <= n /\ n - 1 \in 0 .. n - 1 /\ n \in 1 .. n
    BY <1>3
  <2>2. val(n)[n] = next[val(n)[n - 1]][bytes[n]]
    BY <1>1, <2>1 DEF FirstSums
  <2>3. val(n - 1)[n - 1] = val(n)[n - 1]
    <3>1. FirstSums(next, bytes, n - 1, val(n - 1)) /\ FirstSums(next, bytes, n, val(n))
      BY <1>1, <2>1
    <3>2. FirstSums(next, bytes, n - 1, val(n))
      BY <2>1, <3>1 DEF FirstSums
    <3> HIDE DEF f
    <3> QED
      BY <2>1, <3>1, <3>2, FirstSumsAgree
  <2> QED
    BY <2>1, <2>2, <2>3
<1>4. Eq(f)
  <2>1. f = [n \in Nat |-> f[n]]
    OBVIOUS
  <2> HIDE DEF f
  <2> QED
    BY <1>2, <1>3, <2>1
<1>5. Eq(run)
  <2> HIDE DEF Eq
  <2> QED
    BY <1>4
<1>6. SumOf(next, bytes) = run[Len(bytes)]
  BY DEF SumOf
<1> HIDE DEF run
<1>7. FirstSums(next, bytes, Len(bytes), run)
  BY <1>5 DEF FirstSums
<1> QED
  BY <1>6, <1>7

\* A sum over no bytes, and how it grows with the next one.
LEMMA SumEmpty == \A next : SumOf(next, <<>>) = 0
BY SumOfIs DEF FirstSums

LEMMA SumAppend ==
    ASSUME NEW next, NEW S, NEW s \in Seq(S), NEW c \in S
    PROVE  SumOf(next, Append(s, c)) = next[SumOf(next, s)][c]
<1> DEFINE t == Append(s, c)
           k == Len(s)
<1>1. /\ k \in Nat /\ Len(t) = k + 1 /\ k + 1 \in Nat /\ t[k + 1] = c
      /\ \A i \in 1 .. k : s[i] = t[i]
  OBVIOUS
<1> HIDE DEF t, k
<1>2. PICK g : FirstSums(next, s, k, g) /\ SumOf(next, s) = g[k]
  BY <1>1, SumOfIs DEF k
<1>3. PICK h : FirstSums(next, t, k + 1, h) /\ SumOf(next, t) = h[k + 1]
  BY <1>1, SumOfIs
<1>4. g[k] = h[k]
  <2>1. FirstSums(next, t, k, h)
    BY <1>1, <1>3 DEF FirstSums
  <2> QED
    BY <1>1, <1>2, <2>1, FirstSumsAgree
<1>5. h[k + 1] = next[h[k]][t[k + 1]]
  <2>1. k + 1 \in 1 .. k + 1 /\ (k + 1) - 1 = k
    BY <1>1
  <2> QED
    BY <1>3, <2>1 DEF FirstSums
<1> QED
  BY <1>1, <1>2, <1>3, <1>4, <1>5 DEF t

LEMMA ByteFacts == 0 \in Byte /\ Byte \subseteq Nat /\ \A c \in Byte : c <= 255
BY DEF Byte

\* Where every step leads to a byte, the sum is one.
LEMMA SumType ==
    ASSUME NEW next, \A x, c \in Byte : next[x][c] \in Byte, NEW s \in Seq(Byte)
    PROVE  SumOf(next, s) \in Byte
<1>1. PICK g : FirstSums(next, s, Len(s), g) /\ SumOf(next, s) = g[Len(s)]
  BY SumOfIs
<1> DEFINE P == {i \in Nat : i <= Len(s) => g[i] \in Byte}
<1>2. 0 \in P
  <2>1. g[0] = 0
    BY <1>1 DEF FirstSums
  <2>2. 0 \in Byte
    BY ByteFacts
  <2> QED
    BY <2>1, <2>2
<1>3. ASSUME NEW i \in Nat, i \in P PROVE i + 1 \in P
  <2> SUFFICES ASSUME i + 1 <= Len(s) PROVE g[i + 1] \in Byte
    OBVIOUS
  <2>1. i + 1 \in 1 .. Len(s) /\ (i + 1) - 1 = i /\ g[i] \in Byte
    BY <1>3
  <2>2. g[i + 1] = next[g[i]][s[i + 1]] /\ s[i + 1] \in Byte
    BY <1>1, <2>1 DEF FirstSums
  <2> QED
    BY <2>1, <2>2
<1> HIDE DEF P
<1>4. \A i \in Nat : i \in P
  BY <1>2, <1>3, NatInductionSet
<1> QED
  BY <1>1, <1>4 DEF P

LEMMA XorType ==
    ASSUME NEW x \in Int, NEW y \in Int
    PROVE  Xor(x, y) \in Byte
<1> DEFINE bit(value) == value * ((Bit(x, value) + Bit(y, value)) % 2)
<1>1. ASSUME NEW v \in Nat \ {0} PROVE bit(v) \in {0, v}
  <2>1. x \div v \in Int /\ y \div v \in Int
    OBVIOUS
  <2>2. Bit(x, v) \in {0, 1} /\ Bit(y, v) \in {0, 1}
    BY <2>1 DEF Bit
  <2> QED
    BY <2>2
<1>2. Xor(x, y) = bit(1) + bit(2) + bit(4) + bit(8) + bit(16) + bit(32) + bit(64) + bit(128)
  BY DEF Xor
<1> HIDE DEF bit
<1>3. /\ bit(1) \in {0, 1} /\ bit(2) \in {0, 2} /\ bit(4) \in {0, 4} /\ bit(8) \in {0, 8}
      /\ bit(16) \in {0, 16} /\ bit(32) \in {0, 32} /\ bit(64) \in {0, 64}
      /\ bit(128) \in {0, 128}
  BY <1>1
<1> QED
  BY <1>2, <1>3 DEF Byte

LEMMA ShiftType ==
    ASSUME NEW x \in Byte
    PROVE  ShiftCrc(x) \in Byte
<1>1. 2 * x - 256 \in Int /\ 213 \in Int
  BY DEF Byte
<1>2. Xor(2 * x - 256, 213) \in Byte
  BY <1>1, XorType
<1> QED
  BY <1>2 DEF ShiftCrc, Byte

LEMMA NextTypes ==
    ASSUME NEW x \in Byte, NEW c \in Byte
    PROVE  /\ XorNext[x][c] \in Byte
           /\ crc8_dvb_s2_table[x][c] \in Byte
<1>1. x \in Int /\ c \in Int
  BY DEF Byte
<1>2. Xor(x, c) \in Byte
  BY <1>1, XorType
<1>3. ASSUME NEW y \in Byte PROVE ShiftCrc4(y) \in Byte
  BY ShiftType DEF ShiftCrc4
<1>4. Crc8Table[Xor(x, c)] \in Byte
  BY <1>2, <1>3 DEF Crc8Table
<1> QED
  BY <1>2, <1>4 DEF XorNext, crc8_dvb_s2_table

LEMMA SumTypes ==
    ASSUME NEW s \in Seq(Byte)
    PROVE  XorSum(s) \in Byte /\ Crc(s) \in Byte
BY NextTypes, SumType DEF XorSum, Crc

LEMMA SumsGrow ==
    ASSUME NEW s \in Seq(Byte), NEW c \in Byte
    PROVE  /\ XorSum(Append(s, c)) = XorNext[XorSum(s)][c]
           /\ Crc(Append(s, c)) = crc8_dvb_s2_table[Crc(s)][c]
BY SumAppend DEF XorSum, Crc

-----------------------------------------------------------------------------
(* The MSP parser.                                                         *)

HeaderStates == {"HEADER_V1", "HEADER_V2_OVER_V1", "HEADER_V2_NATIVE"}
PayloadStates == {"PAYLOAD_V1", "PAYLOAD_V2_OVER_V1", "PAYLOAD_V2_NATIVE"}
ChecksumStates == {"CHECKSUM_V1", "CHECKSUM_V2_OVER_V1", "CHECKSUM_V2_NATIVE"}
ParserStates == Unread \cup HeaderStates \cup PayloadStates \cup ChecksumStates

Ports == [c_state : ParserStates, offset : Nat, dataSize : Nat, inBuf : Seq(Byte),
          checksum1 : Byte, checksum2 : Byte]

\* How many bytes the buffer holds in each state: those of an incomplete
\* header, or fewer than the payload has, which fits.
PortOk(p) ==
    /\ p \in Ports
    /\ p.offset <= InBufSize
    /\ p.c_state \in HeaderStates => p.offset = Len(p.inBuf)
    /\ p.c_state = "HEADER_V1" => p.offset < 2
    /\ p.c_state = "HEADER_V2_OVER_V1" => p.offset \in 2 .. 6
    /\ p.c_state = "HEADER_V2_NATIVE" => p.offset < 5
    /\ p.c_state \in PayloadStates => p.offset < p.dataSize /\ p.dataSize <= InBufSize

\* The arms of the parser, one per state.
LEMMA ParsedUnread ==
    ASSUME NEW p, NEW c
    PROVE  /\ Idle(p) => Parsed(p, c) = IF c = Dollar THEN Goto(p, "HEADER_START") ELSE p
           /\ p.c_state = "HEADER_START" =>
                 Parsed(p, c) = Goto(p, IF c = LetterM THEN "HEADER_M"
                                        ELSE IF c = LetterX THEN "HEADER_X" ELSE "IDLE")
           /\ p.c_state = "HEADER_M" =>
                 Parsed(p, c) = IF c = Greater THEN StartHeader(p, "HEADER_V1") ELSE Goto(p, "IDLE")
           /\ p.c_state = "HEADER_X" =>
                 Parsed(p, c) = IF c = Greater THEN StartHeader(p, "HEADER_V2_NATIVE")
                                ELSE Goto(p, "IDLE")
BY DEF Parsed, Idle

LEMMA ParsedHeader ==
    ASSUME NEW p, NEW c
    PROVE  /\ p.c_state = "HEADER_V1" => Parsed(p, c) = HeaderV1(Sum1(Take(p, c), c))
           /\ p.c_state = "HEADER_V2_OVER_V1" =>
                 Parsed(p, c) = HeaderV2(Sum2(Sum1(Take(p, c), c), c), 3,
                                         "PAYLOAD_V2_OVER_V1", "CHECKSUM_V2_OVER_V1")
           /\ p.c_state = "HEADER_V2_NATIVE" =>
                 Parsed(p, c) = HeaderV2(Sum2(Take(p, c), c), 1,
                                         "PAYLOAD_V2_NATIVE", "CHECKSUM_V2_NATIVE")
BY DEF Parsed, HeaderV1Size

LEMMA ParsedPayload ==
    ASSUME NEW p, NEW c
    PROVE  /\ p.c_state = "PAYLOAD_V1" => Parsed(p, c) = Payload(Sum1(p, c), "CHECKSUM_V1")
           /\ p.c_state = "PAYLOAD_V2_OVER_V1" =>
                 Parsed(p, c) = Payload(Sum2(Sum1(p, c), c), "CHECKSUM_V2_OVER_V1")
           /\ p.c_state = "PAYLOAD_V2_NATIVE" =>
                 Parsed(p, c) = Payload(Sum2(p, c), "CHECKSUM_V2_NATIVE")
BY DEF Parsed

LEMMA ParsedChecksum ==
    ASSUME NEW p, NEW c
    PROVE  /\ p.c_state = "CHECKSUM_V1" =>
                 Parsed(p, c) = Verified(p, p.checksum1, c, "COMMAND_RECEIVED")
           /\ p.c_state = "CHECKSUM_V2_OVER_V1" =>
                 Parsed(p, c) = Verified(Sum1(p, c), p.checksum2, c, "CHECKSUM_V1")
           /\ p.c_state = "CHECKSUM_V2_NATIVE" =>
                 Parsed(p, c) = Verified(p, p.checksum2, c, "COMMAND_RECEIVED")
BY DEF Parsed

\* What the steps of the arms do to the fields.
LEMMA GotoIs ==
    ASSUME NEW p \in Ports, NEW state \in ParserStates
    PROVE  LET q == Goto(p, state)
           IN  /\ q \in Ports /\ q.c_state = state
               /\ q.offset = p.offset /\ q.dataSize = p.dataSize /\ q.inBuf = p.inBuf
               /\ q.checksum1 = p.checksum1 /\ q.checksum2 = p.checksum2
BY DEF Ports, Goto

LEMMA SumsAre ==
    ASSUME NEW p \in Ports, NEW c \in Byte
    PROVE  /\ LET q == Sum1(p, c)
              IN  /\ q \in Ports /\ q.c_state = p.c_state
                  /\ q.offset = p.offset /\ q.dataSize = p.dataSize /\ q.inBuf = p.inBuf
                  /\ q.checksum1 = XorNext[p.checksum1][c] /\ q.checksum2 = p.checksum2
           /\ LET q == Sum2(p, c)
              IN  /\ q \in Ports /\ q.c_state = p.c_state
                  /\ q.offset = p.offset /\ q.dataSize = p.dataSize /\ q.inBuf = p.inBuf
                  /\ q.checksum1 = p.checksum1
                  /\ q.checksum2 = crc8_dvb_s2_table[p.checksum2][c]
<1>1. XorNext[p.checksum1][c] \in Byte /\ crc8_dvb_s2_table[p.checksum2][c] \in Byte
  BY NextTypes DEF Ports
<1> QED
  BY <1>1 DEF Ports, Sum1, Sum2

LEMMA TakeIs ==
    ASSUME NEW p \in Ports, NEW c \in Byte
    PROVE  LET q == Take(p, c)
           IN  /\ q \in Ports /\ q.c_state = p.c_state
               /\ q.offset = p.offset + 1 /\ q.dataSize = p.dataSize
               /\ q.inBuf = Append(p.inBuf, c)
               /\ q.checksum1 = p.checksum1 /\ q.checksum2 = p.checksum2
<1>1. Append(p.inBuf, c) \in Seq(Byte) /\ p.offset + 1 \in Nat
  BY DEF Ports
<1> QED
  BY <1>1 DEF Ports, Take

LEMMA StartHeaderIs ==
    ASSUME NEW p \in Ports, NEW state \in ParserStates
    PROVE  LET q == StartHeader(p, state)
           IN  /\ q \in Ports /\ q.c_state = state
               /\ q.offset = 0 /\ q.inBuf = <<>> /\ q.checksum1 = 0 /\ q.checksum2 = 0
<1>1. <<>> \in Seq(Byte)
  OBVIOUS
<1> QED
  BY <1>1, ByteFacts DEF Ports, StartHeader

LEMMA StartPayloadIs ==
    ASSUME NEW p \in Ports, NEW size \in Nat,
           NEW payload \in ParserStates, NEW checksum \in ParserStates
    PROVE  LET q == StartPayload(p, size, payload, checksum)
           IN  /\ q \in Ports
               /\ q.c_state = IF size > 0 THEN payload ELSE checksum
               /\ q.offset = 0 /\ q.dataSize = size
               /\ q.checksum1 = p.checksum1 /\ q.checksum2 = p.checksum2
<1>1. <<>> \in Seq(Byte)
  OBVIOUS
<1> QED
  BY <1>1 DEF Ports, StartPayload

\* A byte of the payload.
LEMMA PayloadIs ==
    ASSUME NEW p \in Ports, NEW checksum \in ParserStates
    PROVE  LET q == Payload(p, checksum)
           IN  /\ q \in Ports
               /\ q.c_state = IF p.offset + 1 = p.dataSize THEN checksum ELSE p.c_state
               /\ q.offset = p.offset + 1 /\ q.dataSize = p.dataSize
               /\ q.checksum1 = p.checksum1 /\ q.checksum2 = p.checksum2
<1> DEFINE r == [p EXCEPT !.offset = @ + 1]
<1>1. p.offset + 1 \in Nat
  BY DEF Ports
<1>2. /\ r \in Ports /\ r.c_state = p.c_state /\ r.offset = p.offset + 1
      /\ r.dataSize = p.dataSize /\ r.checksum1 = p.checksum1 /\ r.checksum2 = p.checksum2
  BY <1>1 DEF Ports
<1>3. Payload(p, checksum) = IF r.offset = r.dataSize THEN Goto(r, checksum) ELSE r
  BY DEF Payload
<1> HIDE DEF r
<1> QED
  BY <1>2, <1>3, GotoIs

\* The announced size is a natural number.
LEMMA SizeType ==
    ASSUME NEW s \in Seq(Byte), NEW first \in {1, 3}, Len(s) >= first + 4
    PROVE  SizeV2(s, first) \in Nat
<1> DEFINE low == s[first + 3]
           high == s[first + 4]
<1>1. low \in Byte /\ high \in Byte
  OBVIOUS
<1>2. SizeV2(s, first) = low + 256 * high
  BY DEF SizeV2
<1> HIDE DEF low, high
<1> QED
  BY <1>1, <1>2, ByteFacts

\* After the last byte of a V1 header: the size fits or the parser gives up.
LEMMA HeaderV1Is ==
    ASSUME NEW p \in Ports, Len(p.inBuf) = p.offset, p.offset \in 1 .. 2, p.c_state = "HEADER_V1"
    PROVE  LET q == HeaderV1(p)
               size == p.inBuf[1]
           IN  \/ p.offset = 1 /\ q = p
               \/ /\ p.offset = 2 /\ q = Goto(p, "IDLE")
                  /\ ~(size <= InBufSize) \/ (p.inBuf[2] = FrameIdV2 /\ ~(size >= 6))
               \/ /\ p.offset = 2 /\ p.inBuf[2] = FrameIdV2 /\ size >= 6
                  /\ q = Goto(p, "HEADER_V2_OVER_V1")
               \/ /\ p.offset = 2 /\ p.inBuf[2] # FrameIdV2 /\ size \in Nat /\ size <= InBufSize
                  /\ q = StartPayload(p, size, "PAYLOAD_V1", "CHECKSUM_V1")
<1>1. p.inBuf \in Seq(Byte) /\ 1 \in 1 .. Len(p.inBuf)
  BY DEF Ports
<1>2. p.inBuf[1] \in Nat
  <2>1. p.inBuf[1] \in Byte
    BY <1>1
  <2> QED
    BY <2>1, ByteFacts
<1> QED
  BY <1>2 DEF HeaderV1, HeaderV1Size, HeaderV2Size, Fits

LEMMA HeaderV2Is ==
    ASSUME NEW p \in Ports, Len(p.inBuf) = p.offset, NEW first \in {1, 3}, p.offset <= first + 4,
           NEW payload, NEW checksum
    PROVE  LET q == HeaderV2(p, first, payload, checksum)
               size == SizeV2(p.inBuf, first)
           IN  \/ p.offset < first + 4 /\ q = p
               \/ p.offset = first + 4 /\ ~(size <= InBufSize) /\ q = Goto(p, "IDLE")
               \/ /\ p.offset = first + 4 /\ size \in Nat /\ size <= InBufSize
                  /\ q = StartPayload(p, size, payload, checksum)
<1>1. p.inBuf \in Seq(Byte) /\ p.offset \in Nat
  BY DEF Ports
<1>2. CASE p.offset < first + 4
  <2>1. p.offset # first + 5 - 1
    BY <1>1, <1>2
  <2> QED
    BY <1>2, <2>1 DEF HeaderV2, HeaderV2Size
<1>3. CASE p.offset = first + 4
  <2>1. SizeV2(p.inBuf, first) \in Nat
    BY <1>1, <1>3, SizeType
  <2>2. p.offset = first + 5 - 1
    BY <1>1, <1>3
  <2> QED
    BY <1>3, <2>1, <2>2 DEF HeaderV2, HeaderV2Size, Fits
<1> QED
  BY <1>1, <1>2, <1>3

\* The buffer is not left, whatever byte comes next.
LEMMA PortStep ==
    ASSUME NEW p, PortOk(p), NEW c \in Byte
    PROVE  PortOk(Parsed(p, c))
<1> USE DEF ParserStates, Unread, HeaderStates, PayloadStates, ChecksumStates
<1>1. p \in Ports /\ p.c_state \in ParserStates /\ p.offset \in Nat /\ p.dataSize \in Nat
  BY DEF PortOk, Ports
<1>2. ASSUME NEW r \in Ports, NEW s \in Unread \cup ChecksumStates, r.offset <= InBufSize
      PROVE  PortOk(Goto(r, s))
  BY <1>2, GotoIs DEF PortOk
<1>3. ASSUME NEW r \in Ports, NEW size \in Nat, size <= InBufSize,
             NEW payload \in PayloadStates, NEW checksum \in ChecksumStates
      PROVE  PortOk(StartPayload(r, size, payload, checksum))
  <2> DEFINE q == StartPayload(r, size, payload, checksum)
  <2>1. /\ q \in Ports /\ q.c_state = IF size > 0 THEN payload ELSE checksum
        /\ q.offset = 0 /\ q.dataSize = size
    <3>1. payload \in ParserStates /\ checksum \in ParserStates
      OBVIOUS
    <3> HIDE DEF ParserStates
    <3> QED
      BY <3>1, StartPayloadIs
  <2> HIDE DEF q
  <2>2. 0 <= InBufSize /\ InBufSize \in Nat
    BY MspAssumption
  <2>3. ASSUME size > 0 PROVE PortOk(q)
    BY <1>3, <2>1, <2>2, <2>3 DEF PortOk
  <2>4. ASSUME ~(size > 0) PROVE PortOk(q)
    BY <1>3, <2>1, <2>2, <2>4 DEF PortOk
  <2> QED
    BY <2>3, <2>4 DEF q
<1>4. CASE Idle(p)
  BY <1>1, <1>2, <1>4, ParsedUnread DEF PortOk
<1>5. CASE p.c_state = "HEADER_START"
  BY <1>1, <1>2, <1>5, ParsedUnread DEF PortOk
<1>6. CASE p.c_state \in {"HEADER_M", "HEADER_X"}
  <2>1. \/ \E s \in {"HEADER_V1", "HEADER_V2_NATIVE"} : Parsed(p, c) = StartHeader(p, s)
        \/ Parsed(p, c) = Goto(p, "IDLE")
    BY <1>6, ParsedUnread
  <2>2. ASSUME NEW s \in {"HEADER_V1", "HEADER_V2_NATIVE"} PROVE PortOk(StartHeader(p, s))
    <3> DEFINE q == StartHeader(p, s)
    <3>1. q \in Ports /\ q.c_state = s /\ q.offset = 0 /\ q.inBuf = <<>>
      BY <1>1, StartHeaderIs
    <3> HIDE DEF q
    <3>2. 0 <= InBufSize /\ InBufSize \in Nat /\ Len(<<>>) = 0
      BY MspAssumption
    <3> QED
      BY <3>1, <3>2 DEF PortOk, q
  <2> QED
    BY <1>1, <1>2, <2>1, <2>2 DEF PortOk
<1>7. CASE p.c_state = "HEADER_V1"
  <2> DEFINE r == Sum1(Take(p, c), c)
  <2>1. /\ r \in Ports /\ r.c_state = "HEADER_V1" /\ r.offset = p.offset + 1
        /\ r.inBuf = Append(p.inBuf, c)
    <3>1. LET t == Take(p, c)
          IN  /\ t \in Ports /\ t.c_state = "HEADER_V1" /\ t.offset = p.offset + 1
              /\ t.inBuf = Append(p.inBuf, c)
      BY <1>1, <1>7, TakeIs
    <3> QED
      BY <3>1, SumsAre
  <2>2. p.offset = Len(p.inBuf) /\ p.offset < 2 /\ p.inBuf \in Seq(Byte)
    BY <1>7 DEF PortOk, Ports
  <2>3. Parsed(p, c) = HeaderV1(r)
    BY <1>7, ParsedHeader
  <2> HIDE DEF r
  <2>4. Len(r.inBuf) = r.offset /\ r.offset \in 1 .. 2
    BY <1>1, <2>1, <2>2
  <2>5. PortOk(Goto(r, "HEADER_V2_OVER_V1")) \/ r.offset # 2
    <3>1. LET q == Goto(r, "HEADER_V2_OVER_V1")
          IN  q \in Ports /\ q.c_state = "HEADER_V2_OVER_V1" /\ q.offset = r.offset /\ q.inBuf = r.inBuf
      BY <2>1, GotoIs
    <3> QED
      BY <2>4, <3>1, MspAssumption DEF PortOk
  <2>6. r.offset = 1 => PortOk(r)
    BY <2>1, <2>4, MspAssumption DEF PortOk
  <2>7. r.offset <= InBufSize
    BY <2>4, MspAssumption
  <2> QED
    BY <1>2, <1>3, <2>1, <2>3, <2>4, <2>5, <2>6, <2>7, HeaderV1Is
<1>8. CASE p.c_state \in {"HEADER_V2_OVER_V1", "HEADER_V2_NATIVE"}
  <2> DEFINE first == IF p.c_state = "HEADER_V2_OVER_V1" THEN 3 ELSE 1
             r == IF p.c_state = "HEADER_V2_OVER_V1" THEN Sum2(Sum1(Take(p, c), c), c)
                                                     ELSE Sum2(Take(p, c), c)
  <2>1. /\ r \in Ports /\ r.c_state = p.c_state /\ r.offset = p.offset + 1
        /\ r.inBuf = Append(p.inBuf, c)
    <3>1. LET t == Take(p, c)
          IN  /\ t \in Ports /\ t.c_state = p.c_state /\ t.offset = p.offset + 1
              /\ t.inBuf = Append(p.inBuf, c)
      BY <1>1, TakeIs
    <3>2. LET t == Sum1(Take(p, c), c)
          IN  /\ t \in Ports /\ t.c_state = p.c_state /\ t.offset = p.offset + 1
              /\ t.inBuf = Append(p.inBuf, c)
      BY <3>1, SumsAre
    <3> QED
      BY <3>1, <3>2, SumsAre
  <2>2. p.offset = Len(p.inBuf) /\ p.offset < first + 4 /\ p.inBuf \in Seq(Byte)
    BY <1>1, <1>8 DEF PortOk, Ports
  <2>3. PICK payload \in PayloadStates, checksum \in ChecksumStates :
           Parsed(p, c) = HeaderV2(r, first, payload, checksum)
    BY <1>8, ParsedHeader
  <2>4. first \in {1, 3} /\ (p.c_state = "HEADER_V2_OVER_V1" => first = 3 /\ p.offset >= 2)
        /\ (p.c_state = "HEADER_V2_NATIVE" => first = 1)
    BY <1>8 DEF PortOk
  <2> HIDE DEF r, first
  <2>5. Len(r.inBuf) = r.offset /\ r.offset <= first + 4 /\ r.offset <= InBufSize /\ r.offset \in Nat
    BY <1>1, <2>1, <2>2, <2>4, MspAssumption
  <2>6. r.offset < first + 4 => PortOk(r)
    BY <1>1, <1>8, <2>1, <2>4, <2>5 DEF PortOk
  <2> QED
    BY <1>2, <1>3, <2>1, <2>3, <2>4, <2>5, <2>6, HeaderV2Is
<1>9. CASE p.c_state \in PayloadStates
  <2>1. PICK r \in Ports, checksum \in ChecksumStates :
           /\ Parsed(p, c) = Payload(r, checksum)
           /\ r.c_state = p.c_state /\ r.offset = p.offset /\ r.dataSize = p.dataSize
    BY <1>1, <1>9, ParsedPayload, SumsAre
  <2> DEFINE q == Payload(r, checksum)
  <2>2. /\ q \in Ports /\ q.c_state = IF r.offset + 1 = r.dataSize THEN checksum ELSE r.c_state
        /\ q.offset = r.offset + 1 /\ q.dataSize = r.dataSize
    BY <2>1, PayloadIs
  <2>3. p.offset < p.dataSize /\ p.dataSize <= InBufSize
    BY <1>9 DEF PortOk
  <2> HIDE DEF q
  <2>4. q.offset <= q.dataSize /\ q.offset <= InBufSize
        /\ (q.c_state \in PayloadStates => q.offset < q.dataSize)
    BY <1>1, <2>1, <2>2, <2>3, MspAssumption
  <2>5. q.c_state \in PayloadStates \cup ChecksumStates /\ q.dataSize <= InBufSize
    BY <1>9, <2>1, <2>2, <2>3
  <2> QED
    BY <2>1, <2>2, <2>4, <2>5 DEF PortOk, q
<1>10. CASE p.c_state \in ChecksumStates
  <2>1. PICK r \in Ports, s \in Unread \cup ChecksumStates :
           Parsed(p, c) = Goto(r, s) /\ r.offset = p.offset
    BY <1>1, <1>10, ParsedChecksum, SumsAre DEF Verified
  <2> QED
    BY <1>2, <2>1 DEF PortOk
<1> QED
  BY <1>1, <1>4, <1>5, <1>6, <1>7, <1>8, <1>9, <1>10 DEF Idle

-----------------------------------------------------------------------------
(* The flight controller and the loop of the UAV.                          *)

\* Messages are sequences of bytes.
LEMMA MessageTypes ==
    ASSUME NEW cmd \in Byte, NEW pay \in Seq(Byte), Len(pay) <= 100
    PROVE  /\ MsgV1(cmd, pay) \in Seq(Byte)
           /\ BodyV2(cmd, pay) \in Seq(Byte) /\ Len(BodyV2(cmd, pay)) = 5 + Len(pay)
           /\ MsgV2(cmd, pay) \in Seq(Byte)
<1>1. Len(pay) \in Byte /\ 0 \in Byte
  <2>1. Len(pay) \in Nat
    OBVIOUS
  <2>2. \A n \in Nat : n <= 100 => n \in Byte
    BY DEF Byte
  <2> QED
    BY <2>1, <2>2
<1>2. /\ <<Dollar, LetterM, Greater>> \in Seq(Byte)
      /\ <<Dollar, LetterX, Greater>> \in Seq(Byte)
  BY DEF Byte, Dollar, LetterM, LetterX, Greater
<1>3. ASSUME NEW s \in Seq(Byte), NEW t \in Seq(Byte), NEW x \in Byte
      PROVE  s \o t \o <<x>> \in Seq(Byte)
  OBVIOUS
<1>4. MsgV1(cmd, pay) \in Seq(Byte)
  <2> DEFINE head == <<Len(pay), cmd>>
             body == head \o pay
  <2>1. head \in Seq(Byte)
    BY <1>1
  <2>2. body \in Seq(Byte)
    BY <2>1
  <2>3. MsgV1(cmd, pay) = <<Dollar, LetterM, Greater>> \o body \o <<XorSum(body)>>
    BY DEF MsgV1
  <2> HIDE DEF body
  <2> QED
    BY <1>2, <1>3, <2>2, <2>3, SumTypes
<1>5. BodyV2(cmd, pay) \in Seq(Byte) /\ Len(BodyV2(cmd, pay)) = 5 + Len(pay)
  <2> DEFINE head == <<0, cmd, 0, Len(pay), 0>>
  <2>1. head \in Seq(Byte) /\ Len(head) = 5
    BY <1>1
  <2>2. BodyV2(cmd, pay) = head \o pay
    BY DEF BodyV2
  <2> HIDE DEF head
  <2>3. head \o pay \in Seq(Byte) /\ Len(head \o pay) = Len(head) + Len(pay)
    BY <2>1, ConcatProperties
  <2> QED
    BY <2>1, <2>2, <2>3
<1>6. MsgV2(cmd, pay) \in Seq(Byte)
  BY <1>2, <1>3, <1>5, SumTypes DEF MsgV2
<1> QED
  BY <1>4, <1>5, <1>6

LEMMA MessagesTyped == Messages \subseteq Seq(Byte)
<1>1. /\ <<>> \in Seq(Byte) /\ Len(<<>>) <= 100
      /\ <<Dollar, LetterM, Greater>> \in Seq(Byte) /\ Len(<<Dollar, LetterM, Greater>>) <= 100
      /\ <<Dollar, LetterX>> \in Seq(Byte) /\ Len(<<Dollar, LetterX>>) <= 100
      /\ <<LetterX>> \in Seq(Byte) /\ Len(<<LetterX>>) = 1
  BY DEF Byte, Dollar, LetterM, LetterX, Greater
<1>2. 1 \in Byte /\ 2 \in Byte /\ 3 \in Byte /\ 4 \in Byte /\ 5 \in Byte /\ FrameIdV2 \in Byte
  BY DEF Byte, FrameIdV2
<1>3. /\ MsgV1(1, <<>>) \in Seq(Byte) /\ MsgV1(2, <<Dollar, LetterM, Greater>>) \in Seq(Byte)
      /\ MsgV2(3, <<Dollar, LetterX>>) \in Seq(Byte) /\ MsgV2(4, <<>>) \in Seq(Byte)
  BY <1>1, <1>2, MessageTypes
<1>4. MsgV2OverV1(5, <<LetterX>>) \in Seq(Byte)
  <2> DEFINE body == BodyV2(5, <<LetterX>>)
             inner == body \o <<Crc(body)>>
  <2>1. body \in Seq(Byte) /\ Len(body) = 6
    <3>1. <<LetterX>> \in Seq(Byte) /\ Len(<<LetterX>>) <= 100
      BY <1>1
    <3>2. body \in Seq(Byte) /\ Len(body) = 5 + Len(<<LetterX>>)
      BY <1>2, <3>1, MessageTypes
    <3> QED
      BY <1>1, <3>2
  <2> HIDE DEF body
  <2>2. Crc(body) \in Byte
    BY <2>1, SumTypes
  <2>3. inner \in Seq(Byte) /\ Len(inner) <= 100
    <3>1. <<Crc(body)>> \in Seq(Byte) /\ Len(<<Crc(body)>>) = 1
      BY <2>2
    <3>2. inner \in Seq(Byte) /\ Len(inner) = Len(body) + 1
      BY <2>1, <3>1, ConcatProperties
    <3> QED
      BY <2>1, <3>2
  <2>4. MsgV2OverV1(5, <<LetterX>>) = MsgV1(FrameIdV2, inner)
    BY DEF MsgV2OverV1, body
  <2> HIDE DEF inner
  <2> QED
    BY <1>2, <2>3, <2>4, MessageTypes
<1> QED
  BY <1>3, <1>4 DEF Messages

BufInv == PortOk(port) /\ line \in Seq(Byte)

LEMMA BufNext ==
    ASSUME BufInv, [MspNext]_mspVars
    PROVE  BufInv'
<1>1. ASSUME NEW m \in Messages, FcSends(m) PROVE BufInv'
  BY <1>1, MessagesTyped DEF BufInv, FcSends
<1>2. ASSUME NEW next \in {<<>>} \cup {<<b>> : b \in NoiseBytes}, Distort(next) PROVE BufInv'
  <2>1. next \in Seq(Byte)
    <3>1. NoiseBytes \subseteq Byte
      BY MspAssumption DEF Byte
    <3>2. <<>> \in Seq(Byte) /\ \A b \in Byte : <<b>> \in Seq(Byte)
      OBVIOUS
    <3> QED
      BY <3>1, <3>2
  <2>2. line # <<>> /\ line' = next \o Tail(line) /\ port' = port
    BY <1>2 DEF Distort
  <2>3. Tail(line) \in Seq(Byte)
    BY <2>2 DEF BufInv
  <2>4. line' \in Seq(Byte)
    BY <2>1, <2>2, <2>3
  <2> QED
    BY <2>2, <2>4 DEF BufInv
<1>3. ASSUME ReadByte PROVE BufInv'
  <2>1. line # <<>> /\ line' = Tail(line) /\ port' = Parsed(port, Head(line))
    BY <1>3 DEF ReadByte
  <2>2. Head(line) \in Byte /\ Tail(line) \in Seq(Byte)
    BY <2>1 DEF BufInv
  <2> QED
    BY <2>1, <2>2, PortStep DEF BufInv
<1>4. ASSUME UNCHANGED mspVars PROVE BufInv'
  BY <1>4 DEF BufInv, mspVars
<1> QED
  BY <1>1, <1>2, <1>3, <1>4 DEF MspNext

LEMMA BufStart == MspInit => BufInv
<1> SUFFICES ASSUME MspInit PROVE BufInv
  OBVIOUS
<1>1. PICK state \in Unread :
         port = [c_state |-> state, offset |-> 0, dataSize |-> 0, inBuf |-> <<>>,
                 checksum1 |-> 0, checksum2 |-> 0]
  BY DEF MspInit
<1>2. line = <<>> /\ <<>> \in Seq(Byte)
  BY DEF MspInit
<1>3. port \in Ports /\ port.offset = 0 /\ port.c_state \in Unread
  BY <1>1, <1>2, ByteFacts DEF Ports, ParserStates
<1> QED
  BY <1>2, <1>3, MspAssumption
  DEF BufInv, PortOk, Unread, HeaderStates, PayloadStates

\* inBuf of the MSP parser is never written behind its end, for every size of
\* the buffer, any number of messages and any noise (msp_serial.c: the checks
\* of dataSize against MSP_PORT_INBUF_SIZE).
THEOREM MspBufferHolds == MspSpec => []InBufHolds
<1>1. BufInv => InBufHolds
  BY DEF BufInv, PortOk, InBufHolds
<1> QED
  BY <1>1, BufStart, BufNext, PTL DEF MspSpec

-----------------------------------------------------------------------------
(* What the parser has read of a message.                                  *)

\* A sequence put together of two parts and a last byte, and cut again.
LEMMA CutAgain ==
    ASSUME NEW pre \in Seq(Byte), NEW mid \in Seq(Byte), NEW c \in Byte
    PROVE  LET s == Append(pre \o mid, c)
           IN  /\ s \in Seq(Byte) /\ Len(s) = Len(pre) + Len(mid) + 1
               /\ s = pre \o Append(mid, c)
               /\ SubSeq(s, 1, Len(pre)) = pre
               /\ SubSeq(s, Len(pre) + 1, Len(s) - 1) = mid
               /\ SubSeq(s, Len(pre) + 1, Len(s)) = Append(mid, c)
               /\ Last(s) = c
               /\ \A i \in 1 .. Len(pre) : s[i] = pre[i]
<1> DEFINE b == pre \o mid
           s == Append(b, c)
           t == Append(mid, c)
           p == Len(pre)
           m == Len(mid)
<1>1. /\ b \in Seq(Byte) /\ Len(b) = p + m /\ p \in Nat /\ m \in Nat
      /\ \A i \in 1 .. p + m : b[i] = IF i <= p THEN pre[i] ELSE mid[i - p]
  BY ConcatProperties
<1>2. /\ t \in Seq(Byte) /\ Len(t) = m + 1 /\ t[m + 1] = c
      /\ \A i \in 1 .. m : t[i] = mid[i]
  BY AppendProperties
<1> HIDE DEF b
<1>3. /\ s \in Seq(Byte) /\ Len(s) = p + m + 1 /\ s[p + m + 1] = c
      /\ \A i \in 1 .. p + m : s[i] = b[i]
  BY <1>1, AppendProperties
<1> HIDE DEF s, t
<1>4. /\ \A i \in 1 .. p : s[i] = pre[i]
      /\ \A i \in 1 .. m : s[p + i] = mid[i]
      /\ \A i \in 1 .. m + 1 : s[p + i] = t[i]
  <2>1. \A i \in 1 .. p : i \in 1 .. p + m /\ i <= p
    BY <1>1
  <2>2. \A i \in 1 .. m : p + i \in 1 .. p + m /\ ~(p + i <= p) /\ (p + i) - p = i
    BY <1>1
  <2>3. \A i \in 1 .. p : s[i] = pre[i]
    BY <1>1, <1>3, <2>1
  <2>4. \A i \in 1 .. m : s[p + i] = mid[i]
    BY <1>1, <1>3, <2>2
  <2>5. ASSUME NEW i \in 1 .. m + 1 PROVE s[p + i] = t[i]
    <3>1. CASE i = m + 1
      <4>1. p + i = p + m + 1
        BY <3>1, <1>1
      <4> QED
        BY <1>2, <1>3, <3>1, <4>1
    <3>2. CASE i # m + 1
      <4>1. i \in 1 .. m
        BY <3>2, <1>1
      <4> QED
        BY <1>2, <2>4, <4>1
    <3> QED
      BY <3>1, <3>2
  <2> QED
    BY <2>3, <2>4, <2>5
<1>5. ASSUME NEW k \in Int, NEW n \in Int, 1 <= k, k <= n + 1, n <= Len(s)
      PROVE  /\ SubSeq(s, k, n) \in Seq(Byte) /\ Len(SubSeq(s, k, n)) = n - k + 1
             /\ \A i \in 1 .. n - k + 1 : SubSeq(s, k, n)[i] = s[k + i - 1]
  <2>1. \A i \in k .. n : i \in 1 .. Len(s) /\ s[i] \in Byte
    BY <1>3, <1>5
  <2>2. IF k <= n THEN TRUE ELSE n - k + 1 = 0
    BY <1>5
  <2> QED
    BY <2>1, <2>2, SubSeqProperties
<1>6. SubSeq(s, 1, p) = pre
  <2>1. /\ SubSeq(s, 1, p) \in Seq(Byte) /\ Len(SubSeq(s, 1, p)) = p
        /\ \A i \in 1 .. p : SubSeq(s, 1, p)[i] = s[i]
    <3>1. 1 \in Int /\ p \in Int /\ 1 <= 1 /\ 1 <= p + 1 /\ p <= Len(s) /\ p - 1 + 1 = p
      BY <1>1, <1>3
    <3>2. \A i \in 1 .. p : 1 + i - 1 = i
      OBVIOUS
    <3> QED
      BY <1>5, <3>1, <3>2
  <2> HIDE DEF p
  <2> QED
    BY <1>4, <2>1, SeqEqual DEF p
<1>7. SubSeq(s, p + 1, Len(s) - 1) = mid
  <2> DEFINE u == SubSeq(s, p + 1, Len(s) - 1)
  <2>1. u \in Seq(Byte) /\ Len(u) = m /\ \A i \in 1 .. m : u[i] = s[p + i]
    <3>1. /\ p + 1 \in Int /\ Len(s) - 1 \in Int /\ 1 <= p + 1 /\ p + 1 <= (Len(s) - 1) + 1
          /\ Len(s) - 1 <= Len(s) /\ (Len(s) - 1) - (p + 1) + 1 = m
      BY <1>1, <1>3
    <3>2. \A i \in 1 .. m : (p + 1) + i - 1 = p + i
      BY <1>1
    <3> HIDE DEF p, m
    <3>3. /\ u \in Seq(Byte) /\ Len(u) = (Len(s) - 1) - (p + 1) + 1
          /\ \A i \in 1 .. (Len(s) - 1) - (p + 1) + 1 : u[i] = s[(p + 1) + i - 1]
      BY <1>5, <3>1
    <3> HIDE DEF u
    <3> QED
      BY <3>1, <3>2, <3>3
  <2> HIDE DEF p, u
  <2> QED
    BY <1>4, <2>1, SeqEqual DEF u
<1>8. SubSeq(s, p + 1, Len(s)) = t
  <2> DEFINE u == SubSeq(s, p + 1, Len(s))
  <2>1. u \in Seq(Byte) /\ Len(u) = m + 1 /\ \A i \in 1 .. m + 1 : u[i] = s[p + i]
    <3>1. /\ p + 1 \in Int /\ Len(s) \in Int /\ 1 <= p + 1 /\ p + 1 <= Len(s) + 1
          /\ Len(s) <= Len(s) /\ Len(s) - (p + 1) + 1 = m + 1
      BY <1>1, <1>3
    <3>2. \A i \in 1 .. m + 1 : (p + 1) + i - 1 = p + i
      BY <1>1
    <3> HIDE DEF p, m
    <3>3. /\ u \in Seq(Byte) /\ Len(u) = Len(s) - (p + 1) + 1
          /\ \A i \in 1 .. Len(s) - (p + 1) + 1 : u[i] = s[(p + 1) + i - 1]
      BY <1>5, <3>1
    <3> HIDE DEF u
    <3> QED
      BY <3>1, <3>2, <3>3
  <2> HIDE DEF p, u, m
  <2> QED
    BY <1>2, <1>4, <2>1, SeqEqual DEF u
<1>9. Last(s) = c
  BY <1>3 DEF Last
<1>10. s = pre \o t
  <2> DEFINE v == pre \o t
  <2>1. /\ v \in Seq(Byte) /\ Len(v) = p + (m + 1)
        /\ \A i \in 1 .. p + (m + 1) : v[i] = IF i <= p THEN pre[i] ELSE t[i - p]
    <3>1. /\ v \in Seq(Byte) /\ Len(v) = p + Len(t)
          /\ \A i \in 1 .. p + Len(t) : v[i] = IF i <= p THEN pre[i] ELSE t[i - p]
      BY <1>2, ConcatProperties
    <3> HIDE DEF v
    <3> QED
      BY <1>2, <3>1
  <2>2. Len(v) = Len(s)
    BY <1>1, <1>3, <2>1
  <2>3. ASSUME NEW i \in 1 .. Len(s) PROVE s[i] = v[i]
    <3>1. i \in 1 .. p + (m + 1)
      BY <1>1, <1>3
    <3>2. CASE i <= p
      BY <1>1, <1>4, <2>1, <3>1, <3>2
    <3>3. CASE ~(i <= p)
      <4>1. i - p \in 1 .. m + 1 /\ p + (i - p) = i
        BY <1>1, <3>1, <3>3
      <4> QED
        BY <1>4, <2>1, <3>1, <3>3, <4>1
    <3> QED
      BY <3>2, <3>3
  <2> HIDE DEF v
  <2> QED
    BY <1>3, <2>1, <2>2, <2>3, SeqEqual DEF v
<1> QED
  BY <1>3, <1>4, <1>6, <1>7, <1>8, <1>9, <1>10 DEF s, t, b

-----------------------------------------------------------------------------
\* What has been read of the V2 message, native or inside one of V1: its sum,
\* and how long it is in each state.
BodyRead(body, p, header, payload, checksum) ==
    /\ p.checksum2 = Crc(body)
    /\ p.c_state = header => Len(body) < 5
    /\ p.c_state = payload => Len(body) = 5 + p.offset /\ SizeV2(body, 1) = p.dataSize
    /\ p.c_state = checksum => Len(body) >= 5 /\ Len(body) = 5 + SizeV2(body, 1)

NativeStates == {"HEADER_V2_NATIVE", "PAYLOAD_V2_NATIVE", "CHECKSUM_V2_NATIVE"}
OverV1States == {"HEADER_V2_OVER_V1", "PAYLOAD_V2_OVER_V1", "CHECKSUM_V2_OVER_V1"}
PlainV1States == {"HEADER_V1", "PAYLOAD_V1", "CHECKSUM_V1"}

NativeRead(body, p) ==
    /\ BodyRead(body, p, "HEADER_V2_NATIVE", "PAYLOAD_V2_NATIVE", "CHECKSUM_V2_NATIVE")
    /\ p.c_state = "HEADER_V2_NATIVE" => p.inBuf = body

PlainV1Read(content, p) ==
    /\ p.checksum1 = XorSum(content)
    /\ p.c_state = "HEADER_V1" => p.inBuf = content /\ p.checksum2 = 0
    /\ p.c_state = "PAYLOAD_V1" => /\ Len(content) = 2 + p.offset /\ content[1] = p.dataSize
                                   /\ content[2] # FrameIdV2
    /\ p.c_state = "CHECKSUM_V1" => ContentOk(content)

OverV1Read(content, p) ==
    /\ p.checksum1 = XorSum(content)
    /\ p.c_state = "HEADER_V2_OVER_V1" => p.inBuf = content
    /\ \E size \in Byte, body \in Seq(Byte) :
          /\ content = <<size, FrameIdV2>> \o body
          /\ BodyRead(body, p, "HEADER_V2_OVER_V1", "PAYLOAD_V2_OVER_V1", "CHECKSUM_V2_OVER_V1")

StartM == <<Dollar, LetterM, Greater>>
StartX == <<Dollar, LetterX, Greater>>

\* b is what the parser has read since the '$' of the message it is in.
Attempted(b, p) ==
    \/ p.c_state = "HEADER_START" /\ b = <<Dollar>>
    \/ p.c_state = "HEADER_M" /\ b = <<Dollar, LetterM>>
    \/ p.c_state = "HEADER_X" /\ b = <<Dollar, LetterX>>
    \/ p.c_state \in NativeStates /\ \E body \in Seq(Byte) : b = StartX \o body /\ NativeRead(body, p)
    \/ p.c_state \in PlainV1States /\ \E cont \in Seq(Byte) : b = StartM \o cont /\ PlainV1Read(cont, p)
    \/ p.c_state \in OverV1States /\ \E cont \in Seq(Byte) : b = StartM \o cont /\ OverV1Read(cont, p)

\* The size in a header read so far does not change.
LEMMA SizeSame ==
    ASSUME NEW s \in Seq(Byte), NEW c \in Byte, Len(s) >= 5
    PROVE  SizeV2(Append(s, c), 1) = SizeV2(s, 1) /\ SizeV2(s, 1) \in Nat
<1>1. Append(s, c)[4] = s[4] /\ Append(s, c)[5] = s[5]
  BY AppendProperties
<1> QED
  BY <1>1, SizeType DEF SizeV2

\* The header of a V2 message is complete.
LEMMA BodyStarts ==
    ASSUME NEW p \in Ports, NEW body \in Seq(Byte), Len(body) = 5, p.checksum2 = Crc(body),
           NEW size \in Nat, size = SizeV2(body, 1), NEW header \in ParserStates,
           NEW payload \in ParserStates, NEW checksum \in ParserStates,
           payload # header, checksum # header, checksum # payload
    PROVE  LET q == StartPayload(p, size, payload, checksum)
           IN  /\ BodyRead(body, q, header, payload, checksum)
               /\ q.c_state \in {payload, checksum}
               /\ q.checksum1 = p.checksum1
<1> DEFINE q == StartPayload(p, size, payload, checksum)
<1>1. /\ q.c_state = IF size > 0 THEN payload ELSE checksum
      /\ q.offset = 0 /\ q.dataSize = size
      /\ q.checksum1 = p.checksum1 /\ q.checksum2 = p.checksum2
  BY DEF StartPayload, Ports
<1> HIDE DEF q
<1>2. ASSUME size > 0 PROVE q.c_state = payload /\ BodyRead(body, q, header, payload, checksum)
  BY <1>1, <1>2 DEF BodyRead
<1>3. ASSUME ~(size > 0) PROVE q.c_state = checksum /\ BodyRead(body, q, header, payload, checksum)
  <2>1. size = 0
    BY <1>3
  <2> QED
    BY <1>1, <1>3, <2>1 DEF BodyRead
<1> QED
  BY <1>1, <1>2, <1>3 DEF q

\* A byte of its payload.
LEMMA BodyPayload ==
    ASSUME NEW p \in Ports, NEW body \in Seq(Byte), NEW c \in Byte, p.offset < p.dataSize,
           NEW header \in ParserStates, NEW payload \in ParserStates, NEW checksum \in ParserStates,
           payload # header, checksum # header, checksum # payload,
           p.c_state = payload, p.checksum2 = Crc(Append(body, c)),
           Len(body) = 5 + p.offset, SizeV2(body, 1) = p.dataSize
    PROVE  LET q == Payload(p, checksum)
           IN  /\ BodyRead(Append(body, c), q, header, payload, checksum)
               /\ q.c_state \in {payload, checksum}
               /\ q.checksum1 = p.checksum1
<1> DEFINE q == Payload(p, checksum)
           b == Append(body, c)
<1>1. /\ q.c_state = IF p.offset + 1 = p.dataSize THEN checksum ELSE payload
      /\ q.offset = p.offset + 1 /\ q.dataSize = p.dataSize
      /\ q.checksum1 = p.checksum1 /\ q.checksum2 = p.checksum2
  BY PayloadIs
<1>2. p.offset \in Nat /\ p.dataSize \in Nat
  BY DEF Ports
<1>3. Len(b) = 5 + (p.offset + 1) /\ SizeV2(b, 1) = p.dataSize /\ Len(b) >= 5
  <2>1. Len(body) >= 5 /\ Len(b) = Len(body) + 1
    BY <1>2, AppendProperties
  <2> QED
    BY <1>2, <2>1, SizeSame
<1>4. p.checksum2 = Crc(b)
  OBVIOUS
<1> HIDE DEF q, b
<1>5. BodyRead(b, q, header, payload, checksum)
  BY <1>1, <1>2, <1>3, <1>4 DEF BodyRead
<1> QED
  BY <1>1, <1>5 DEF q, b

\* A native message: the next byte belongs to it, completes it or ends the
\* attempt.
LEMMA NativeStep ==
    ASSUME NEW p, PortOk(p), NEW c \in Byte, NEW body \in Seq(Byte),
           p.c_state \in NativeStates, NativeRead(body, p)
    PROVE  LET q == Parsed(p, c)
           IN  \/ q.c_state = "IDLE"
               \/ q.c_state = "COMMAND_RECEIVED" /\ BodyOk(body, c)
               \/ q.c_state \in NativeStates /\ NativeRead(Append(body, c), q)
<1> DEFINE q == Parsed(p, c)
           b == Append(body, c)
           H == "HEADER_V2_NATIVE"
           P == "PAYLOAD_V2_NATIVE"
           C == "CHECKSUM_V2_NATIVE"
<1>1. p \in Ports /\ p.offset \in Nat /\ p.dataSize \in Nat
  BY DEF PortOk, Ports
<1>2. H \in ParserStates /\ P \in ParserStates /\ C \in ParserStates /\ P # H /\ C # H /\ C # P
  BY DEF ParserStates, HeaderStates, PayloadStates, ChecksumStates
<1>3. b \in Seq(Byte) /\ Len(b) = Len(body) + 1 /\ Crc(b) = crc8_dvb_s2_table[Crc(body)][c]
  BY AppendProperties, SumsGrow
<1>4. p.checksum2 = Crc(body)
  BY DEF NativeRead, BodyRead
<1>5. CASE p.c_state = H
  <2> DEFINE t == Take(p, c)
             r == Sum2(t, c)
  <2>1. p.inBuf = body /\ Len(body) < 5 /\ p.offset = Len(body)
    BY <1>5 DEF NativeRead, BodyRead, PortOk, HeaderStates
  <2>2. /\ t \in Ports /\ t.c_state = H /\ t.offset = p.offset + 1
        /\ t.inBuf = b /\ t.checksum2 = p.checksum2
    BY <1>1, <1>5, <2>1, TakeIs
  <2>3. /\ r \in Ports /\ r.c_state = H /\ r.offset = p.offset + 1
        /\ r.inBuf = b /\ r.checksum2 = crc8_dvb_s2_table[p.checksum2][c]
    <3> HIDE DEF t
    <3>1. /\ r \in Ports /\ r.c_state = t.c_state /\ r.offset = t.offset
          /\ r.inBuf = t.inBuf /\ r.checksum2 = crc8_dvb_s2_table[t.checksum2][c]
      BY <2>2, SumsAre
    <3> HIDE DEF r
    <3> QED
      BY <2>2, <3>1
  <2>4. q = HeaderV2(r, 1, P, C)
    BY <1>5, ParsedHeader
  <2> HIDE DEF r, q, b
  <2>5. /\ Len(b) <= 5 /\ Len(r.inBuf) = r.offset /\ r.offset = Len(b) + 1 - 1
        /\ r.checksum2 = Crc(b)
    BY <1>3, <1>4, <2>1, <2>3
  <2> DEFINE size == SizeV2(r.inBuf, 1)
  <2>6. \/ Len(b) < 5 /\ q = r
        \/ q = Goto(r, "IDLE")
        \/ /\ Len(b) = 5 /\ size \in Nat /\ size = SizeV2(b, 1)
           /\ q = StartPayload(r, size, P, C)
    <3>1. \/ r.offset < 1 + 4 /\ q = r
          \/ r.offset = 1 + 4 /\ q = Goto(r, "IDLE")
          \/ /\ r.offset = 1 + 4 /\ size \in Nat
             /\ q = StartPayload(r, size, P, C)
      BY <2>3, <2>4, <2>5, HeaderV2Is
    <3>2. r.offset = Len(b) /\ size = SizeV2(b, 1)
      BY <1>3, <2>3, <2>5
    <3> HIDE DEF size
    <3> QED
      BY <3>1, <3>2
  <2> HIDE DEF H, P, C, size
  <2>7. \/ q.c_state = "IDLE"
        \/ BodyRead(b, q, H, P, C) /\ q.c_state \in {H, P, C} /\ (q.c_state = H => q = r)
    <3>1. r \in Ports /\ r.c_state = H /\ r.checksum2 = Crc(b) /\ b \in Seq(Byte)
      BY <1>3, <2>3, <2>5
    <3>2. ASSUME Len(b) < 5, q = r
          PROVE  BodyRead(b, q, H, P, C) /\ q.c_state = H
      BY <1>2, <3>1, <3>2 DEF BodyRead
    <3>3. ASSUME q = Goto(r, "IDLE") PROVE q.c_state = "IDLE"
      BY <3>1, <3>3, GotoIs DEF ParserStates, Unread
    <3>4. ASSUME Len(b) = 5, size \in Nat, size = SizeV2(b, 1), q = StartPayload(r, size, P, C)
          PROVE  BodyRead(b, q, H, P, C) /\ q.c_state \in {P, C} /\ q.checksum1 = r.checksum1
      BY <1>2, <3>1, <3>4, BodyStarts
    <3> QED
      BY <1>2, <2>6, <3>2, <3>3, <3>4
  <2> QED
    BY <2>3, <2>7 DEF NativeRead, NativeStates, H, P, C, q, b
<1>6. CASE p.c_state = P
  <2> DEFINE r == Sum2(p, c)
  <2>1. /\ Len(body) = 5 + p.offset /\ SizeV2(body, 1) = p.dataSize /\ p.offset < p.dataSize
    BY <1>6 DEF NativeRead, BodyRead, PortOk, PayloadStates
  <2>2. /\ r \in Ports /\ r.c_state = P /\ r.offset = p.offset /\ r.dataSize = p.dataSize
        /\ r.checksum2 = crc8_dvb_s2_table[p.checksum2][c]
    BY <1>1, <1>6, SumsAre
  <2>3. q = Payload(r, C)
    BY <1>6, ParsedPayload
  <2> HIDE DEF r, q
  <2>4. /\ r.offset < r.dataSize /\ r.checksum2 = Crc(Append(body, c))
        /\ Len(body) = 5 + r.offset /\ SizeV2(body, 1) = r.dataSize
    BY <1>3, <1>4, <2>1, <2>2
  <2> HIDE DEF H, P, C
  <2>5. BodyRead(Append(body, c), q, H, P, C) /\ q.c_state \in {P, C}
    BY <1>2, <2>2, <2>3, <2>4, BodyPayload
  <2> QED
    BY <2>5 DEF NativeRead, NativeStates, H, P, C, q
<1>7. CASE p.c_state = C
  <2>1. Len(body) >= 5 /\ Len(body) = 5 + SizeV2(body, 1)
    BY <1>7 DEF NativeRead, BodyRead
  <2>2. q = Goto(p, IF p.checksum2 = c THEN "COMMAND_RECEIVED" ELSE "IDLE")
    BY <1>7, ParsedChecksum DEF Verified
  <2>3. q.c_state = IF p.checksum2 = c THEN "COMMAND_RECEIVED" ELSE "IDLE"
    BY <1>1, <2>2, GotoIs DEF ParserStates, Unread
  <2> QED
    BY <1>4, <2>1, <2>3 DEF BodyOk, HeaderV2Size
<1> QED
  BY <1>5, <1>6, <1>7 DEF NativeStates

\* A message of V1; its header may announce one of V2 inside.
LEMMA PlainV1Step ==
    ASSUME NEW p, PortOk(p), NEW c \in Byte, NEW cont \in Seq(Byte),
           p.c_state \in PlainV1States, PlainV1Read(cont, p)
    PROVE  LET q == Parsed(p, c)
           IN  \/ q.c_state = "IDLE"
               \/ q.c_state = "COMMAND_RECEIVED" /\ ContentOk(cont) /\ c = XorSum(cont)
               \/ q.c_state \in PlainV1States /\ PlainV1Read(Append(cont, c), q)
               \/ q.c_state \in OverV1States /\ OverV1Read(Append(cont, c), q)
<1> DEFINE q == Parsed(p, c)
           b == Append(cont, c)
<1>1. p \in Ports /\ p.offset \in Nat /\ p.dataSize \in Nat
  BY DEF PortOk, Ports
<1>2. /\ b \in Seq(Byte) /\ Len(b) = Len(cont) + 1 /\ XorSum(b) = XorNext[XorSum(cont)][c]
      /\ \A i \in 1 .. Len(cont) : b[i] = cont[i]
  BY AppendProperties, SumsGrow
<1>3. p.checksum1 = XorSum(cont)
  BY DEF PlainV1Read
<1>4. CASE p.c_state = "HEADER_V1"
  <2> DEFINE t == Take(p, c)
             r == Sum1(t, c)
  <2>1. p.inBuf = cont /\ p.offset = Len(cont) /\ p.offset < 2 /\ p.checksum2 = 0
    BY <1>4 DEF PlainV1Read, PortOk, HeaderStates
  <2>2. /\ t \in Ports /\ t.c_state = "HEADER_V1" /\ t.offset = p.offset + 1
        /\ t.inBuf = b /\ t.checksum1 = p.checksum1 /\ t.checksum2 = p.checksum2
    BY <1>1, <1>4, <2>1, TakeIs
  <2>3. /\ r \in Ports /\ r.c_state = "HEADER_V1" /\ r.offset = p.offset + 1
        /\ r.inBuf = b /\ r.checksum1 = XorSum(b) /\ r.checksum2 = 0
    <3> HIDE DEF t
    <3>1. /\ r \in Ports /\ r.c_state = t.c_state /\ r.offset = t.offset
          /\ r.inBuf = t.inBuf /\ r.checksum1 = XorNext[t.checksum1][c]
          /\ r.checksum2 = t.checksum2
      BY <2>2, SumsAre
    <3> HIDE DEF r
    <3> QED
      BY <1>2, <1>3, <2>1, <2>2, <3>1
  <2>4. q = HeaderV1(r)
    BY <1>4, ParsedHeader
  <2> HIDE DEF r, q, b
  <2>5. Len(r.inBuf) = r.offset /\ r.offset \in 1 .. 2 /\ Len(b) = r.offset
    BY <1>1, <1>2, <2>1, <2>3
  <2>6. \/ r.offset = 1 /\ q = r
        \/ r.offset = 2 /\ q = Goto(r, "IDLE")
        \/ r.offset = 2 /\ b[2] = FrameIdV2 /\ q = Goto(r, "HEADER_V2_OVER_V1")
        \/ /\ r.offset = 2 /\ b[2] # FrameIdV2 /\ b[1] \in Nat
           /\ q = StartPayload(r, b[1], "PAYLOAD_V1", "CHECKSUM_V1")
    BY <2>3, <2>4, <2>5, HeaderV1Is
  <2>7. ASSUME q = r PROVE q.c_state \in PlainV1States /\ PlainV1Read(b, q)
    BY <2>3, <2>7 DEF PlainV1States, PlainV1Read
  <2>8. ASSUME q = Goto(r, "IDLE") PROVE q.c_state = "IDLE"
    BY <2>3, <2>8, GotoIs DEF ParserStates, Unread
  <2>9. ASSUME r.offset = 2, b[2] = FrameIdV2, q = Goto(r, "HEADER_V2_OVER_V1")
        PROVE  q.c_state \in OverV1States /\ OverV1Read(b, q)
    <3>1. "HEADER_V2_OVER_V1" \in ParserStates
      BY DEF ParserStates, HeaderStates
    <3>2. /\ q.c_state = "HEADER_V2_OVER_V1" /\ q.inBuf = b
          /\ q.checksum1 = XorSum(b) /\ q.checksum2 = 0
      BY <2>3, <2>9, <3>1, GotoIs
    <3>3. b = <<b[1], FrameIdV2>> \o <<>> /\ b[1] \in Byte
      <4>1. Len(b) = 2 /\ b[1] \in Byte /\ b[2] \in Byte
        <5>1. Len(b) = 2 /\ 1 \in 1 .. 2 /\ 2 \in 1 .. 2
          BY <2>5, <2>9
        <5>2. \A i \in 1 .. Len(b) : b[i] \in Byte
          BY <1>2
        <5> QED
          BY <5>1, <5>2
      <4>2. /\ <<b[1], b[2]>> \in Seq(Byte) /\ Len(<<b[1], b[2]>>) = 2
            /\ <<b[1], b[2]>> \o <<>> = <<b[1], b[2]>>
        BY <4>1
      <4>3. b = <<b[1], b[2]>>
        <5>1. \A i \in 1 .. Len(b) : b[i] = <<b[1], b[2]>>[i]
          BY <4>1
        <5> QED
          BY <1>2, <4>1, <4>2, <5>1, SeqEqual
      <4> QED
        BY <2>9, <4>1, <4>2, <4>3
    <3>4. Crc(<<>>) = 0 /\ Len(<<>>) = 0 /\ <<>> \in Seq(Byte)
      BY SumEmpty DEF Crc
    <3>5. BodyRead(<<>>, q, "HEADER_V2_OVER_V1", "PAYLOAD_V2_OVER_V1", "CHECKSUM_V2_OVER_V1")
      BY <3>2, <3>4 DEF BodyRead
    <3> QED
      BY <3>2, <3>3, <3>4, <3>5 DEF OverV1States, OverV1Read
  <2>10. ASSUME r.offset = 2, b[2] # FrameIdV2, b[1] \in Nat,
                q = StartPayload(r, b[1], "PAYLOAD_V1", "CHECKSUM_V1")
         PROVE  q.c_state \in PlainV1States /\ PlainV1Read(b, q)
    <3> DEFINE size == b[1]
    <3>1. /\ q.c_state = IF size > 0 THEN "PAYLOAD_V1" ELSE "CHECKSUM_V1"
          /\ q.offset = 0 /\ q.dataSize = size /\ q.checksum1 = r.checksum1
      <4>1. size \in Nat /\ q = StartPayload(r, size, "PAYLOAD_V1", "CHECKSUM_V1")
        BY <2>10
      <4> HIDE DEF size
      <4> QED
        BY <2>3, <4>1 DEF StartPayload, Ports
    <3>2. Len(b) = 2 /\ size \in Nat /\ q.checksum1 = XorSum(b)
      BY <2>3, <2>5, <2>10, <3>1
    <3>3. ASSUME size > 0 PROVE q.c_state = "PAYLOAD_V1" /\ PlainV1Read(b, q)
      BY <2>10, <3>1, <3>2, <3>3 DEF PlainV1Read
    <3>4. ASSUME ~(size > 0) PROVE q.c_state = "CHECKSUM_V1" /\ PlainV1Read(b, q)
      <4>1. size = 0
        BY <3>2, <3>4
      <4>2. ContentOk(b)
        BY <2>10, <3>2, <4>1 DEF ContentOk, HeaderV1Size
      <4> QED
        BY <3>1, <3>2, <3>4, <4>2 DEF PlainV1Read
    <3> QED
      BY <3>3, <3>4 DEF PlainV1States
  <2> QED
    BY <2>6, <2>7, <2>8, <2>9, <2>10 DEF q, b
<1>5. CASE p.c_state = "PAYLOAD_V1"
  <2> DEFINE r == Sum1(p, c)
  <2>1. /\ Len(cont) = 2 + p.offset /\ cont[1] = p.dataSize /\ cont[2] # FrameIdV2
        /\ p.offset < p.dataSize
    BY <1>5 DEF PlainV1Read, PortOk, PayloadStates
  <2>2. /\ r \in Ports /\ r.c_state = "PAYLOAD_V1" /\ r.offset = p.offset
        /\ r.dataSize = p.dataSize /\ r.checksum1 = XorSum(b)
    <3>1. /\ r \in Ports /\ r.c_state = p.c_state /\ r.offset = p.offset
          /\ r.dataSize = p.dataSize /\ r.checksum1 = XorNext[p.checksum1][c]
      BY <1>1, SumsAre
    <3> HIDE DEF r, b
    <3> QED
      BY <1>2, <1>3, <1>5, <3>1
  <2>3. q = Payload(r, "CHECKSUM_V1")
    BY <1>5, ParsedPayload
  <2> HIDE DEF r, q, b
  <2>4. /\ q.c_state = IF r.offset + 1 = r.dataSize THEN "CHECKSUM_V1" ELSE "PAYLOAD_V1"
        /\ q.offset = r.offset + 1 /\ q.dataSize = r.dataSize /\ q.checksum1 = r.checksum1
    BY <2>2, <2>3, PayloadIs DEF ParserStates, ChecksumStates
  <2>5. /\ Len(b) = 2 + (p.offset + 1) /\ b[1] = p.dataSize /\ b[2] # FrameIdV2
        /\ q.checksum1 = XorSum(b) /\ q.offset = p.offset + 1 /\ q.dataSize = p.dataSize
    <3>1. 1 \in 1 .. Len(cont) /\ 2 \in 1 .. Len(cont)
      BY <1>1, <2>1
    <3>2. Len(b) = 2 + (p.offset + 1)
      BY <1>1, <1>2, <2>1
    <3> QED
      BY <1>2, <2>1, <2>2, <2>4, <3>1, <3>2
  <2>6. ASSUME p.offset + 1 = p.dataSize PROVE q.c_state = "CHECKSUM_V1" /\ PlainV1Read(b, q)
    <3>1. ContentOk(b)
      BY <1>1, <2>5, <2>6 DEF ContentOk, HeaderV1Size
    <3> QED
      BY <2>2, <2>4, <2>5, <2>6, <3>1 DEF PlainV1Read
  <2>7. ASSUME p.offset + 1 # p.dataSize PROVE q.c_state = "PAYLOAD_V1" /\ PlainV1Read(b, q)
    BY <2>2, <2>4, <2>5, <2>7 DEF PlainV1Read
  <2> QED
    BY <2>6, <2>7 DEF PlainV1States, q, b
<1>6. CASE p.c_state = "CHECKSUM_V1"
  <2>1. ContentOk(cont)
    BY <1>6 DEF PlainV1Read
  <2>2. q = Goto(p, IF p.checksum1 = c THEN "COMMAND_RECEIVED" ELSE "IDLE")
    BY <1>6, ParsedChecksum DEF Verified
  <2>3. q.c_state = IF p.checksum1 = c THEN "COMMAND_RECEIVED" ELSE "IDLE"
    BY <1>1, <2>2, GotoIs DEF ParserStates, Unread
  <2> QED
    BY <1>3, <2>1, <2>3
<1> QED
  BY <1>4, <1>5, <1>6 DEF PlainV1States

\* A message of V2 inside one of V1.
LEMMA OverV1Step ==
    ASSUME NEW p, PortOk(p), NEW c \in Byte, NEW cont \in Seq(Byte),
           p.c_state \in OverV1States, OverV1Read(cont, p)
    PROVE  LET q == Parsed(p, c)
           IN  \/ q.c_state = "IDLE"
               \/ q.c_state = "CHECKSUM_V1" /\ PlainV1Read(Append(cont, c), q)
               \/ q.c_state \in OverV1States /\ OverV1Read(Append(cont, c), q)
<1> DEFINE q == Parsed(p, c)
           bb == Append(cont, c)
           H == "HEADER_V2_OVER_V1"
           P == "PAYLOAD_V2_OVER_V1"
           C == "CHECKSUM_V2_OVER_V1"
<1>1. p \in Ports /\ p.offset \in Nat /\ p.dataSize \in Nat
  BY DEF PortOk, Ports
<1>2. H \in ParserStates /\ P \in ParserStates /\ C \in ParserStates /\ P # H /\ C # H /\ C # P
  BY DEF ParserStates, HeaderStates, PayloadStates, ChecksumStates
<1>3. PICK size \in Byte, body \in Seq(Byte) :
         cont = <<size, FrameIdV2>> \o body /\ BodyRead(body, p, H, P, C)
  BY DEF OverV1Read
<1> DEFINE pre == <<size, FrameIdV2>>
           b == Append(body, c)
<1>4. /\ b \in Seq(Byte) /\ Len(b) = Len(body) + 1 /\ Crc(b) = crc8_dvb_s2_table[Crc(body)][c]
      /\ XorSum(bb) = XorNext[XorSum(cont)][c]
  BY AppendProperties, SumsGrow
<1>5. p.checksum2 = Crc(body) /\ p.checksum1 = XorSum(cont)
  BY <1>3 DEF OverV1Read, BodyRead
<1>6. pre \in Seq(Byte) /\ Len(pre) = 2 /\ pre[2] = FrameIdV2
  BY DEF Byte, FrameIdV2
<1> HIDE DEF pre
<1>7. /\ bb \in Seq(Byte) /\ Len(bb) = 2 + Len(body) + 1 /\ bb = pre \o b
      /\ SubSeq(bb, 3, Len(bb) - 1) = body /\ Last(bb) = c /\ bb[2] = FrameIdV2
  <2>1. cont = pre \o body
    BY <1>3 DEF pre
  <2>2. 2 + 1 = 3 /\ 2 \in 1 .. 2
    OBVIOUS
  <2>3. /\ bb \in Seq(Byte) /\ Len(bb) = Len(pre) + Len(body) + 1 /\ bb = pre \o b
        /\ SubSeq(bb, Len(pre) + 1, Len(bb) - 1) = body /\ Last(bb) = c
        /\ \A i \in 1 .. Len(pre) : bb[i] = pre[i]
    <3>1. LET s == Append(pre \o body, c)
          IN  /\ s \in Seq(Byte) /\ Len(s) = Len(pre) + Len(body) + 1
              /\ s = pre \o Append(body, c)
              /\ SubSeq(s, 1, Len(pre)) = pre
              /\ SubSeq(s, Len(pre) + 1, Len(s) - 1) = body
              /\ SubSeq(s, Len(pre) + 1, Len(s)) = Append(body, c)
              /\ Last(s) = c
              /\ \A i \in 1 .. Len(pre) : s[i] = pre[i]
      <4>1. pre \in Seq(Byte) /\ body \in Seq(Byte) /\ c \in Byte
        BY <1>6
      <4> QED
        BY <4>1, CutAgain, Zenon
    <3> QED
      BY <2>1, <3>1
  <2> HIDE DEF bb, b
  <2> QED
    BY <1>6, <2>2, <2>3
<1>8. CASE p.c_state = H
  <2> DEFINE t == Take(p, c)
             u == Sum1(t, c)
             r == Sum2(u, c)
  <2>1. p.inBuf = cont /\ Len(body) < 5 /\ p.offset = Len(cont)
    BY <1>3, <1>8 DEF OverV1Read, BodyRead, PortOk, HeaderStates
  <2>2. /\ t \in Ports /\ t.c_state = H /\ t.offset = p.offset + 1
        /\ t.inBuf = bb /\ t.checksum1 = p.checksum1 /\ t.checksum2 = p.checksum2
    BY <1>1, <1>8, <2>1, TakeIs
  <2>3. /\ r \in Ports /\ r.c_state = H /\ r.offset = p.offset + 1
        /\ r.inBuf = bb /\ r.checksum1 = XorSum(bb) /\ r.checksum2 = Crc(b)
    <3> HIDE DEF t
    <3>1. /\ u \in Ports /\ u.c_state = t.c_state /\ u.offset = t.offset
          /\ u.inBuf = t.inBuf /\ u.checksum1 = XorNext[t.checksum1][c]
          /\ u.checksum2 = t.checksum2
      BY <2>2, SumsAre
    <3> HIDE DEF u
    <3>2. /\ r \in Ports /\ r.c_state = u.c_state /\ r.offset = u.offset
          /\ r.inBuf = u.inBuf /\ r.checksum1 = u.checksum1
          /\ r.checksum2 = crc8_dvb_s2_table[u.checksum2][c]
      BY <3>1, SumsAre
    <3> HIDE DEF r, b, bb
    <3> QED
      BY <1>4, <1>5, <2>2, <3>1, <3>2
  <2>4. q = HeaderV2(r, 3, P, C)
    BY <1>8, ParsedHeader
  <2>5. Len(bb) = Len(cont) + 1
    BY AppendProperties
  <2> HIDE DEF r, q, b, bb
  <2>6. Len(b) <= 5 /\ Len(r.inBuf) = r.offset /\ r.offset = Len(b) + 2
    BY <1>1, <1>4, <1>7, <2>1, <2>3, <2>5
  <2> DEFINE size2 == SizeV2(r.inBuf, 3)
  <2>7. \/ Len(b) < 5 /\ q = r
        \/ q = Goto(r, "IDLE")
        \/ /\ Len(b) = 5 /\ size2 \in Nat /\ size2 = SizeV2(b, 1)
           /\ q = StartPayload(r, size2, P, C)
    <3>1. \/ r.offset < 3 + 4 /\ q = r
          \/ r.offset = 3 + 4 /\ q = Goto(r, "IDLE")
          \/ /\ r.offset = 3 + 4 /\ size2 \in Nat
             /\ q = StartPayload(r, size2, P, C)
      <4>1. r.offset <= 3 + 4 /\ 3 \in {1, 3}
        BY <1>4, <2>6
      <4> QED
        BY <2>3, <2>4, <2>6, <4>1, HeaderV2Is
    <3>2. \A i \in 1 .. 2 + Len(b) : bb[i] = IF i <= 2 THEN pre[i] ELSE b[i - 2]
      BY <1>4, <1>6, <1>7, ConcatProperties
    <3>3. Len(b) = 5 => bb[6] = b[4] /\ bb[7] = b[5]
      BY <3>2
    <3>4. Len(b) = 5 => size2 = SizeV2(b, 1)
      BY <2>3, <3>3 DEF SizeV2
    <3> HIDE DEF size2
    <3> QED
      BY <1>4, <2>6, <3>1, <3>4
  <2> HIDE DEF H, P, C, size2
  <2>8. \/ q.c_state = "IDLE"
        \/ /\ BodyRead(b, q, H, P, C) /\ q.c_state \in {H, P, C} /\ (q.c_state = H => q = r)
           /\ q.checksum1 = r.checksum1
    <3>1. r \in Ports /\ r.c_state = H /\ r.checksum2 = Crc(b) /\ b \in Seq(Byte)
      BY <1>4, <2>3
    <3>2. ASSUME Len(b) < 5, q = r
          PROVE  BodyRead(b, q, H, P, C) /\ q.c_state = H
      BY <1>2, <3>1, <3>2 DEF BodyRead
    <3>3. ASSUME q = Goto(r, "IDLE") PROVE q.c_state = "IDLE"
      BY <3>1, <3>3, GotoIs DEF ParserStates, Unread
    <3>4. ASSUME Len(b) = 5, size2 \in Nat, size2 = SizeV2(b, 1), q = StartPayload(r, size2, P, C)
          PROVE  BodyRead(b, q, H, P, C) /\ q.c_state \in {P, C} /\ q.checksum1 = r.checksum1
      BY <1>2, <3>1, <3>4, BodyStarts
    <3> QED
      BY <1>2, <2>7, <3>2, <3>3, <3>4
  <2>9. ASSUME q.c_state # "IDLE" PROVE q.c_state \in OverV1States /\ OverV1Read(bb, q)
    BY <1>4, <1>7, <2>3, <2>8, <2>9 DEF OverV1Read, OverV1States, H, P, C, pre
  <2> QED
    BY <2>9 DEF q, bb
<1>9. CASE p.c_state = P
  <2> DEFINE u == Sum1(p, c)
             r == Sum2(u, c)
  <2>1. /\ Len(body) = 5 + p.offset /\ SizeV2(body, 1) = p.dataSize /\ p.offset < p.dataSize
    BY <1>3, <1>9 DEF BodyRead, PortOk, PayloadStates
  <2>2. /\ r \in Ports /\ r.c_state = P /\ r.offset = p.offset /\ r.dataSize = p.dataSize
        /\ r.checksum1 = XorSum(bb) /\ r.checksum2 = Crc(b)
    <3>1. /\ u \in Ports /\ u.c_state = p.c_state /\ u.offset = p.offset
          /\ u.dataSize = p.dataSize /\ u.checksum1 = XorNext[p.checksum1][c]
          /\ u.checksum2 = p.checksum2
      BY <1>1, SumsAre
    <3> HIDE DEF u
    <3>2. /\ r \in Ports /\ r.c_state = u.c_state /\ r.offset = u.offset
          /\ r.dataSize = u.dataSize /\ r.checksum1 = u.checksum1
          /\ r.checksum2 = crc8_dvb_s2_table[u.checksum2][c]
      BY <3>1, SumsAre
    <3> HIDE DEF r, b, bb
    <3> QED
      BY <1>4, <1>5, <1>9, <3>1, <3>2
  <2>3. q = Payload(r, C)
    BY <1>9, ParsedPayload
  <2> HIDE DEF r, q, bb
  <2>4. /\ r.offset < r.dataSize /\ r.checksum2 = Crc(Append(body, c))
        /\ Len(body) = 5 + r.offset /\ SizeV2(body, 1) = r.dataSize
    BY <2>1, <2>2
  <2> HIDE DEF H, P, C
  <2>5. BodyRead(Append(body, c), q, H, P, C) /\ q.c_state \in {P, C} /\ q.checksum1 = r.checksum1
    BY <1>2, <2>2, <2>3, <2>4, BodyPayload
  <2> HIDE DEF b
  <2>6. q.c_state \in OverV1States /\ OverV1Read(bb, q)
    BY <1>2, <1>4, <1>7, <2>2, <2>5 DEF OverV1Read, OverV1States, H, P, C, pre, b
  <2> QED
    BY <2>6 DEF q, bb
<1>10. CASE p.c_state = C
  <2> DEFINE u == Sum1(p, c)
  <2>1. Len(body) >= 5 /\ Len(body) = 5 + SizeV2(body, 1)
    BY <1>3, <1>10 DEF BodyRead
  <2>2. u \in Ports /\ u.checksum1 = XorSum(bb)
    <3>1. u \in Ports /\ u.checksum1 = XorNext[p.checksum1][c]
      BY <1>1, SumsAre
    <3> HIDE DEF u, bb
    <3> QED
      BY <1>4, <1>5, <3>1
  <2>3. q = Goto(u, IF p.checksum2 = c THEN "CHECKSUM_V1" ELSE "IDLE")
    BY <1>10, ParsedChecksum DEF Verified
  <2> HIDE DEF q, u, bb
  <2>4. /\ q.c_state = IF p.checksum2 = c THEN "CHECKSUM_V1" ELSE "IDLE"
        /\ q.checksum1 = XorSum(bb)
    <3>1. "CHECKSUM_V1" \in ParserStates /\ "IDLE" \in ParserStates
      BY DEF ParserStates, Unread, ChecksumStates
    <3> QED
      BY <2>2, <2>3, <3>1, GotoIs
  <2>5. ASSUME p.checksum2 = c PROVE ContentOk(bb)
    <3>1. BodyOk(body, c)
      BY <1>5, <2>1, <2>5 DEF BodyOk, HeaderV2Size
    <3>2. Len(bb) > 2
      BY <1>7
    <3>3. BodyOk(SubSeq(bb, 3, Len(bb) - 1), Last(bb))
      BY <1>7, <3>1, Zenon
    <3>4. Len(bb) >= 2
      BY <1>7
    <3> QED
      BY <1>7, <3>2, <3>3, <3>4 DEF ContentOk, HeaderV1Size
  <2>6. ASSUME p.checksum2 = c PROVE q.c_state = "CHECKSUM_V1" /\ PlainV1Read(bb, q)
    BY <2>4, <2>5, <2>6 DEF PlainV1Read
  <2>7. q.c_state = "IDLE" \/ (q.c_state = "CHECKSUM_V1" /\ PlainV1Read(bb, q))
    BY <2>4, <2>6
  <2> QED
    BY <2>7 DEF q, bb
<1> QED
  BY <1>8, <1>9, <1>10 DEF OverV1States

LEMMA AppendConcat ==
    ASSUME NEW pre \in Seq(Byte), NEW mid \in Seq(Byte), NEW c \in Byte
    PROVE  Append(pre \o mid, c) = pre \o Append(mid, c) /\ Append(mid, c) \in Seq(Byte)
<1>1. Append(pre \o mid, c) = pre \o Append(mid, c)
  BY CutAgain, Zenon
<1> QED
  BY <1>1, AppendProperties

LEMMA ShortSeqs ==
    ASSUME NEW x \in Byte, NEW y \in Byte, NEW z \in Byte
    PROVE  /\ Append(<<x>>, y) = <<x, y>>
           /\ Append(<<x, y>>, z) = <<x, y, z>>
           /\ <<x, y, z>> \o <<>> = <<x, y, z>>
<1>1. Append(<<x>>, y) = <<x, y>>
  <2> DEFINE a == Append(<<x>>, y)
  <2>1. <<x>> \in Seq(Byte) /\ Len(<<x>>) = 1 /\ <<x>>[1] = x
    OBVIOUS
  <2>2. a \in Seq(Byte) /\ Len(a) = 2 /\ a[1] = x /\ a[2] = y
    BY <2>1, AppendProperties
  <2>3. <<x, y>> \in Seq(Byte) /\ Len(<<x, y>>) = 2
    OBVIOUS
  <2> HIDE DEF a
  <2>4. \A i \in 1 .. Len(a) : a[i] = <<x, y>>[i]
    BY <2>2
  <2> QED
    BY <2>2, <2>3, <2>4, SeqEqual DEF a
<1>2. Append(<<x, y>>, z) = <<x, y, z>>
  <2> DEFINE a == Append(<<x, y>>, z)
  <2>1. <<x, y>> \in Seq(Byte) /\ Len(<<x, y>>) = 2 /\ <<x, y>>[1] = x /\ <<x, y>>[2] = y
    OBVIOUS
  <2>2. a \in Seq(Byte) /\ Len(a) = 3 /\ a[1] = x /\ a[2] = y /\ a[3] = z
    BY <2>1, AppendProperties
  <2>3. <<x, y, z>> \in Seq(Byte) /\ Len(<<x, y, z>>) = 3
    OBVIOUS
  <2> HIDE DEF a
  <2>4. \A i \in 1 .. Len(a) : a[i] = <<x, y, z>>[i]
    BY <2>2
  <2> QED
    BY <2>2, <2>3, <2>4, SeqEqual DEF a
<1>3. <<x, y, z>> \o <<>> = <<x, y, z>>
  OBVIOUS
<1> QED
  BY <1>1, <1>2, <1>3

LEMMA StartTypes ==
    /\ StartM \in Seq(Byte) /\ Len(StartM) = 3
    /\ StartX \in Seq(Byte) /\ Len(StartX) = 3
    /\ Dollar \in Byte /\ Greater \in Byte /\ {LetterM, LetterX} \subseteq Byte
    /\ StartX # StartM
<1>1. Dollar \in Byte /\ LetterM \in Byte /\ LetterX \in Byte /\ Greater \in Byte
  BY DEF Byte, Dollar, LetterM, LetterX, Greater
<1>2. StartX # StartM
  BY DEF StartX, StartM, LetterX, LetterM
<1> QED
  BY <1>1, <1>2 DEF StartM, StartX

\* The opening bytes followed by the content and the sum make a message.
LEMMA WholeMessage ==
    ASSUME NEW start \in {StartM, StartX}, NEW cont \in Seq(Byte), NEW c \in Byte,
           \/ start = StartM /\ ContentOk(cont) /\ c = XorSum(cont)
           \/ start = StartX /\ BodyOk(cont, c)
    PROVE  WellFormed(Append(start \o cont, c))
<1> DEFINE s == Append(start \o cont, c)
<1>1. start \in Seq(Byte) /\ Len(start) = 3
  BY StartTypes
<1>2. /\ s \in Seq(Byte) /\ Len(s) = Len(start) + Len(cont) + 1
      /\ s = start \o Append(cont, c)
      /\ SubSeq(s, 1, Len(start)) = start
      /\ SubSeq(s, Len(start) + 1, Len(s) - 1) = cont
      /\ SubSeq(s, Len(start) + 1, Len(s)) = Append(cont, c)
      /\ Last(s) = c
      /\ \A i \in 1 .. Len(start) : s[i] = start[i]
  BY <1>1, CutAgain, Zenon
<1> HIDE DEF s
<1>3. /\ Len(s) > 3 /\ SubSeq(s, 1, 3) = start /\ SubSeq(s, 4, Len(s) - 1) = cont
  <2>1. 3 + 1 = 4
    OBVIOUS
  <2> QED
    BY <1>1, <1>2, <2>1
<1>4. CASE start = StartM /\ ContentOk(cont) /\ c = XorSum(cont)
  BY <1>2, <1>3, <1>4 DEF WellFormed, StartM, s
<1>5. CASE start = StartX /\ BodyOk(cont, c)
  BY <1>2, <1>3, <1>5 DEF WellFormed, StartX, s
<1> QED
  BY <1>4, <1>5

\* With the next byte an attempt goes on, is given up or was a message.
LEMMA AttemptStep ==
    ASSUME NEW p, PortOk(p), NEW c \in Byte, NEW b \in Seq(Byte), Attempted(b, p)
    PROVE  LET q == Parsed(p, c)
           IN  \/ q.c_state = "IDLE"
               \/ q.c_state = "COMMAND_RECEIVED" /\ WellFormed(Append(b, c))
               \/ Attempted(Append(b, c), q)
<1> DEFINE q == Parsed(p, c)
           d == Append(b, c)
<1>1. p \in Ports
  BY DEF PortOk
<1>2. {"IDLE", "HEADER_M", "HEADER_X", "HEADER_V1", "HEADER_V2_NATIVE"} \subseteq ParserStates
  BY DEF ParserStates, Unread, HeaderStates
<1>3. CASE p.c_state = "HEADER_START" /\ b = <<Dollar>>
  <2>1. q = Goto(p, IF c = LetterM THEN "HEADER_M" ELSE IF c = LetterX THEN "HEADER_X" ELSE "IDLE")
    BY <1>3, ParsedUnread
  <2> DEFINE state == IF c = LetterM THEN "HEADER_M" ELSE IF c = LetterX THEN "HEADER_X" ELSE "IDLE"
  <2>2. q.c_state = state
    <3>1. state \in ParserStates /\ q = Goto(p, state)
      BY <1>2, <2>1
    <3> HIDE DEF state, q
    <3> QED
      BY <1>1, <3>1, GotoIs
  <2>3. d = <<Dollar, c>>
    <3>1. d = Append(<<Dollar>>, c)
      BY <1>3
    <3> QED
      BY <3>1, StartTypes, ShortSeqs
  <2> HIDE DEF q, d
  <2>4. q.c_state = "IDLE" \/ Attempted(d, q)
    BY <2>2, <2>3 DEF Attempted
  <2> QED
    BY <2>4 DEF q, d
<1>4. ASSUME NEW start \in {StartM, StartX}, NEW letter \in {LetterM, LetterX}, start = <<Dollar, letter, Greater>>,
             b = <<Dollar, letter>>, NEW state \in {"HEADER_V1", "HEADER_V2_NATIVE"},
             q = IF c = Greater THEN StartHeader(p, state) ELSE Goto(p, "IDLE"),
             state = IF start = StartM THEN "HEADER_V1" ELSE "HEADER_V2_NATIVE"
      PROVE  q.c_state = "IDLE" \/ Attempted(d, q)
  <2>1. CASE c # Greater
    <3>1. q = Goto(p, "IDLE") /\ "IDLE" \in ParserStates
      BY <1>2, <1>4, <2>1
    <3> HIDE DEF q
    <3> QED
      BY <1>1, <3>1, GotoIs
  <2>2. CASE c = Greater
    <3>1. /\ q.c_state = state /\ q.inBuf = <<>> /\ q.checksum1 = 0 /\ q.checksum2 = 0
      <4>1. q = StartHeader(p, state) /\ state \in ParserStates
        BY <1>2, <1>4, <2>2
      <4> HIDE DEF q
      <4> QED
        BY <1>1, <4>1, StartHeaderIs
    <3>2. d = start /\ start = start \o <<>> /\ <<>> \in Seq(Byte) /\ Len(<<>>) = 0
      <4>1. /\ Append(<<Dollar, letter>>, Greater) = <<Dollar, letter, Greater>>
            /\ <<Dollar, letter, Greater>> \o <<>> = <<Dollar, letter, Greater>>
        BY <1>4, StartTypes, ShortSeqs
      <4>2. d = Append(<<Dollar, letter>>, Greater)
        BY <1>4, <2>2
      <4> QED
        BY <1>4, <4>1, <4>2
    <3>3. XorSum(<<>>) = 0 /\ Crc(<<>>) = 0
      BY SumEmpty DEF XorSum, Crc
    <3> HIDE DEF q, d
    <3>4. CASE start = StartM
      <4>1. PlainV1Read(<<>>, q) /\ q.c_state = "HEADER_V1"
        BY <1>4, <3>1, <3>3, <3>4 DEF PlainV1Read
      <4> QED
        BY <3>2, <3>4, <4>1 DEF Attempted, PlainV1States
    <3>5. CASE start # StartM
      <4>1. NativeRead(<<>>, q) /\ q.c_state = "HEADER_V2_NATIVE"
        BY <1>4, <3>1, <3>2, <3>3, <3>5 DEF NativeRead, BodyRead
      <4> QED
        BY <3>2, <3>5, <4>1 DEF Attempted, NativeStates
    <3> QED
      BY <3>4, <3>5
  <2> QED
    BY <2>1, <2>2
<1>5. CASE p.c_state = "HEADER_M" /\ b = <<Dollar, LetterM>>
  <2>1. q = IF c = Greater THEN StartHeader(p, "HEADER_V1") ELSE Goto(p, "IDLE")
    BY <1>5, ParsedUnread
  <2> HIDE DEF q, d
  <2>2. q.c_state = "IDLE" \/ Attempted(d, q)
    BY <1>4, <1>5, <2>1 DEF StartM
  <2> QED
    BY <2>2 DEF q, d
<1>6. CASE p.c_state = "HEADER_X" /\ b = <<Dollar, LetterX>>
  <2>1. q = IF c = Greater THEN StartHeader(p, "HEADER_V2_NATIVE") ELSE Goto(p, "IDLE")
    BY <1>6, ParsedUnread
  <2>2. StartX # StartM
    BY StartTypes
  <2> HIDE DEF q, d
  <2>3. q.c_state = "IDLE" \/ Attempted(d, q)
    BY <1>4, <1>6, <2>1, <2>2 DEF StartX
  <2> QED
    BY <2>3 DEF q, d
<1>7. CASE p.c_state \in NativeStates /\ \E body \in Seq(Byte) : b = StartX \o body /\ NativeRead(body, p)
  <2>1. PICK body \in Seq(Byte) : b = StartX \o body /\ NativeRead(body, p)
    BY <1>7
  <2>2. \/ q.c_state = "IDLE"
        \/ q.c_state = "COMMAND_RECEIVED" /\ BodyOk(body, c)
        \/ q.c_state \in NativeStates /\ NativeRead(Append(body, c), q)
    BY <1>7, <2>1, NativeStep
  <2>3. d = StartX \o Append(body, c) /\ Append(body, c) \in Seq(Byte)
    <3>1. d = Append(StartX \o body, c) /\ StartX \in Seq(Byte)
      BY <2>1, StartTypes
    <3> HIDE DEF d
    <3> QED
      BY <3>1, AppendConcat
  <2>4. BodyOk(body, c) => WellFormed(d)
    BY <2>1, WholeMessage
  <2> HIDE DEF q, d
  <2>5. \/ q.c_state = "IDLE"
        \/ q.c_state = "COMMAND_RECEIVED" /\ WellFormed(d)
        \/ Attempted(d, q)
    BY <2>2, <2>3, <2>4 DEF Attempted
  <2> QED
    BY <2>5 DEF q, d
<1>8. CASE p.c_state \in PlainV1States /\ \E cont \in Seq(Byte) : b = StartM \o cont /\ PlainV1Read(cont, p)
  <2>1. PICK cont \in Seq(Byte) : b = StartM \o cont /\ PlainV1Read(cont, p)
    BY <1>8
  <2>2. \/ q.c_state = "IDLE"
        \/ q.c_state = "COMMAND_RECEIVED" /\ ContentOk(cont) /\ c = XorSum(cont)
        \/ q.c_state \in PlainV1States /\ PlainV1Read(Append(cont, c), q)
        \/ q.c_state \in OverV1States /\ OverV1Read(Append(cont, c), q)
    BY <1>8, <2>1, PlainV1Step
  <2>3. d = StartM \o Append(cont, c) /\ Append(cont, c) \in Seq(Byte)
    <3>1. d = Append(StartM \o cont, c) /\ StartM \in Seq(Byte)
      BY <2>1, StartTypes
    <3> HIDE DEF d
    <3> QED
      BY <3>1, AppendConcat
  <2>4. ContentOk(cont) /\ c = XorSum(cont) => WellFormed(d)
    BY <2>1, WholeMessage
  <2> HIDE DEF q, d
  <2>5. \/ q.c_state = "IDLE"
        \/ q.c_state = "COMMAND_RECEIVED" /\ WellFormed(d)
        \/ Attempted(d, q)
    BY <2>2, <2>3, <2>4 DEF Attempted
  <2> QED
    BY <2>5 DEF q, d
<1>9. CASE p.c_state \in OverV1States /\ \E cont \in Seq(Byte) : b = StartM \o cont /\ OverV1Read(cont, p)
  <2>1. PICK cont \in Seq(Byte) : b = StartM \o cont /\ OverV1Read(cont, p)
    BY <1>9
  <2>2. \/ q.c_state = "IDLE"
        \/ q.c_state = "CHECKSUM_V1" /\ PlainV1Read(Append(cont, c), q)
        \/ q.c_state \in OverV1States /\ OverV1Read(Append(cont, c), q)
    BY <1>9, <2>1, OverV1Step
  <2>3. d = StartM \o Append(cont, c) /\ Append(cont, c) \in Seq(Byte)
    <3>1. d = Append(StartM \o cont, c) /\ StartM \in Seq(Byte)
      BY <2>1, StartTypes
    <3> HIDE DEF d
    <3> QED
      BY <3>1, AppendConcat
  <2> HIDE DEF q, d
  <2>4. q.c_state = "IDLE" \/ Attempted(d, q)
    BY <2>2, <2>3 DEF Attempted, PlainV1States
  <2> QED
    BY <2>4 DEF q, d
<1> QED
  BY <1>3, <1>5, <1>6, <1>7, <1>8, <1>9 DEF Attempted

-----------------------------------------------------------------------------
(* What the loop sends.                                                    *)

EndsWhole(f) ==
    Head(f) = Dollar => \E i \in 1 .. Len(f) : WellFormed(SubSeq(f, i, Len(f)))

\* The bytes kept end in the attempt of the parser, unless they begin within
\* the message in which the parser found itself at the start.
KeptFits(p, r, on) ==
    \/ Idle(p)
    \/ on /\ \E junk, b \in Seq(Byte) : r = junk \o b /\ Attempted(b, p)
    \/ on /\ r # <<>> /\ Head(r) # Dollar
    \/ ~on /\ r = <<>> /\ p.c_state \in {"HEADER_START", "HEADER_M", "HEADER_X"}

SentInv ==
    /\ BufInv
    /\ raw \in Seq(Byte) /\ reading \in BOOLEAN
    /\ KeptFits(port, raw, reading)
    /\ forwarded \in Seq(Seq(Byte))
    /\ \A k \in 1 .. Len(forwarded) : EndsWhole(forwarded[k])

\* One byte.
LEMMA KeptStep ==
    ASSUME NEW p, PortOk(p), NEW c \in Byte, NEW r \in Seq(Byte), NEW on \in BOOLEAN,
           KeptFits(p, r, on), ~Refused(p, c), NEW old \in Seq(Byte),
           on => old = r, ~on => old = <<>>
    PROVE  LET q == Parsed(p, c)
           IN  \/ q.c_state = "COMMAND_RECEIVED" /\ EndsWhole(Append(old, c))
               \/ q.c_state # "COMMAND_RECEIVED" /\ KeptFits(q, Append(old, c), TRUE)
<1> DEFINE q == Parsed(p, c)
           d == Append(old, c)
<1>1. d \in Seq(Byte) /\ d # <<>> /\ Len(d) = Len(old) + 1
  BY AppendProperties
<1>2. p \in Ports
  BY DEF PortOk
<1>3. CASE Idle(p)
  <2>1. c = Dollar /\ q = Goto(p, "HEADER_START")
    BY <1>3, ParsedUnread DEF Refused
  <2>2. q.c_state = "HEADER_START"
    BY <1>2, <2>1, GotoIs DEF ParserStates, Unread
  <2>3. d = old \o <<Dollar>> /\ <<Dollar>> \in Seq(Byte)
    BY <2>1, AppendIsConcat
  <2> HIDE DEF q, d
  <2>4. KeptFits(q, d, TRUE)
    BY <2>2, <2>3 DEF KeptFits, Attempted
  <2> QED
    BY <2>2, <2>4 DEF q, d
<1>4. CASE on /\ \E junk, b \in Seq(Byte) : r = junk \o b /\ Attempted(b, p)
  <2>1. PICK junk \in Seq(Byte), b \in Seq(Byte) : r = junk \o b /\ Attempted(b, p)
    BY <1>4
  <2>2. \/ q.c_state = "IDLE"
        \/ q.c_state = "COMMAND_RECEIVED" /\ WellFormed(Append(b, c))
        \/ Attempted(Append(b, c), q)
    BY <2>1, AttemptStep
  <2>3. d = junk \o Append(b, c) /\ Append(b, c) \in Seq(Byte)
        /\ SubSeq(d, Len(junk) + 1, Len(d)) = Append(b, c)
    <3>1. LET s == Append(junk \o b, c)
          IN  /\ s \in Seq(Byte) /\ Len(s) = Len(junk) + Len(b) + 1
              /\ s = junk \o Append(b, c)
              /\ SubSeq(s, 1, Len(junk)) = junk
              /\ SubSeq(s, Len(junk) + 1, Len(s) - 1) = b
              /\ SubSeq(s, Len(junk) + 1, Len(s)) = Append(b, c)
              /\ Last(s) = c
              /\ \A i \in 1 .. Len(junk) : s[i] = junk[i]
      BY CutAgain, Zenon
    <3>2. d = Append(junk \o b, c)
      BY <1>4, <2>1
    <3> HIDE DEF d
    <3> QED
      BY <3>1, <3>2, AppendProperties
  <2>4. Len(junk) + 1 \in 1 .. Len(d)
    <3>1. Len(d) = Len(junk) + Len(Append(b, c)) /\ Len(Append(b, c)) >= 1
      <4>1. Len(Append(b, c)) = Len(b) + 1
        BY AppendProperties
      <4> HIDE DEF d
      <4> QED
        BY <2>3, <4>1, ConcatProperties
    <3> QED
      BY <1>1, <3>1
  <2>5. WellFormed(Append(b, c)) => EndsWhole(d)
    <3> HIDE DEF d
    <3> QED
      BY <2>3, <2>4 DEF EndsWhole
  <2>6. ASSUME q.c_state # "COMMAND_RECEIVED" PROVE KeptFits(q, d, TRUE)
    <3> HIDE DEF d, q
    <3>1. CASE q.c_state = "IDLE"
      BY <3>1 DEF KeptFits, Idle
    <3>2. CASE Attempted(Append(b, c), q)
      BY <2>3, <3>2 DEF KeptFits
    <3> QED
      BY <2>2, <2>6, <3>1, <3>2
  <2>7. q.c_state = "COMMAND_RECEIVED" => WellFormed(Append(b, c))
    <3> HIDE DEF q
    <3> QED
      BY <2>2 DEF Attempted, NativeStates, PlainV1States, OverV1States
  <2> QED
    BY <2>5, <2>6, <2>7
<1>5. CASE on /\ r # <<>> /\ Head(r) # Dollar
  <2>1. d # <<>> /\ Head(d) = Head(r)
    BY <1>5
  <2> HIDE DEF d
  <2> QED
    BY <1>5, <2>1 DEF KeptFits, EndsWhole, d
<1>6. CASE ~on /\ r = <<>> /\ p.c_state \in {"HEADER_START", "HEADER_M", "HEADER_X"}
  <2>1. d = <<c>> /\ d # <<>> /\ Head(d) = c
    BY <1>6
  <2>2. \/ q.c_state = "IDLE"
        \/ q.c_state # "COMMAND_RECEIVED" /\ c # Dollar
    <3>1. \/ q = Goto(p, "IDLE")
          \/ c # Dollar /\ \E s \in {"HEADER_M", "HEADER_X"} : q = Goto(p, s)
          \/ c # Dollar /\ \E s \in {"HEADER_V1", "HEADER_V2_NATIVE"} : q = StartHeader(p, s)
      BY <1>6, ParsedUnread DEF Dollar, LetterM, LetterX, Greater
    <3>2. {"IDLE", "HEADER_M", "HEADER_X", "HEADER_V1", "HEADER_V2_NATIVE"} \subseteq ParserStates
      BY DEF ParserStates, Unread, HeaderStates
    <3> HIDE DEF q
    <3>3. CASE q = Goto(p, "IDLE")
      BY <1>2, <3>2, <3>3, GotoIs
    <3>4. ASSUME NEW s \in {"HEADER_M", "HEADER_X"}, q = Goto(p, s)
          PROVE  q.c_state # "COMMAND_RECEIVED"
      BY <1>2, <3>2, <3>4, GotoIs
    <3>5. ASSUME NEW s \in {"HEADER_V1", "HEADER_V2_NATIVE"}, q = StartHeader(p, s)
          PROVE  q.c_state # "COMMAND_RECEIVED"
      BY <1>2, <3>2, <3>5, StartHeaderIs
    <3> QED
      BY <3>1, <3>3, <3>4, <3>5
  <2> HIDE DEF q, d
  <2>3. q.c_state # "COMMAND_RECEIVED" /\ KeptFits(q, d, TRUE)
    BY <2>1, <2>2 DEF KeptFits, Idle
  <2> QED
    BY <2>3 DEF q, d
<1> QED
  BY <1>3, <1>4, <1>5, <1>6 DEF KeptFits

LEMMA SentNext ==
    ASSUME SentInv, [MspNext]_mspVars
    PROVE  SentInv'
<1>1. BufInv'
  BY BufNext DEF SentInv
<1>2. ASSUME UNCHANGED <<port, reading, raw, forwarded>> PROVE SentInv'
  BY <1>1, <1>2 DEF SentInv, KeptFits, Idle
<1>3. ASSUME ReadByte PROVE SentInv'
  <2> DEFINE c == Head(line)
             q == Parsed(port, c)
             d == Append(Kept, c)
  <2>1. c \in Byte /\ PortOk(port)
    BY <1>3 DEF ReadByte, SentInv, BufInv
  <2>2. /\ port' = q
        /\ raw' = IF Refused(port, c) THEN Kept ELSE d
        /\ reading' = (~Refused(port, c) /\ q.c_state # "COMMAND_RECEIVED")
        /\ forwarded' = IF ~Refused(port, c) /\ q.c_state = "COMMAND_RECEIVED"
                        THEN Append(forwarded, raw') ELSE forwarded
    BY <1>3 DEF ReadByte
  <2>3. Kept \in Seq(Byte) /\ Kept = IF reading THEN raw ELSE <<>>
    BY DEF SentInv, Kept
  <2>4. d \in Seq(Byte)
    BY <2>1, <2>3, AppendProperties
  <2>5. CASE Refused(port, c)
    <3>1. Idle(port) /\ q = port
      BY <2>5, ParsedUnread DEF Refused
    <3>2. /\ port' = port /\ raw' = Kept /\ reading' = FALSE /\ forwarded' = forwarded
      BY <2>2, <2>5, <3>1
    <3> HIDE DEF c, q, d
    <3> QED
      BY <1>1, <2>3, <3>1, <3>2 DEF SentInv, KeptFits, Idle
  <2>6. CASE ~Refused(port, c)
    <3>1. /\ raw' = d
          /\ reading' = (q.c_state # "COMMAND_RECEIVED")
          /\ forwarded' = IF q.c_state = "COMMAND_RECEIVED" THEN Append(forwarded, d) ELSE forwarded
      BY <2>2, <2>6
    <3>2. \/ q.c_state = "COMMAND_RECEIVED" /\ EndsWhole(d)
          \/ q.c_state # "COMMAND_RECEIVED" /\ KeptFits(q, d, TRUE)
      <4> HIDE DEF c
      <4> QED
        BY <2>1, <2>3, <2>6, KeptStep DEF SentInv
    <3> HIDE DEF c, q, d
    <3>3. CASE q.c_state = "COMMAND_RECEIVED"
      <4>1. raw' = d /\ reading' = FALSE /\ forwarded' = Append(forwarded, d) /\ port' = q
        BY <2>2, <3>1, <3>3
      <4>2. EndsWhole(d)
        BY <3>2, <3>3
      <4>3. KeptFits(q, d, FALSE)
        BY <3>3 DEF KeptFits, Idle
      <4>4. /\ forwarded' \in Seq(Seq(Byte))
            /\ \A k \in 1 .. Len(forwarded') : EndsWhole(forwarded'[k])
        <5>1. /\ forwarded \in Seq(Seq(Byte))
              /\ \A k \in 1 .. Len(forwarded) : EndsWhole(forwarded[k])
          BY DEF SentInv
        <5>2. /\ Append(forwarded, d) \in Seq(Seq(Byte))
              /\ Len(Append(forwarded, d)) = Len(forwarded) + 1
              /\ \A k \in 1 .. Len(forwarded) : Append(forwarded, d)[k] = forwarded[k]
              /\ Append(forwarded, d)[Len(forwarded) + 1] = d
          BY <2>4, <5>1, AppendProperties
        <5>3. ASSUME NEW k \in 1 .. Len(forwarded) + 1
              PROVE  EndsWhole(Append(forwarded, d)[k])
          <6>1. CASE k = Len(forwarded) + 1
            BY <4>2, <5>2, <6>1
          <6>2. CASE k # Len(forwarded) + 1
            <7>1. k \in 1 .. Len(forwarded)
              BY <5>1, <6>2
            <7> QED
              BY <5>1, <5>2, <7>1
          <6> QED
            BY <6>1, <6>2
        <5> QED
          BY <4>1, <5>2, <5>3
      <4> QED
        BY <1>1, <2>4, <4>1, <4>3, <4>4 DEF SentInv
    <3>4. CASE q.c_state # "COMMAND_RECEIVED"
      <4>1. raw' = d /\ reading' = TRUE /\ forwarded' = forwarded /\ port' = q
        BY <2>2, <3>1, <3>4
      <4>2. KeptFits(q, d, TRUE)
        BY <3>2, <3>4
      <4> QED
        BY <1>1, <2>4, <4>1, <4>2 DEF SentInv
    <3> QED
      BY <3>3, <3>4
  <2> QED
    BY <2>5, <2>6
<1>4. ASSUME NEW m \in Messages, FcSends(m) PROVE SentInv'
  BY <1>2, <1>4 DEF FcSends
<1>5. ASSUME NEW next, Distort(next) PROVE SentInv'
  BY <1>2, <1>5 DEF Distort
<1>6. ASSUME UNCHANGED mspVars PROVE SentInv'
  BY <1>2, <1>6 DEF mspVars
<1> QED
  BY <1>3, <1>4, <1>5, <1>6 DEF MspNext

LEMMA SentStart == MspInit => SentInv
<1> SUFFICES ASSUME MspInit PROVE SentInv
  OBVIOUS
<1>1. BufInv
  BY BufStart
<1>2. port.c_state \in Unread /\ raw = <<>> /\ reading = FALSE /\ forwarded = <<>>
  BY DEF MspInit
<1>3. KeptFits(port, raw, reading)
  BY <1>2 DEF KeptFits, Unread, Idle
<1>4. /\ raw \in Seq(Byte) /\ reading \in BOOLEAN /\ forwarded \in Seq(Seq(Byte))
      /\ Len(forwarded) = 0
  <2>1. <<>> \in Seq(Byte) /\ <<>> \in Seq(Seq(Byte)) /\ Len(<<>>) = 0 /\ FALSE \in BOOLEAN
    OBVIOUS
  <2> QED
    BY <1>2, <2>1, Zenon
<1>5. \A k \in 1 .. Len(forwarded) : EndsWhole(forwarded[k])
  BY <1>4
<1> QED
  BY <1>1, <1>3, <1>4, <1>5 DEF SentInv

\* What the loop sends to the proxy ends in an entire message of the protocol,
\* for any noise, any number of messages and every size of inBuf
\* (control_main_air.c:532).
THEOREM MspSendsWholeMessages == MspSpec => []WholeMessagesOnly
<1>1. SentInv => WholeMessagesOnly
  BY DEF SentInv, WholeMessagesOnly, EndsWhole
<1> QED
  BY <1>1, SentStart, SentNext, PTL DEF MspSpec

-----------------------------------------------------------------------------
(* A stream without noise.                                                 *)

Begins(a, b) == Len(a) <= Len(b) /\ \A i \in 1 .. Len(a) : a[i] = b[i]

\* Messages the parser has room for.
GoodBody(body) ==
    body \in Seq(Byte) /\ BodyOk(body, Crc(body)) /\ SizeV2(body, 1) <= InBufSize
GoodPlain(cont) ==
    /\ cont \in Seq(Byte) /\ Len(cont) >= 2 /\ cont[2] # FrameIdV2
    /\ Len(cont) = 2 + cont[1] /\ cont[1] <= InBufSize
GoodOver(cont) ==
    \E size \in Byte, body \in Seq(Byte) :
        /\ GoodBody(body) /\ 6 <= size /\ size <= InBufSize
        /\ cont = Append(<<size, FrameIdV2>> \o body, Crc(body))
GoodMessage(m) ==
    \/ \E body \in Seq(Byte) : GoodBody(body) /\ m = Append(StartX \o body, Crc(body))
    \/ \E cont \in Seq(Byte) : /\ GoodPlain(cont) \/ GoodOver(cont)
                               /\ m = Append(StartM \o cont, XorSum(cont))

\* What stands where.
LEMMA PartsAt ==
    ASSUME NEW pre \in Seq(Byte), NEW mid \in Seq(Byte), NEW c \in Byte
    PROVE  LET s == Append(pre \o mid, c)
           IN  /\ s \in Seq(Byte) /\ Len(s) = Len(pre) + Len(mid) + 1
               /\ \A i \in 1 .. Len(pre) : s[i] = pre[i]
               /\ \A i \in 1 .. Len(mid) : s[Len(pre) + i] = mid[i]
               /\ s[Len(pre) + Len(mid) + 1] = c
<1> DEFINE b == pre \o mid
           s == Append(b, c)
           p == Len(pre)
           m == Len(mid)
<1>1. /\ b \in Seq(Byte) /\ Len(b) = p + m /\ p \in Nat /\ m \in Nat
      /\ \A i \in 1 .. p + m : b[i] = IF i <= p THEN pre[i] ELSE mid[i - p]
  BY ConcatProperties
<1> HIDE DEF b
<1>2. /\ s \in Seq(Byte) /\ Len(s) = p + m + 1 /\ s[p + m + 1] = c
      /\ \A i \in 1 .. p + m : s[i] = b[i]
  BY <1>1, AppendProperties
<1> HIDE DEF s
<1>3. \A i \in 1 .. p : i \in 1 .. p + m /\ i <= p
  BY <1>1
<1>4. \A i \in 1 .. m : p + i \in 1 .. p + m /\ ~(p + i <= p) /\ (p + i) - p = i
  BY <1>1
<1>5. \A i \in 1 .. p : s[i] = pre[i]
  BY <1>1, <1>2, <1>3
<1>6. \A i \in 1 .. m : s[p + i] = mid[i]
  BY <1>1, <1>2, <1>4
<1> QED
  BY <1>2, <1>5, <1>6 DEF s, b

LEMMA SameSize ==
    ASSUME NEW s \in Seq(Byte), NEW t \in Seq(Byte), Len(s) >= 5, Len(t) >= 5,
           s[4] = t[4], s[5] = t[5]
    PROVE  SizeV2(s, 1) = SizeV2(t, 1) /\ SizeV2(s, 1) \in Nat
BY SizeType DEF SizeV2

\* A header whose size fits is not given up.
LEMMA CleanHeader ==
    ASSUME NEW r \in Ports, NEW first \in {1, 3}, Len(r.inBuf) = r.offset, r.offset <= first + 4,
           r.offset = first + 4 => SizeV2(r.inBuf, first) <= InBufSize,
           NEW payload \in ParserStates, NEW checksum \in ParserStates
    PROVE  HeaderV2(r, first, payload, checksum).c_state \in {r.c_state, payload, checksum}
<1> DEFINE q == HeaderV2(r, first, payload, checksum)
           size == SizeV2(r.inBuf, first)
<1>1. \/ r.offset < first + 4 /\ q = r
      \/ r.offset = first + 4 /\ ~(size <= InBufSize) /\ q = Goto(r, "IDLE")
      \/ /\ r.offset = first + 4 /\ size \in Nat /\ size <= InBufSize
         /\ q = StartPayload(r, size, payload, checksum)
  BY HeaderV2Is
<1>2. ASSUME size \in Nat, q = StartPayload(r, size, payload, checksum)
      PROVE  q.c_state \in {payload, checksum}
  <2> HIDE DEF q, size
  <2> QED
    BY <1>2 DEF StartPayload, Ports
<1>3. q = r \/ (size \in Nat /\ q = StartPayload(r, size, payload, checksum))
  BY <1>1
<1> HIDE DEF q, size
<1> QED
  BY <1>2, <1>3 DEF q

\* The bytes of a message of V2, one by one.
LEMMA CleanNative ==
    ASSUME NEW p, PortOk(p), p.c_state \in NativeStates, NEW bp \in Seq(Byte), NativeRead(bp, p),
           NEW body \in Seq(Byte), GoodBody(body), Begins(bp, body), NEW c \in Byte,
           Len(bp) = Len(body) => c = Crc(body), Len(bp) < Len(body) => c = body[Len(bp) + 1]
    PROVE  LET q == Parsed(p, c)
           IN  /\ q.c_state # "IDLE"
               /\ q.c_state = "COMMAND_RECEIVED" <=> Len(bp) = Len(body)
<1> DEFINE q == Parsed(p, c)
           H == "HEADER_V2_NATIVE"
           P == "PAYLOAD_V2_NATIVE"
           C == "CHECKSUM_V2_NATIVE"
<1>1. p \in Ports /\ p.offset \in Nat /\ p.dataSize \in Nat /\ Len(bp) \in Nat /\ Len(body) \in Nat
  BY DEF PortOk, Ports
<1>2. H \in ParserStates /\ P \in ParserStates /\ C \in ParserStates
  BY DEF ParserStates, HeaderStates, PayloadStates, ChecksumStates
<1>3. /\ Len(body) >= 5 /\ Len(body) = 5 + SizeV2(body, 1) /\ SizeV2(body, 1) <= InBufSize
      /\ Len(bp) <= Len(body) /\ \A i \in 1 .. Len(bp) : bp[i] = body[i]
  BY DEF GoodBody, BodyOk, HeaderV2Size, Begins
<1>4. ASSUME Len(bp) >= 5 PROVE SizeV2(bp, 1) = SizeV2(body, 1)
  <2>1. bp[4] = body[4] /\ bp[5] = body[5]
    BY <1>1, <1>3, <1>4
  <2> QED
    BY <1>3, <1>4, <2>1, SameSize
<1>5. CASE p.c_state = H
  <2> DEFINE t == Take(p, c)
             r == Sum2(t, c)
             b == Append(bp, c)
  <2>1. p.inBuf = bp /\ Len(bp) < 5 /\ p.offset = Len(bp)
    BY <1>5 DEF NativeRead, BodyRead, PortOk, HeaderStates
  <2>2. t \in Ports /\ t.c_state = H /\ t.offset = p.offset + 1 /\ t.inBuf = b
    BY <1>1, <1>5, <2>1, TakeIs
  <2>3. r \in Ports /\ r.c_state = H /\ r.offset = p.offset + 1 /\ r.inBuf = b
    <3> HIDE DEF t
    <3>1. r \in Ports /\ r.c_state = t.c_state /\ r.offset = t.offset /\ r.inBuf = t.inBuf
      BY <2>2, SumsAre
    <3> HIDE DEF r
    <3> QED
      BY <2>2, <3>1
  <2>4. q = HeaderV2(r, 1, P, C)
    BY <1>5, ParsedHeader
  <2>5. /\ b \in Seq(Byte) /\ Len(b) = Len(bp) + 1 /\ b[Len(bp) + 1] = c
        /\ \A i \in 1 .. Len(bp) : b[i] = bp[i]
    BY AppendProperties
  <2> HIDE DEF r, b, q
  <2>6. ASSUME r.offset = 1 + 4 PROVE SizeV2(r.inBuf, 1) <= InBufSize
    <3>1. Len(bp) = 4 /\ Len(b) = 5 /\ 4 + 1 = 5
      <4>1. p.offset + 1 = 1 + 4
        BY <2>3, <2>6
      <4>2. Len(bp) = 4
        <5>1. p.offset = 4
          BY <1>1, <4>1
        <5> QED
          BY <2>1, <5>1
      <4> QED
        BY <2>5, <4>2
    <3>2. b[4] = body[4] /\ b[5] = body[5]
      BY <1>3, <2>5, <3>1
    <3>3. SizeV2(b, 1) = SizeV2(body, 1)
      BY <1>3, <2>5, <3>1, <3>2, SameSize
    <3> QED
      BY <1>3, <2>3, <3>3
  <2>7. Len(r.inBuf) = r.offset /\ r.offset <= 1 + 4
    BY <1>1, <2>1, <2>3, <2>5
  <2>8. q.c_state \in {H, P, C}
    BY <1>2, <2>3, <2>4, <2>6, <2>7, CleanHeader
  <2>9. Len(bp) # Len(body)
    BY <1>1, <1>3, <2>1
  <2> QED
    BY <2>8, <2>9 DEF q
<1>6. CASE p.c_state = P
  <2> DEFINE r == Sum2(p, c)
  <2>1. Len(bp) = 5 + p.offset /\ SizeV2(bp, 1) = p.dataSize /\ p.offset < p.dataSize
    BY <1>6 DEF NativeRead, BodyRead, PortOk, PayloadStates
  <2>2. r \in Ports /\ r.c_state = P
    BY <1>1, <1>6, SumsAre
  <2>3. q = Payload(r, C)
    BY <1>6, ParsedPayload
  <2> HIDE DEF r, q
  <2>4. q.c_state \in {P, C}
    BY <1>2, <2>2, <2>3, PayloadIs
  <2>5. Len(bp) # Len(body)
    BY <1>1, <1>3, <1>4, <2>1
  <2> QED
    BY <2>4, <2>5 DEF q
<1>7. CASE p.c_state = C
  <2>1. Len(bp) >= 5 /\ Len(bp) = 5 + SizeV2(bp, 1) /\ p.checksum2 = Crc(bp)
    BY <1>7 DEF NativeRead, BodyRead
  <2>2. Len(bp) = Len(body)
    BY <1>3, <1>4, <2>1
  <2>3. bp = body
    BY <1>3, <2>2, SeqEqual
  <2>4. q = Goto(p, IF p.checksum2 = c THEN "COMMAND_RECEIVED" ELSE "IDLE")
    BY <1>7, ParsedChecksum DEF Verified
  <2>5. p.checksum2 = c
    BY <2>1, <2>2, <2>3
  <2>6. q.c_state = "COMMAND_RECEIVED"
    BY <1>1, <2>4, <2>5, GotoIs DEF ParserStates, Unread
  <2> QED
    BY <2>2, <2>6
<1> QED
  BY <1>5, <1>6, <1>7 DEF NativeStates

\* A message of V1 that carries no other.
LEMMA CleanPlain ==
    ASSUME NEW p, PortOk(p), p.c_state \in PlainV1States, NEW cp \in Seq(Byte), PlainV1Read(cp, p),
           NEW cont \in Seq(Byte), GoodPlain(cont), Begins(cp, cont), NEW c \in Byte,
           Len(cp) = Len(cont) => c = XorSum(cont), Len(cp) < Len(cont) => c = cont[Len(cp) + 1]
    PROVE  LET q == Parsed(p, c)
           IN  /\ q.c_state # "IDLE"
               /\ q.c_state = "COMMAND_RECEIVED" <=> Len(cp) = Len(cont)
<1> DEFINE q == Parsed(p, c)
<1>1. p \in Ports /\ p.offset \in Nat /\ p.dataSize \in Nat /\ Len(cp) \in Nat /\ Len(cont) \in Nat
  BY DEF PortOk, Ports
<1>2. /\ Len(cont) >= 2 /\ cont[2] # FrameIdV2 /\ Len(cont) = 2 + cont[1] /\ cont[1] <= InBufSize
      /\ Len(cp) <= Len(cont) /\ \A i \in 1 .. Len(cp) : cp[i] = cont[i]
  BY DEF GoodPlain, Begins
<1>3. ASSUME Len(cp) >= 2 PROVE cp[1] = cont[1] /\ cp[2] = cont[2]
  BY <1>1, <1>2, <1>3
<1>4. cont[1] \in Nat
  <2>1. cont[1] \in Byte
    BY <1>2
  <2> QED
    BY <2>1, ByteFacts
<1>5. CASE p.c_state = "HEADER_V1"
  <2> DEFINE t == Take(p, c)
             r == Sum1(t, c)
             b == Append(cp, c)
  <2>1. p.inBuf = cp /\ Len(cp) < 2 /\ p.offset = Len(cp)
    BY <1>5 DEF PlainV1Read, PortOk, HeaderStates
  <2>2. t \in Ports /\ t.c_state = "HEADER_V1" /\ t.offset = p.offset + 1 /\ t.inBuf = b
    BY <1>1, <1>5, <2>1, TakeIs
  <2>3. r \in Ports /\ r.c_state = "HEADER_V1" /\ r.offset = p.offset + 1 /\ r.inBuf = b
    <3> HIDE DEF t
    <3>1. r \in Ports /\ r.c_state = t.c_state /\ r.offset = t.offset /\ r.inBuf = t.inBuf
      BY <2>2, SumsAre
    <3> HIDE DEF r
    <3> QED
      BY <2>2, <3>1
  <2>4. q = HeaderV1(r)
    BY <1>5, ParsedHeader
  <2>5. /\ b \in Seq(Byte) /\ Len(b) = Len(cp) + 1 /\ b[Len(cp) + 1] = c
        /\ \A i \in 1 .. Len(cp) : b[i] = cp[i]
    BY AppendProperties
  <2> HIDE DEF r, b, q
  <2>6. Len(r.inBuf) = r.offset /\ r.offset \in 1 .. 2
    BY <1>1, <2>1, <2>3, <2>5
  <2>7. \/ r.offset = 1 /\ q = r
        \/ /\ r.offset = 2 /\ q = Goto(r, "IDLE")
           /\ ~(b[1] <= InBufSize) \/ (b[2] = FrameIdV2 /\ ~(b[1] >= 6))
        \/ r.offset = 2 /\ b[2] = FrameIdV2 /\ q = Goto(r, "HEADER_V2_OVER_V1")
        \/ /\ r.offset = 2 /\ b[2] # FrameIdV2 /\ b[1] \in Nat
           /\ q = StartPayload(r, b[1], "PAYLOAD_V1", "CHECKSUM_V1")
    BY <2>3, <2>4, <2>6, HeaderV1Is
  <2>8. ASSUME r.offset = 2 PROVE b[1] = cont[1] /\ b[2] = cont[2]
    <3>1. p.offset + 1 = 2
      BY <2>3, <2>8
    <3>2. Len(cp) = 1 /\ 1 + 1 = 2
      <4>1. p.offset = 1
        BY <1>1, <3>1
      <4> QED
        BY <2>1, <4>1
    <3>3. b[1] = cp[1] /\ cp[1] = cont[1]
      BY <1>2, <2>5, <3>2
    <3>4. b[2] = c /\ c = cont[2]
      BY <1>2, <2>5, <3>2
    <3> QED
      BY <3>3, <3>4
  <2>9. q.c_state \in {"HEADER_V1", "PAYLOAD_V1", "CHECKSUM_V1"}
    <3>1. \/ q = r
          \/ q = StartPayload(r, cont[1], "PAYLOAD_V1", "CHECKSUM_V1")
      BY <1>2, <2>7, <2>8
    <3>2. ASSUME q = StartPayload(r, cont[1], "PAYLOAD_V1", "CHECKSUM_V1")
          PROVE  q.c_state \in {"PAYLOAD_V1", "CHECKSUM_V1"}
      BY <1>4, <2>3, <3>2 DEF StartPayload, Ports
    <3> QED
      BY <2>3, <3>1, <3>2
  <2>10. Len(cp) # Len(cont)
    BY <1>1, <1>2, <2>1
  <2> QED
    BY <2>9, <2>10 DEF q
<1>6. CASE p.c_state = "PAYLOAD_V1"
  <2> DEFINE r == Sum1(p, c)
  <2>1. Len(cp) = 2 + p.offset /\ cp[1] = p.dataSize /\ p.offset < p.dataSize
    BY <1>6 DEF PlainV1Read, PortOk, PayloadStates
  <2>2. r \in Ports /\ r.c_state = "PAYLOAD_V1"
    BY <1>1, <1>6, SumsAre
  <2>3. q = Payload(r, "CHECKSUM_V1")
    BY <1>6, ParsedPayload
  <2> HIDE DEF r, q
  <2>4. q.c_state \in {"PAYLOAD_V1", "CHECKSUM_V1"}
    BY <2>2, <2>3, PayloadIs DEF ParserStates, ChecksumStates
  <2>5. Len(cp) # Len(cont)
    BY <1>1, <1>2, <1>3, <2>1
  <2> QED
    BY <2>4, <2>5 DEF q
<1>7. CASE p.c_state = "CHECKSUM_V1"
  <2>1. ContentOk(cp) /\ p.checksum1 = XorSum(cp)
    BY <1>7 DEF PlainV1Read
  <2>2. Len(cp) >= 2
    BY <2>1 DEF ContentOk, HeaderV1Size
  <2>3. Len(cp) = Len(cont)
    BY <1>2, <1>3, <2>1, <2>2 DEF ContentOk, HeaderV1Size
  <2>4. cp = cont
    BY <1>2, <2>3, SeqEqual
  <2>5. q = Goto(p, IF p.checksum1 = c THEN "COMMAND_RECEIVED" ELSE "IDLE")
    BY <1>7, ParsedChecksum DEF Verified
  <2>6. p.checksum1 = c
    BY <2>1, <2>3, <2>4
  <2>7. q.c_state = "COMMAND_RECEIVED"
    BY <1>1, <2>5, <2>6, GotoIs DEF ParserStates, Unread
  <2> QED
    BY <2>3, <2>7
<1> QED
  BY <1>5, <1>6, <1>7 DEF PlainV1States

\* One that carries a message of V2 is in the states of both.
\* A message of V1 with one of V2 inside.
Wraps(cont, body) ==
    /\ Len(cont) = 3 + Len(body) /\ cont[2] = FrameIdV2
    /\ \A i \in 1 .. Len(body) : cont[2 + i] = body[i]

LEMMA CleanOuter ==
    ASSUME NEW p, PortOk(p), p.c_state \in PlainV1States, NEW cp \in Seq(Byte), PlainV1Read(cp, p),
           NEW body \in Seq(Byte), GoodBody(body), NEW cont \in Seq(Byte),
           Wraps(cont, body), 6 <= cont[1], cont[1] <= InBufSize, Begins(cp, cont), NEW c \in Byte,
           Len(cp) = Len(cont) => c = XorSum(cont), Len(cp) < Len(cont) => c = cont[Len(cp) + 1]
    PROVE  LET q == Parsed(p, c)
           IN  /\ q.c_state # "IDLE"
               /\ q.c_state = "COMMAND_RECEIVED" <=> Len(cp) = Len(cont)
<1> DEFINE q == Parsed(p, c)
<1>0. /\ Len(cont) = 3 + Len(body) /\ cont[2] = FrameIdV2
      /\ \A i \in 1 .. Len(body) : cont[2 + i] = body[i]
  BY DEF Wraps
<1> USE <1>0
<1>1. p \in Ports /\ p.offset \in Nat /\ p.dataSize \in Nat /\ Len(cp) \in Nat /\ Len(cont) \in Nat
      /\ Len(body) \in Nat
  BY DEF PortOk, Ports
<1>2. /\ Len(body) >= 5 /\ Len(body) = 5 + SizeV2(body, 1)
      /\ Len(cp) <= Len(cont) /\ \A i \in 1 .. Len(cp) : cp[i] = cont[i]
  BY DEF GoodBody, BodyOk, HeaderV2Size, Begins
<1>3. ASSUME Len(cp) >= 2 PROVE cp[1] = cont[1] /\ cp[2] = cont[2]
  BY <1>1, <1>2, <1>3
<1>4. CASE p.c_state = "HEADER_V1"
  <2> DEFINE t == Take(p, c)
             r == Sum1(t, c)
             b == Append(cp, c)
  <2>1. p.inBuf = cp /\ Len(cp) < 2 /\ p.offset = Len(cp)
    BY <1>4 DEF PlainV1Read, PortOk, HeaderStates
  <2>2. t \in Ports /\ t.c_state = "HEADER_V1" /\ t.offset = p.offset + 1 /\ t.inBuf = b
    BY <1>1, <1>4, <2>1, TakeIs
  <2>3. r \in Ports /\ r.c_state = "HEADER_V1" /\ r.offset = p.offset + 1 /\ r.inBuf = b
    <3> HIDE DEF t
    <3>1. r \in Ports /\ r.c_state = t.c_state /\ r.offset = t.offset /\ r.inBuf = t.inBuf
      BY <2>2, SumsAre
    <3> HIDE DEF r
    <3> QED
      BY <2>2, <3>1
  <2>4. q = HeaderV1(r)
    BY <1>4, ParsedHeader
  <2>5. /\ b \in Seq(Byte) /\ Len(b) = Len(cp) + 1 /\ b[Len(cp) + 1] = c
        /\ \A i \in 1 .. Len(cp) : b[i] = cp[i]
    BY AppendProperties
  <2> HIDE DEF r, b, q
  <2>6. Len(r.inBuf) = r.offset /\ r.offset \in 1 .. 2
    BY <1>1, <2>1, <2>3, <2>5
  <2>7. \/ r.offset = 1 /\ q = r
        \/ /\ r.offset = 2 /\ q = Goto(r, "IDLE")
           /\ ~(b[1] <= InBufSize) \/ (b[2] = FrameIdV2 /\ ~(b[1] >= 6))
        \/ r.offset = 2 /\ b[2] = FrameIdV2 /\ q = Goto(r, "HEADER_V2_OVER_V1")
        \/ /\ r.offset = 2 /\ b[2] # FrameIdV2 /\ b[1] \in Nat
           /\ q = StartPayload(r, b[1], "PAYLOAD_V1", "CHECKSUM_V1")
    BY <2>3, <2>4, <2>6, HeaderV1Is
  <2>8. ASSUME r.offset = 2 PROVE b[1] = cont[1] /\ b[2] = FrameIdV2
    <3>1. p.offset + 1 = 2
      BY <2>3, <2>8
    <3>2. Len(cp) = 1 /\ 1 + 1 = 2
      <4>1. p.offset = 1
        BY <1>1, <3>1
      <4> QED
        BY <2>1, <4>1
    <3>3. b[1] = cp[1] /\ cp[1] = cont[1]
      BY <1>2, <2>5, <3>2
    <3>4. b[2] = c /\ c = cont[2]
      BY <1>1, <1>2, <2>5, <3>2
    <3> QED
      BY <3>3, <3>4
  <2>9. q = r \/ q = Goto(r, "HEADER_V2_OVER_V1")
    <3>1. cont[1] \in Nat
      <4>1. 1 \in 1 .. Len(cont)
        BY <1>1
      <4>2. cont[1] \in Byte
        BY <4>1, ElementOfSeq
      <4> QED
        BY <4>2, ByteFacts
    <3> QED
      BY <2>7, <2>8, <3>1
  <2>10. q.c_state \in {"HEADER_V1", "HEADER_V2_OVER_V1"}
    <3>1. "HEADER_V2_OVER_V1" \in ParserStates
      BY DEF ParserStates, HeaderStates
    <3> QED
      BY <2>3, <2>9, <3>1, GotoIs
  <2>11. Len(cp) # Len(cont)
    BY <1>1, <1>2, <2>1
  <2> QED
    BY <2>10, <2>11 DEF q
<1>5. CASE p.c_state = "PAYLOAD_V1"
  <2>1. Len(cp) = 2 + p.offset /\ cp[2] # FrameIdV2
    BY <1>5 DEF PlainV1Read
  <2> QED
    BY <1>1, <1>3, <2>1
<1>6. CASE p.c_state = "CHECKSUM_V1"
  <2>1. ContentOk(cp) /\ p.checksum1 = XorSum(cp)
    BY <1>6 DEF PlainV1Read
  <2> DEFINE inner == SubSeq(cp, 3, Len(cp) - 1)
  <2>2. Len(cp) >= 2 /\ Len(cp) > 2 /\ BodyOk(inner, Last(cp))
    BY <1>3, <2>1 DEF ContentOk, HeaderV1Size
  <2>3. /\ inner \in Seq(Byte) /\ Len(inner) = Len(cp) - 3
        /\ \A i \in 1 .. Len(cp) - 3 : inner[i] = cp[2 + i]
    <3>1. 3 \in Int /\ Len(cp) - 1 \in Int /\ \A i \in 3 .. Len(cp) - 1 : cp[i] \in Byte
      BY <1>1
    <3>2. /\ inner \in Seq(Byte)
          /\ Len(inner) = IF 3 <= Len(cp) - 1 THEN (Len(cp) - 1) - 3 + 1 ELSE 0
          /\ \A i \in 1 .. (Len(cp) - 1) - 3 + 1 : inner[i] = cp[3 + i - 1]
      BY <3>1, SubSeqProperties
    <3>3. (Len(cp) - 1) - 3 + 1 = Len(cp) - 3 /\ (~(3 <= Len(cp) - 1) => Len(cp) - 3 = 0)
      <4>1. \A n \in Nat : n > 2 => (n - 1) - 3 + 1 = n - 3 /\ (~(3 <= n - 1) => n - 3 = 0)
        OBVIOUS
      <4>2. Len(cp) \in Nat /\ Len(cp) > 2
        BY <1>1, <2>2
      <4> HIDE DEF inner
      <4> QED
        BY <4>1, <4>2
    <3>4. \A i \in 1 .. Len(cp) - 3 : 3 + i - 1 = 2 + i
      BY <1>1
    <3> HIDE DEF inner
    <3> QED
      BY <3>2, <3>3, <3>4
  <2> HIDE DEF inner
  <2>4. Len(inner) >= 5 /\ Len(inner) = 5 + SizeV2(inner, 1)
    BY <2>2 DEF BodyOk, HeaderV2Size
  <2>5. SizeV2(inner, 1) = SizeV2(body, 1)
    <3>1. Len(cp) >= 8
      BY <1>1, <2>3, <2>4
    <3>2. inner[4] = cp[6] /\ inner[5] = cp[7] /\ cp[6] = cont[6] /\ cp[7] = cont[7]
      BY <1>1, <1>2, <2>3, <3>1
    <3>3. cont[2 + 4] = body[4] /\ cont[2 + 5] = body[5]
      BY <1>1, <1>2
    <3>4. inner[4] = body[4] /\ inner[5] = body[5]
      BY <3>2, <3>3
    <3> QED
      BY <1>2, <2>3, <2>4, <3>4, SameSize
  <2>6. Len(cp) = Len(cont)
    BY <1>1, <1>2, <2>3, <2>4, <2>5
  <2>7. cp = cont
    BY <1>2, <2>6, SeqEqual
  <2>8. q = Goto(p, IF p.checksum1 = c THEN "COMMAND_RECEIVED" ELSE "IDLE")
    BY <1>6, ParsedChecksum DEF Verified
  <2>9. p.checksum1 = c
    BY <2>1, <2>6, <2>7
  <2>10. q.c_state = "COMMAND_RECEIVED"
    BY <1>1, <2>8, <2>9, GotoIs DEF ParserStates, Unread
  <2> QED
    BY <2>6, <2>10
<1> QED
  BY <1>4, <1>5, <1>6 DEF PlainV1States

LEMMA CleanInner ==
    ASSUME NEW p, PortOk(p), p.c_state \in OverV1States, NEW cp \in Seq(Byte), OverV1Read(cp, p),
           NEW body \in Seq(Byte), GoodBody(body),
           NEW cont \in Seq(Byte), Len(cont) = 3 + Len(body), cont[3 + Len(body)] = Crc(body),
           \A i \in 1 .. Len(body) : cont[2 + i] = body[i], Begins(cp, cont), NEW c \in Byte,
           Len(cp) < Len(cont) => c = cont[Len(cp) + 1]
    PROVE  /\ Parsed(p, c).c_state \notin {"IDLE", "COMMAND_RECEIVED"}
           /\ Len(cp) # Len(cont)
<1> DEFINE q == Parsed(p, c)
           H == "HEADER_V2_OVER_V1"
           P == "PAYLOAD_V2_OVER_V1"
           C == "CHECKSUM_V2_OVER_V1"
<1>1. PICK sz \in Byte, bp \in Seq(Byte) :
         cp = <<sz, FrameIdV2>> \o bp /\ BodyRead(bp, p, H, P, C)
  BY DEF OverV1Read
<1>2. p \in Ports /\ p.offset \in Nat /\ p.dataSize \in Nat /\ Len(cp) \in Nat /\ Len(cont) \in Nat
      /\ Len(body) \in Nat /\ Len(bp) \in Nat
  BY DEF PortOk, Ports
<1>3. H \in ParserStates /\ P \in ParserStates /\ C \in ParserStates
  BY DEF ParserStates, HeaderStates, PayloadStates, ChecksumStates
<1>4. /\ Len(body) >= 5 /\ Len(body) = 5 + SizeV2(body, 1) /\ SizeV2(body, 1) <= InBufSize
      /\ Len(cp) <= Len(cont) /\ \A i \in 1 .. Len(cp) : cp[i] = cont[i]
  BY DEF GoodBody, BodyOk, HeaderV2Size, Begins
<1>5. Len(cp) = 2 + Len(bp) /\ \A i \in 1 .. Len(bp) : bp[i] = cp[2 + i]
  <2> DEFINE pre == <<sz, FrameIdV2>>
  <2>1. pre \in Seq(Byte) /\ Len(pre) = 2
    BY DEF FrameIdV2, Byte
  <2> HIDE DEF pre
  <2>2. /\ Len(cp) = 2 + Len(bp)
        /\ \A i \in 1 .. 2 + Len(bp) : cp[i] = IF i <= 2 THEN pre[i] ELSE bp[i - 2]
    BY <1>1, <2>1, ConcatProperties DEF pre
  <2>3. \A i \in 1 .. Len(bp) : 2 + i \in 1 .. 2 + Len(bp) /\ ~(2 + i <= 2) /\ (2 + i) - 2 = i
    BY <1>2
  <2> QED
    BY <2>2, <2>3
<1>6. ASSUME NEW i \in 1 .. Len(bp), i <= Len(body) PROVE bp[i] = body[i]
  <2>1. 2 + i \in 1 .. Len(cp) /\ i \in 1 .. Len(body)
    BY <1>2, <1>5, <1>6
  <2> QED
    BY <1>4, <1>5, <2>1
<1>7. ASSUME Len(bp) >= 5 PROVE SizeV2(bp, 1) = SizeV2(body, 1)
  <2>1. bp[4] = body[4] /\ bp[5] = body[5]
    BY <1>2, <1>4, <1>6, <1>7
  <2> QED
    BY <1>4, <1>7, <2>1, SameSize
<1>8. CASE p.c_state = H
  <2> DEFINE t == Take(p, c)
             u == Sum1(t, c)
             r == Sum2(u, c)
             b == Append(cp, c)
  <2>1. p.inBuf = cp /\ Len(bp) < 5 /\ p.offset = Len(cp)
    BY <1>1, <1>8 DEF OverV1Read, BodyRead, PortOk, HeaderStates
  <2>2. t \in Ports /\ t.c_state = H /\ t.offset = p.offset + 1 /\ t.inBuf = b
    BY <1>2, <1>8, <2>1, TakeIs
  <2>3. r \in Ports /\ r.c_state = H /\ r.offset = p.offset + 1 /\ r.inBuf = b
    <3> HIDE DEF t
    <3>1. u \in Ports /\ u.c_state = t.c_state /\ u.offset = t.offset /\ u.inBuf = t.inBuf
      BY <2>2, SumsAre
    <3> HIDE DEF u
    <3>2. r \in Ports /\ r.c_state = u.c_state /\ r.offset = u.offset /\ r.inBuf = u.inBuf
      BY <3>1, SumsAre
    <3> HIDE DEF r
    <3> QED
      BY <2>2, <3>1, <3>2
  <2>4. q = HeaderV2(r, 3, P, C)
    BY <1>8, ParsedHeader
  <2>5. /\ b \in Seq(Byte) /\ Len(b) = Len(cp) + 1 /\ b[Len(cp) + 1] = c
        /\ \A i \in 1 .. Len(cp) : b[i] = cp[i]
    BY AppendProperties
  <2> HIDE DEF r, b, q
  <2>6. ASSUME r.offset = 3 + 4 PROVE SizeV2(r.inBuf, 3) <= InBufSize
    <3>1. Len(cp) = 6 /\ 6 + 1 = 7 /\ Len(cont) >= 8
      <4>1. p.offset + 1 = 3 + 4
        BY <2>3, <2>6
      <4>2. p.offset = 6
        BY <1>2, <4>1
      <4> QED
        BY <1>2, <1>4, <2>1, <4>2
    <3>2. b[6] = cont[6] /\ b[7] = cont[7]
      BY <1>4, <2>5, <3>1
    <3>3. cont[2 + 4] = body[4] /\ cont[2 + 5] = body[5]
      BY <1>2, <1>4
    <3>4. SizeV2(b, 3) = SizeV2(body, 1)
      BY <3>2, <3>3 DEF SizeV2
    <3> QED
      BY <1>4, <2>3, <3>4
  <2>7. Len(r.inBuf) = r.offset /\ r.offset <= 3 + 4
    BY <1>2, <1>5, <2>1, <2>3, <2>5
  <2>8. q.c_state \in {H, P, C}
    BY <1>3, <2>3, <2>4, <2>6, <2>7, CleanHeader
  <2>9. Len(cp) # Len(cont)
    BY <1>2, <1>4, <1>5, <2>1
  <2> QED
    BY <2>8, <2>9 DEF q
<1>9. CASE p.c_state = P
  <2> DEFINE u == Sum1(p, c)
             r == Sum2(u, c)
  <2>1. Len(bp) = 5 + p.offset /\ SizeV2(bp, 1) = p.dataSize /\ p.offset < p.dataSize
    BY <1>1, <1>9 DEF BodyRead, PortOk, PayloadStates
  <2>2. u \in Ports /\ u.c_state = P
    BY <1>2, <1>9, SumsAre
  <2>3. q = Payload(r, C)
    BY <1>9, ParsedPayload
  <2> HIDE DEF u
  <2>4. r \in Ports /\ r.c_state = P
    BY <2>2, SumsAre
  <2> HIDE DEF r, q
  <2>5. q.c_state \in {P, C}
    BY <1>3, <2>3, <2>4, PayloadIs
  <2>6. Len(cp) # Len(cont)
    BY <1>2, <1>4, <1>5, <1>7, <2>1
  <2> QED
    BY <2>5, <2>6 DEF q
<1>10. CASE p.c_state = C
  <2> DEFINE u == Sum1(p, c)
  <2>1. Len(bp) >= 5 /\ Len(bp) = 5 + SizeV2(bp, 1) /\ p.checksum2 = Crc(bp)
    BY <1>1, <1>10 DEF BodyRead
  <2>2. Len(bp) = Len(body)
    BY <1>4, <1>7, <2>1
  <2>3. bp = body
    <3>1. \A i \in 1 .. Len(bp) : bp[i] = body[i]
      BY <1>2, <1>6, <2>2
    <3> QED
      BY <2>2, <3>1, SeqEqual
  <2>4. Len(cp) < Len(cont) /\ Len(cp) + 1 = 3 + Len(body)
    BY <1>2, <1>5, <2>2
  <2>5. p.checksum2 = c
    BY <2>1, <2>3, <2>4
  <2>6. q = Goto(u, IF p.checksum2 = c THEN "CHECKSUM_V1" ELSE "IDLE")
    BY <1>10, ParsedChecksum DEF Verified
  <2>7. u \in Ports
    BY <1>2, SumsAre
  <2> HIDE DEF u, q
  <2>8. q.c_state = "CHECKSUM_V1"
    <3>1. "CHECKSUM_V1" \in ParserStates /\ q = Goto(u, "CHECKSUM_V1")
      BY <2>5, <2>6 DEF ParserStates, ChecksumStates
    <3> QED
      BY <2>7, <3>1, GotoIs
  <2>9. Len(cp) # Len(cont)
    BY <1>2, <2>4
  <2> QED
    BY <2>8, <2>9 DEF q
<1> QED
  BY <1>8, <1>9, <1>10 DEF OverV1States

\* Where the parts of a message of V2 stand inside one of V1.
LEMMA WrappedAt ==
    ASSUME NEW size \in Byte, NEW body \in Seq(Byte), NEW cont,
           cont = Append(<<size, FrameIdV2>> \o body, Crc(body))
    PROVE  /\ Len(cont) = 3 + Len(body) /\ cont[1] = size /\ cont[2] = FrameIdV2
           /\ \A i \in 1 .. Len(body) : cont[2 + i] = body[i]
           /\ cont[3 + Len(body)] = Crc(body)
<1> DEFINE pre == <<size, FrameIdV2>>
           crc == Crc(body)
<1>1. pre \in Seq(Byte) /\ Len(pre) = 2 /\ pre[1] = size /\ pre[2] = FrameIdV2 /\ crc \in Byte
  BY SumTypes DEF FrameIdV2, Byte
<1>2. cont = Append(pre \o body, crc)
  OBVIOUS
<1> HIDE DEF pre, crc
<1>3. LET s == Append(pre \o body, crc)
      IN  /\ s \in Seq(Byte) /\ Len(s) = Len(pre) + Len(body) + 1
          /\ \A i \in 1 .. Len(pre) : s[i] = pre[i]
          /\ \A i \in 1 .. Len(body) : s[Len(pre) + i] = body[i]
          /\ s[Len(pre) + Len(body) + 1] = crc
  <2>1. pre \in Seq(Byte) /\ body \in Seq(Byte) /\ crc \in Byte
    BY <1>1
  <2> QED
    BY <2>1, PartsAt, Zenon
<1>4. /\ Len(cont) = 2 + Len(body) + 1
      /\ \A i \in 1 .. 2 : cont[i] = pre[i]
      /\ \A i \in 1 .. Len(body) : cont[2 + i] = body[i]
      /\ cont[2 + Len(body) + 1] = crc
  BY <1>1, <1>2, <1>3
<1>5. 2 + Len(body) + 1 = 3 + Len(body)
  OBVIOUS
<1> QED
  BY <1>1, <1>4, <1>5 DEF crc, pre

\* Reading on in a message the parser has room for, it does not give up, and
\* it reports the message with its last byte.
LEMMA CleanStep ==
    ASSUME NEW p, PortOk(p), NEW m, GoodMessage(m), NEW b \in Seq(Byte), Attempted(b, p),
           Begins(b, m), Len(b) < Len(m), NEW c \in Byte, c = m[Len(b) + 1]
    PROVE  LET q == Parsed(p, c)
           IN  /\ q.c_state # "IDLE"
               /\ q.c_state = "COMMAND_RECEIVED" <=> Len(b) + 1 = Len(m)
<1> DEFINE q == Parsed(p, c)
<1>1. p \in Ports
  BY DEF PortOk
<1>2. PICK start \in {StartM, StartX}, cont \in Seq(Byte), sum \in Byte :
         /\ m = Append(start \o cont, sum)
         /\ \/ start = StartX /\ GoodBody(cont) /\ sum = Crc(cont)
            \/ start = StartM /\ (GoodPlain(cont) \/ GoodOver(cont)) /\ sum = XorSum(cont)
  BY SumTypes DEF GoodMessage
<1>3. start \in Seq(Byte) /\ Len(start) = 3
  BY StartTypes
<1>4. /\ m \in Seq(Byte) /\ Len(m) = 3 + Len(cont) + 1
      /\ \A i \in 1 .. 3 : m[i] = start[i]
      /\ \A i \in 1 .. Len(cont) : m[3 + i] = cont[i]
      /\ m[3 + Len(cont) + 1] = sum
  <2>1. LET s == Append(start \o cont, sum)
        IN  /\ s \in Seq(Byte) /\ Len(s) = Len(start) + Len(cont) + 1
            /\ \A i \in 1 .. Len(start) : s[i] = start[i]
            /\ \A i \in 1 .. Len(cont) : s[Len(start) + i] = cont[i]
            /\ s[Len(start) + Len(cont) + 1] = sum
    BY <1>3, PartsAt, Zenon
  <2>2. m = Append(start \o cont, sum)
    BY <1>2
  <2> QED
    BY <1>3, <2>1, <2>2
<1>5. Len(cont) >= 2 /\ Len(cont) \in Nat
  <2>1. GoodBody(cont) => Len(cont) >= 2
    BY DEF GoodBody, BodyOk, HeaderV2Size
  <2>2. GoodPlain(cont) => Len(cont) >= 2
    BY DEF GoodPlain
  <2>3. ASSUME GoodOver(cont) PROVE Len(cont) >= 2
    <3>1. PICK size \in Byte, body \in Seq(Byte) :
             GoodBody(body) /\ cont = Append(<<size, FrameIdV2>> \o body, Crc(body))
      BY <2>3 DEF GoodOver
    <3>2. <<size, FrameIdV2>> \in Seq(Byte) /\ Len(<<size, FrameIdV2>>) = 2 /\ Crc(body) \in Byte
      BY SumTypes DEF FrameIdV2, Byte
    <3>3. Len(<<size, FrameIdV2>> \o body) = 2 + Len(body) /\ <<size, FrameIdV2>> \o body \in Seq(Byte)
      BY <3>2, ConcatProperties
    <3>4. Len(cont) = (2 + Len(body)) + 1
      BY <3>1, <3>2, <3>3, AppendProperties
    <3> QED
      BY <3>4
  <2> QED
    BY <1>2, <2>1, <2>2, <2>3
<1>6. /\ StartM[1] = Dollar /\ StartM[2] = LetterM /\ StartM[3] = Greater
      /\ StartX[1] = Dollar /\ StartX[2] = LetterX /\ StartX[3] = Greater
      /\ LetterM # LetterX
  BY DEF StartM, StartX, LetterM, LetterX
<1>7. {"IDLE", "HEADER_M", "HEADER_X", "HEADER_V1", "HEADER_V2_NATIVE"} \subseteq ParserStates
  BY DEF ParserStates, Unread, HeaderStates
<1>8. /\ \A i \in 1 .. Len(b) : b[i] = m[i]
      /\ Len(b) \in Nat
  BY DEF Begins
<1>9. CASE p.c_state = "HEADER_START" /\ b = <<Dollar>>
  <2>1. Len(b) = 1 /\ c = m[2]
    BY <1>9
  <2>2. c \in {LetterM, LetterX}
    BY <1>4, <1>6, <2>1
  <2>3. PICK s \in {"HEADER_M", "HEADER_X"} : q = Goto(p, s)
    BY <1>9, <2>2, ParsedUnread
  <2> HIDE DEF q
  <2>4. q.c_state \in {"HEADER_M", "HEADER_X"}
    <3>1. s \in ParserStates
      BY <1>7
    <3>2. Goto(p, s).c_state = s
      BY <1>1, <3>1, GotoIs
    <3> QED
      BY <2>3, <3>2
  <2>5. Len(b) + 1 # Len(m)
    BY <1>4, <1>5, <2>1
  <2> QED
    BY <2>4, <2>5 DEF q
<1>10. CASE \/ p.c_state = "HEADER_M" /\ b = <<Dollar, LetterM>>
            \/ p.c_state = "HEADER_X" /\ b = <<Dollar, LetterX>>
  <2>1. Len(b) = 2
    BY <1>10
  <2>2. c = Greater
    BY <1>4, <1>6, <2>1
  <2>3. \E s \in {"HEADER_V1", "HEADER_V2_NATIVE"} : q = StartHeader(p, s)
    BY <1>10, <2>2, ParsedUnread
  <2> HIDE DEF q
  <2>4. q.c_state \in {"HEADER_V1", "HEADER_V2_NATIVE"}
    BY <1>1, <1>7, <2>3, StartHeaderIs
  <2>5. Len(b) + 1 # Len(m)
    BY <1>4, <1>5, <2>1
  <2> QED
    BY <2>4, <2>5 DEF q
<1>11. ASSUME NEW st \in {StartM, StartX}, NEW part \in Seq(Byte), b = st \o part
       PROVE  /\ st = start /\ Len(b) = 3 + Len(part) /\ Begins(part, cont)
              /\ Len(part) = Len(cont) => c = sum
              /\ Len(part) < Len(cont) => c = cont[Len(part) + 1]
              /\ Len(part) = Len(cont) <=> Len(b) + 1 = Len(m)
  <2>1. st \in Seq(Byte) /\ Len(st) = 3
    BY StartTypes
  <2>2. /\ Len(b) = 3 + Len(part) /\ Len(part) \in Nat
        /\ \A i \in 1 .. 3 + Len(part) : b[i] = IF i <= 3 THEN st[i] ELSE part[i - 3]
    <3>1. /\ Len(st \o part) = Len(st) + Len(part)
          /\ \A i \in 1 .. Len(st) + Len(part) : (st \o part)[i] = IF i <= Len(st) THEN st[i] ELSE part[i - Len(st)]
      BY <2>1, ConcatProperties
    <3> QED
      BY <1>11, <2>1, <3>1
  <2>3. st = start
    <3>1. 2 \in 1 .. Len(b) /\ 2 \in 1 .. 3 + Len(part) /\ 2 \in 1 .. 3 /\ 2 <= 3
      BY <2>2
    <3>2. b[2] = st[2] /\ b[2] = m[2] /\ m[2] = start[2]
      BY <1>4, <1>8, <2>2, <3>1
    <3>3. st[2] = start[2]
      BY <3>2
    <3>4. StartM[2] # StartX[2]
      BY <1>6
    <3>5. CASE st = StartM
      <4>1. start # StartX
        BY <3>3, <3>4, <3>5
      <4> QED
        BY <3>5, <4>1
    <3>6. CASE st = StartX
      <4>1. start # StartM
        BY <3>3, <3>4, <3>6
      <4> QED
        BY <3>6, <4>1
    <3> QED
      BY <3>5, <3>6
  <2>4. Len(part) <= Len(cont)
    BY <1>4, <1>5, <2>2
  <2>5. ASSUME NEW i \in 1 .. Len(part) PROVE part[i] = cont[i]
    <3>1. /\ 3 + i \in 1 .. 3 + Len(part) /\ ~(3 + i <= 3) /\ (3 + i) - 3 = i
          /\ i \in 1 .. Len(cont)
      BY <1>5, <2>2, <2>4
    <3>2. b[3 + i] = part[i] /\ b[3 + i] = m[3 + i] /\ m[3 + i] = cont[i]
      BY <1>4, <1>8, <2>2, <3>1
    <3> QED
      BY <3>2
  <2>6. Len(part) = Len(cont) => c = sum
    <3>1. Len(b) + 1 = 3 + Len(part) + 1
      BY <2>2
    <3> QED
      BY <1>4, <3>1
  <2>7. ASSUME Len(part) < Len(cont) PROVE c = cont[Len(part) + 1]
    <3>1. Len(b) + 1 = 3 + (Len(part) + 1) /\ Len(part) + 1 \in 1 .. Len(cont)
      BY <1>5, <2>2, <2>7
    <3> QED
      BY <1>4, <3>1
  <2>8. Len(part) = Len(cont) <=> Len(b) + 1 = Len(m)
    BY <1>4, <1>5, <2>2
  <2> QED
    BY <2>2, <2>3, <2>4, <2>5, <2>6, <2>7, <2>8 DEF Begins
<1>12. CASE p.c_state \in NativeStates /\ \E body \in Seq(Byte) : b = StartX \o body /\ NativeRead(body, p)
  <2>1. PICK body \in Seq(Byte) : b = StartX \o body /\ NativeRead(body, p)
    BY <1>12
  <2>2. /\ StartX = start /\ Begins(body, cont)
        /\ Len(body) = Len(cont) => c = sum
        /\ Len(body) < Len(cont) => c = cont[Len(body) + 1]
        /\ Len(body) = Len(cont) <=> Len(b) + 1 = Len(m)
    BY <1>11, <2>1
  <2>3. GoodBody(cont) /\ sum = Crc(cont)
    BY <1>2, <2>2, StartTypes
  <2>4. /\ q.c_state # "IDLE"
        /\ q.c_state = "COMMAND_RECEIVED" <=> Len(body) = Len(cont)
    BY <1>12, <2>1, <2>2, <2>3, CleanNative
  <2> QED
    BY <2>2, <2>4
<1>13. CASE \/ p.c_state \in PlainV1States /\ \E cp \in Seq(Byte) : b = StartM \o cp /\ PlainV1Read(cp, p)
            \/ p.c_state \in OverV1States /\ \E cp \in Seq(Byte) : b = StartM \o cp /\ OverV1Read(cp, p)
  <2>1. PICK cp \in Seq(Byte) : /\ b = StartM \o cp
                                /\ \/ p.c_state \in PlainV1States /\ PlainV1Read(cp, p)
                                   \/ p.c_state \in OverV1States /\ OverV1Read(cp, p)
    BY <1>13
  <2>2. /\ StartM = start /\ Begins(cp, cont)
        /\ Len(cp) = Len(cont) => c = sum
        /\ Len(cp) < Len(cont) => c = cont[Len(cp) + 1]
        /\ Len(cp) = Len(cont) <=> Len(b) + 1 = Len(m)
    BY <1>11, <2>1
  <2>3. (GoodPlain(cont) \/ GoodOver(cont)) /\ sum = XorSum(cont)
    BY <1>2, <2>2, StartTypes
  <2>4. ASSUME GoodPlain(cont)
        PROVE  /\ q.c_state # "IDLE"
               /\ q.c_state = "COMMAND_RECEIVED" <=> Len(cp) = Len(cont)
    <3>1. CASE p.c_state \in PlainV1States /\ PlainV1Read(cp, p)
      BY <2>2, <2>3, <2>4, <3>1, CleanPlain
    <3>2. CASE p.c_state \in OverV1States /\ OverV1Read(cp, p)
      <4>1. PICK sz \in Byte, bp \in Seq(Byte) : cp = <<sz, FrameIdV2>> \o bp
        BY <3>2 DEF OverV1Read
      <4>2. Len(cp) >= 2 /\ cp[2] = FrameIdV2
        <5> DEFINE pre == <<sz, FrameIdV2>>
        <5>1. pre \in Seq(Byte) /\ Len(pre) = 2 /\ pre[2] = FrameIdV2
          BY DEF FrameIdV2, Byte
        <5> HIDE DEF pre
        <5>2. /\ Len(cp) = 2 + Len(bp)
              /\ \A i \in 1 .. 2 + Len(bp) : cp[i] = IF i <= 2 THEN pre[i] ELSE bp[i - 2]
          BY <4>1, <5>1, ConcatProperties DEF pre
        <5> QED
          BY <5>1, <5>2
      <4>3. cont[2] = FrameIdV2
        BY <2>2, <4>2 DEF Begins
      <4> QED
        BY <2>4, <4>3 DEF GoodPlain
    <3> QED
      BY <2>1, <3>1, <3>2
  <2>5. ASSUME GoodOver(cont)
        PROVE  /\ q.c_state # "IDLE"
               /\ q.c_state = "COMMAND_RECEIVED" <=> Len(cp) = Len(cont)
    <3>1. PICK size \in Byte, body \in Seq(Byte) :
             /\ GoodBody(body) /\ 6 <= size /\ size <= InBufSize
             /\ cont = Append(<<size, FrameIdV2>> \o body, Crc(body))
      BY <2>5 DEF GoodOver
    <3>2. /\ Len(cont) = 3 + Len(body) /\ cont[1] = size /\ cont[2] = FrameIdV2
          /\ \A i \in 1 .. Len(body) : cont[2 + i] = body[i]
          /\ cont[3 + Len(body)] = Crc(body)
      BY <3>1, WrappedAt
    <3>3. CASE p.c_state \in PlainV1States /\ PlainV1Read(cp, p)
      <4>1. Len(cp) = Len(cont) => c = XorSum(cont)
        BY <2>2, <2>3
      <4>2. LET nxt == Parsed(p, c)
            IN  /\ nxt.c_state # "IDLE"
                /\ nxt.c_state = "COMMAND_RECEIVED" <=> Len(cp) = Len(cont)
        <5>1. /\ p.c_state \in PlainV1States /\ PlainV1Read(cp, p) /\ Begins(cp, cont)
              /\ Len(cp) < Len(cont) => c = cont[Len(cp) + 1]
              /\ 6 <= cont[1] /\ cont[1] <= InBufSize /\ GoodBody(body)
          BY <2>2, <3>1, <3>2, <3>3
        <5>2. /\ cp \in Seq(Byte) /\ body \in Seq(Byte) /\ cont \in Seq(Byte)
              /\ c \in Byte /\ PortOk(p)
          OBVIOUS
        <5>3. Wraps(cont, body)
          BY <3>2 DEF Wraps
        <5> QED
          BY <4>1, <5>1, <5>2, <5>3, CleanOuter
      <4> QED
        BY <4>2
    <3>4. CASE p.c_state \in OverV1States /\ OverV1Read(cp, p)
      <4>1. /\ Parsed(p, c).c_state \notin {"IDLE", "COMMAND_RECEIVED"}
            /\ Len(cp) # Len(cont)
        <5>1. /\ p.c_state \in OverV1States /\ OverV1Read(cp, p) /\ Begins(cp, cont)
              /\ Len(cp) < Len(cont) => c = cont[Len(cp) + 1]
              /\ GoodBody(body)
          BY <2>2, <3>1, <3>4
        <5> QED
          BY <3>2, <5>1, CleanInner, Zenon
      <4> QED
        BY <4>1
    <3> QED
      BY <2>1, <3>3, <3>4
  <2> QED
    BY <2>2, <2>3, <2>4, <2>5
<1> QED
  BY <1>9, <1>10, <1>12, <1>13 DEF Attempted

-----------------------------------------------------------------------------
(* The messages of the flight controller are such messages.                *)

LEMMA ConcatLast ==
    ASSUME NEW s \in Seq(Byte), NEW x \in Byte
    PROVE  s \o <<x>> = Append(s, x) /\ Append(s, x) \in Seq(Byte) /\ Len(Append(s, x)) = Len(s) + 1
<1> DEFINE t == <<x>>
           a == s \o t
           b == Append(s, x)
<1>1. t \in Seq(Byte) /\ Len(t) = 1 /\ t[1] = x
  OBVIOUS
<1> HIDE DEF t
<1>2. /\ a \in Seq(Byte) /\ Len(a) = Len(s) + 1 /\ Len(s) \in Nat
      /\ \A i \in 1 .. Len(s) + 1 : a[i] = IF i <= Len(s) THEN s[i] ELSE t[i - Len(s)]
  <2>1. /\ a \in Seq(Byte) /\ Len(a) = Len(s) + Len(t)
        /\ \A i \in 1 .. Len(s) + Len(t) : a[i] = IF i <= Len(s) THEN s[i] ELSE t[i - Len(s)]
    BY <1>1, ConcatProperties
  <2> HIDE DEF a
  <2> QED
    BY <1>1, <2>1
<1>3. /\ b \in Seq(Byte) /\ Len(b) = Len(s) + 1 /\ b[Len(s) + 1] = x
      /\ \A i \in 1 .. Len(s) : b[i] = s[i]
  BY AppendProperties
<1> HIDE DEF a, b
<1>4. ASSUME NEW i \in 1 .. Len(a) PROVE a[i] = b[i]
  <2>1. CASE i <= Len(s)
    <3>1. i \in 1 .. Len(s) /\ i \in 1 .. Len(s) + 1
      BY <1>2, <2>1
    <3> QED
      BY <1>2, <1>3, <2>1, <3>1
  <2>2. CASE ~(i <= Len(s))
    <3>1. i = Len(s) + 1 /\ i - Len(s) = 1 /\ i \in 1 .. Len(s) + 1
      BY <1>2, <2>2
    <3>2. a[i] = t[1] /\ b[i] = x
      BY <1>2, <1>3, <2>2, <3>1
    <3> QED
      BY <1>1, <3>2
  <2> QED
    BY <2>1, <2>2
<1>5. a = b
  BY <1>2, <1>3, <1>4, SeqEqual
<1> QED
  BY <1>3, <1>5 DEF a, b, t

LEMMA ShortLen ==
    ASSUME NEW s \in Seq(Byte), Len(s) <= 7
    PROVE  Len(s) \in Byte /\ Len(s) \in Nat
<1>1. Len(s) \in Nat
  OBVIOUS
<1>2. \A n \in Nat : n <= 7 => n \in Byte
  BY DEF Byte
<1> QED
  BY <1>1, <1>2

\* What stands where in a message.
FrameIs(m, start, cont) ==
    /\ m \in Seq(Byte) /\ Len(m) = 4 + Len(cont)
    /\ m[1] = Dollar /\ m[2] \in {LetterM, LetterX} /\ m[3] = Greater
    /\ (m[2] = LetterX <=> start = StartX)
    /\ (Len(cont) >= 2 => m[4] = cont[1] /\ m[5] = cont[2])

LEMMA FrameAt ==
    ASSUME NEW start \in {StartM, StartX}, NEW cont \in Seq(Byte), NEW sum \in Byte
    PROVE  FrameIs(Append(start \o cont, sum), start, cont)
<1>1. start \in Seq(Byte) /\ Len(start) = 3
  BY StartTypes
<1>2. /\ start[1] = Dollar /\ start[2] \in {LetterM, LetterX} /\ start[3] = Greater
      /\ start[2] = LetterX <=> start = StartX
  <2>1. /\ StartM[1] = Dollar /\ StartM[2] = LetterM /\ StartM[3] = Greater
        /\ StartX[1] = Dollar /\ StartX[2] = LetterX /\ StartX[3] = Greater
    BY DEF StartM, StartX
  <2>2. LetterM # LetterX
    BY DEF LetterM, LetterX
  <2> QED
    BY <2>1, <2>2, StartTypes
<1>3. PICK m : m = Append(start \o cont, sum)
  OBVIOUS
<1>4. LET s == Append(start \o cont, sum)
      IN  /\ s \in Seq(Byte) /\ Len(s) = Len(start) + Len(cont) + 1
          /\ \A i \in 1 .. Len(start) : s[i] = start[i]
          /\ \A i \in 1 .. Len(cont) : s[Len(start) + i] = cont[i]
          /\ s[Len(start) + Len(cont) + 1] = sum
  BY <1>1, PartsAt, Zenon
<1>5. /\ m \in Seq(Byte) /\ Len(m) = 3 + Len(cont) + 1
      /\ \A i \in 1 .. 3 : m[i] = start[i]
      /\ \A i \in 1 .. Len(cont) : m[3 + i] = cont[i]
  BY <1>1, <1>3, <1>4
<1>6. Len(cont) >= 2 => m[3 + 1] = cont[1] /\ m[3 + 2] = cont[2]
  BY <1>5
<1>7. FrameIs(m, start, cont)
  BY <1>2, <1>5, <1>6 DEF FrameIs
<1> QED
  BY <1>3, <1>7

LEMMA GoodV1 ==
    ASSUME NEW cmd \in Byte, cmd # FrameIdV2, NEW pay \in Seq(Byte), Len(pay) <= 7
    PROVE  LET m == MsgV1(cmd, pay)
           IN  /\ GoodMessage(m) /\ Len(m) = 6 + Len(pay)
               /\ m[2] # LetterX /\ m[4] = Len(pay) /\ m[5] = cmd
<1> DEFINE head == <<Len(pay), cmd>>
           cont == head \o pay
<1>1. Len(pay) \in Byte /\ Len(pay) \in Nat
  BY ShortLen
<1>2. head \in Seq(Byte) /\ Len(head) = 2 /\ head[1] = Len(pay) /\ head[2] = cmd
  BY <1>1
<1>3. MsgV1(cmd, pay) = StartM \o cont \o <<XorSum(cont)>>
  BY DEF MsgV1, StartM
<1> HIDE DEF head
<1>4. /\ cont \in Seq(Byte) /\ Len(cont) = 2 + Len(pay)
      /\ \A i \in 1 .. 2 + Len(pay) : cont[i] = IF i <= 2 THEN head[i] ELSE pay[i - 2]
  <2>1. /\ cont \in Seq(Byte) /\ Len(cont) = Len(head) + Len(pay)
        /\ \A i \in 1 .. Len(head) + Len(pay) :
              cont[i] = IF i <= Len(head) THEN head[i] ELSE pay[i - Len(head)]
    BY <1>2, ConcatProperties
  <2> HIDE DEF cont
  <2> QED
    BY <1>2, <2>1
<1> HIDE DEF cont
<1>5. cont[1] = Len(pay) /\ cont[2] = cmd
  BY <1>1, <1>2, <1>4
<1>6. GoodPlain(cont)
  BY <1>1, <1>4, <1>5, MspAssumption DEF GoodPlain
<1>7. XorSum(cont) \in Byte /\ StartM \o cont \in Seq(Byte)
  BY <1>4, SumTypes, StartTypes, ConcatProperties
<1>8. MsgV1(cmd, pay) = Append(StartM \o cont, XorSum(cont))
  BY <1>3, <1>7, ConcatLast
<1>9. /\ Len(MsgV1(cmd, pay)) = 4 + Len(cont) /\ MsgV1(cmd, pay)[2] # LetterX
      /\ MsgV1(cmd, pay)[4] = cont[1] /\ MsgV1(cmd, pay)[5] = cont[2]
  <2>1. Len(cont) >= 2
    BY <1>1, <1>4
  <2> QED
    <3>1. FrameIs(Append(StartM \o cont, XorSum(cont)), StartM, cont)
      BY <1>4, <1>7, FrameAt
    <3>2. StartM # StartX
      <4>1. StartM[2] = LetterM /\ StartX[2] = LetterX
        BY DEF StartM, StartX
      <4> QED
        BY <4>1 DEF LetterM, LetterX
    <3> QED
      BY <1>8, <2>1, <3>1, <3>2 DEF FrameIs
<1>10. Len(MsgV1(cmd, pay)) = 6 + Len(pay)
  BY <1>1, <1>4, <1>9
<1>11. GoodMessage(MsgV1(cmd, pay))
  BY <1>4, <1>6, <1>8 DEF GoodMessage
<1> QED
  BY <1>5, <1>9, <1>10, <1>11

LEMMA GoodBodyV2 ==
    ASSUME NEW cmd \in Byte, NEW pay \in Seq(Byte), Len(pay) <= 7
    PROVE  LET body == BodyV2(cmd, pay)
           IN  GoodBody(body) /\ Len(body) = 5 + Len(pay) /\ body[1] = 0 /\ body[2] = cmd
<1> DEFINE head == <<0, cmd, 0, Len(pay), 0>>
           body == head \o pay
<1>1. Len(pay) \in Byte /\ Len(pay) \in Nat /\ 0 \in Byte
  BY ShortLen, ByteFacts
<1>2. /\ head \in Seq(Byte) /\ Len(head) = 5 /\ head[4] = Len(pay) /\ head[5] = 0
      /\ head[1] = 0 /\ head[2] = cmd
  BY <1>1
<1>3. BodyV2(cmd, pay) = body
  BY DEF BodyV2
<1> HIDE DEF head
<1>4. /\ body \in Seq(Byte) /\ Len(body) = 5 + Len(pay)
      /\ \A i \in 1 .. 5 + Len(pay) : body[i] = IF i <= 5 THEN head[i] ELSE pay[i - 5]
  <2>1. /\ body \in Seq(Byte) /\ Len(body) = Len(head) + Len(pay)
        /\ \A i \in 1 .. Len(head) + Len(pay) :
              body[i] = IF i <= Len(head) THEN head[i] ELSE pay[i - Len(head)]
    BY <1>2, ConcatProperties
  <2> HIDE DEF body
  <2> QED
    BY <1>2, <2>1
<1> HIDE DEF body
<1>5. body[4] = Len(pay) /\ body[5] = 0 /\ body[1] = 0 /\ body[2] = cmd
  BY <1>1, <1>2, <1>4
<1>6. SizeV2(body, 1) = Len(pay)
  BY <1>1, <1>5 DEF SizeV2
<1>7. GoodBody(body)
  BY <1>1, <1>4, <1>6, MspAssumption DEF GoodBody, BodyOk, HeaderV2Size
<1> QED
  BY <1>3, <1>4, <1>5, <1>7

LEMMA GoodV2 ==
    ASSUME NEW cmd \in Byte, NEW pay \in Seq(Byte), Len(pay) <= 7
    PROVE  LET m == MsgV2(cmd, pay)
           IN  GoodMessage(m) /\ Len(m) = 9 + Len(pay) /\ m[4] = 0 /\ m[5] = cmd
<1> DEFINE body == BodyV2(cmd, pay)
<1>1. /\ GoodBody(body) /\ body \in Seq(Byte) /\ Len(body) = 5 + Len(pay)
      /\ body[1] = 0 /\ body[2] = cmd
  BY GoodBodyV2 DEF GoodBody
<1>2. MsgV2(cmd, pay) = StartX \o body \o <<Crc(body)>>
  BY DEF MsgV2, StartX
<1> HIDE DEF body
<1>3. Crc(body) \in Byte /\ StartX \o body \in Seq(Byte)
  BY <1>1, SumTypes, StartTypes, ConcatProperties
<1>4. MsgV2(cmd, pay) = Append(StartX \o body, Crc(body))
  BY <1>2, <1>3, ConcatLast
<1>5. /\ Len(MsgV2(cmd, pay)) = 4 + Len(body)
      /\ MsgV2(cmd, pay)[4] = body[1] /\ MsgV2(cmd, pay)[5] = body[2]
  <2>1. Len(body) >= 2
    BY <1>1
  <2> QED
    <3>1. FrameIs(Append(StartX \o body, Crc(body)), StartX, body)
      BY <1>1, <1>3, FrameAt
    <3> QED
      BY <1>4, <2>1, <3>1 DEF FrameIs
<1>6. Len(MsgV2(cmd, pay)) = 9 + Len(pay)
  BY <1>1, <1>5
<1>7. GoodMessage(MsgV2(cmd, pay))
  BY <1>1, <1>4 DEF GoodMessage
<1> QED
  BY <1>1, <1>5, <1>6, <1>7

LEMMA GoodV2OverV1 ==
    ASSUME NEW cmd \in Byte, NEW pay \in Seq(Byte), Len(pay) <= 1
    PROVE  LET m == MsgV2OverV1(cmd, pay)
           IN  GoodMessage(m) /\ Len(m) = 12 + Len(pay) /\ m[4] = 6 + Len(pay)
<1> DEFINE body == BodyV2(cmd, pay)
           inner == body \o <<Crc(body)>>
           head == <<Len(inner), FrameIdV2>>
           cont == head \o inner
<1>1. GoodBody(body) /\ body \in Seq(Byte) /\ Len(body) = 5 + Len(pay) /\ Len(pay) \in Nat
  <2>1. Len(pay) <= 7 /\ Len(pay) \in Nat
    OBVIOUS
  <2> QED
    BY <2>1, GoodBodyV2 DEF GoodBody
<1>2. MsgV2OverV1(cmd, pay) = StartM \o cont \o <<XorSum(cont)>>
  BY DEF MsgV2OverV1, MsgV1, StartM
<1> HIDE DEF body
<1>3. Crc(body) \in Byte
  BY <1>1, SumTypes
<1>4. inner = Append(body, Crc(body)) /\ inner \in Seq(Byte) /\ Len(inner) = 6 + Len(pay)
  <2>1. inner = Append(body, Crc(body)) /\ inner \in Seq(Byte) /\ Len(inner) = Len(body) + 1
    BY <1>1, <1>3, ConcatLast
  <2> QED
    BY <1>1, <2>1
<1> HIDE DEF inner
<1>5. Len(inner) \in Byte /\ 6 <= Len(inner) /\ Len(inner) <= InBufSize
  <2>1. Len(inner) <= 7 /\ 6 <= Len(inner)
    BY <1>1, <1>4
  <2> QED
    BY <1>4, <2>1, ShortLen, MspAssumption
<1>6. head \in Seq(Byte)
  BY <1>5 DEF FrameIdV2, Byte
<1>7. cont = Append(head \o body, Crc(body))
  <2> DEFINE crc == Crc(body)
  <2>1. head \in Seq(Byte) /\ body \in Seq(Byte) /\ crc \in Byte /\ inner = Append(body, crc)
    BY <1>1, <1>3, <1>4, <1>6
  <2> HIDE DEF crc, head
  <2>2. Append(head \o body, crc) = head \o Append(body, crc)
    BY <2>1, AppendConcat
  <2> QED
    BY <2>1, <2>2 DEF crc, head
<1>8. cont \in Seq(Byte) /\ Len(cont) = 8 + Len(pay) /\ cont[1] = Len(inner)
  <2>1. Len(head) = 2 /\ head[1] = Len(inner)
    OBVIOUS
  <2> HIDE DEF head
  <2>2. /\ cont \in Seq(Byte) /\ Len(cont) = Len(head) + Len(inner)
        /\ \A i \in 1 .. Len(head) + Len(inner) :
              cont[i] = IF i <= Len(head) THEN head[i] ELSE inner[i - Len(head)]
    BY <1>4, <1>6, ConcatProperties
  <2> QED
    BY <1>1, <1>4, <2>1, <2>2
<1>9. GoodOver(cont)
  BY <1>1, <1>5, <1>7 DEF GoodOver
<1> HIDE DEF cont, head
<1>10. XorSum(cont) \in Byte /\ StartM \o cont \in Seq(Byte)
  BY <1>8, SumTypes, StartTypes, ConcatProperties
<1>11. MsgV2OverV1(cmd, pay) = Append(StartM \o cont, XorSum(cont))
  BY <1>2, <1>10, ConcatLast
<1>12. Len(MsgV2OverV1(cmd, pay)) = 4 + Len(cont) /\ MsgV2OverV1(cmd, pay)[4] = cont[1]
  <2>1. Len(cont) >= 2
    BY <1>1, <1>8
  <2> QED
    <3>1. FrameIs(Append(StartM \o cont, XorSum(cont)), StartM, cont)
      BY <1>8, <1>10, FrameAt
    <3> QED
      BY <1>11, <2>1, <3>1 DEF FrameIs
<1>13. Len(MsgV2OverV1(cmd, pay)) = 12 + Len(pay) /\ MsgV2OverV1(cmd, pay)[4] = 6 + Len(pay)
  BY <1>1, <1>4, <1>8, <1>12
<1>14. GoodMessage(MsgV2OverV1(cmd, pay))
  BY <1>8, <1>9, <1>11 DEF GoodMessage
<1> QED
  BY <1>13, <1>14

LEMMA MessagesGood == \A m \in Messages : GoodMessage(m)
<1>1. /\ <<>> \in Seq(Byte) /\ Len(<<>>) <= 7
      /\ <<Dollar, LetterM, Greater>> \in Seq(Byte) /\ Len(<<Dollar, LetterM, Greater>>) <= 7
      /\ <<Dollar, LetterX>> \in Seq(Byte) /\ Len(<<Dollar, LetterX>>) <= 7
      /\ <<LetterX>> \in Seq(Byte) /\ Len(<<LetterX>>) <= 1
  BY DEF Byte, Dollar, LetterM, LetterX, Greater
<1>2. /\ 1 \in Byte /\ 2 \in Byte /\ 3 \in Byte /\ 4 \in Byte /\ 5 \in Byte
      /\ 1 # FrameIdV2 /\ 2 # FrameIdV2
  BY DEF Byte, FrameIdV2
<1>3. GoodMessage(MsgV1(1, <<>>)) /\ GoodMessage(MsgV1(2, <<Dollar, LetterM, Greater>>))
  BY <1>1, <1>2, GoodV1
<1>4. GoodMessage(MsgV2(3, <<Dollar, LetterX>>)) /\ GoodMessage(MsgV2(4, <<>>))
  BY <1>1, <1>2, GoodV2
<1>5. GoodMessage(MsgV2OverV1(5, <<LetterX>>))
  BY <1>1, <1>2, GoodV2OverV1
<1> QED
  BY <1>3, <1>4, <1>5 DEF Messages

-----------------------------------------------------------------------------
(* The loop cuts such a stream at the messages.                            *)

\* l is what remains of m behind b.
Rest(m, b, l) ==
    Len(m) = Len(b) + Len(l) /\ Begins(b, m) /\ \A i \in 1 .. Len(l) : l[i] = m[Len(b) + i]

SentAre(n) == Len(forwarded) = n /\ \A i \in 1 .. n : forwarded[i] = fc[i].bytes

BetweenMessages == line = <<>> /\ Idle(port) /\ reading = FALSE /\ SentAre(Len(fc))

WithinMessage ==
    /\ Len(fc) > 0 /\ line # <<>> /\ SentAre(Len(fc) - 1)
    /\ \/ line = fc[Len(fc)].bytes /\ Idle(port) /\ reading = FALSE
       \/ reading = TRUE /\ Attempted(raw, port) /\ Rest(fc[Len(fc)].bytes, raw, line)

CutInv ==
    /\ SentInv /\ noise \in Nat
    /\ fc \in Seq([bytes : Messages, whole : BOOLEAN])
    /\ noise = 0 => BetweenMessages \/ WithinMessage

LEMMA GoodStarts ==
    ASSUME NEW m, GoodMessage(m)
    PROVE  /\ m \in Seq(Byte) /\ Len(m) > 4
           /\ m[1] = Dollar /\ m[2] \in {LetterM, LetterX} /\ m[3] = Greater
<1>1. PICK start \in {StartM, StartX}, cont \in Seq(Byte), sum \in Byte :
         m = Append(start \o cont, sum) /\ Len(cont) > 0
  <2>1. \A body \in Seq(Byte) : Crc(body) \in Byte /\ XorSum(body) \in Byte
    BY SumTypes
  <2>2. \A cont \in Seq(Byte) : GoodBody(cont) \/ GoodPlain(cont) => Len(cont) > 0
    BY DEF GoodBody, BodyOk, GoodPlain, HeaderV2Size
  <2>3. ASSUME NEW cont \in Seq(Byte), GoodOver(cont) PROVE Len(cont) > 0
    <3>1. PICK size \in Byte, body \in Seq(Byte) :
             cont = Append(<<size, FrameIdV2>> \o body, Crc(body))
      BY <2>3 DEF GoodOver
    <3>2. <<size, FrameIdV2>> \o body \in Seq(Byte)
      BY DEF FrameIdV2, Byte
    <3> QED
      BY <2>1, <3>1, <3>2, AppendProperties
  <2> QED
    BY <2>1, <2>2, <2>3 DEF GoodMessage
<1>2. /\ m \in Seq(Byte) /\ Len(m) = 4 + Len(cont)
      /\ m[1] = Dollar /\ m[2] \in {LetterM, LetterX} /\ m[3] = Greater
  <2>1. FrameIs(m, start, cont)
    BY <1>1, FrameAt
  <2> QED
    BY <2>1 DEF FrameIs
<1> QED
  BY <1>1, <1>2

LEMMA AttemptedBusy ==
    ASSUME NEW b, NEW p, Attempted(b, p)
    PROVE  ~Idle(p)
BY DEF Attempted, Idle, NativeStates, PlainV1States, OverV1States

\* More than one byte remains.
LEMMA TailFilled ==
    ASSUME NEW l \in Seq(Byte), Len(l) > 1
    PROVE  Tail(l) # <<>>
<1>1. Len(Tail(l)) = Len(l) - 1 /\ Len(l) \in Nat
  OBVIOUS
<1>2. PICK L \in Nat : L = Len(l) /\ L > 1
  BY <1>1
<1>3. L - 1 # 0
  BY <1>2
<1>4. Len(Tail(l)) # 0
  BY <1>1, <1>2, <1>3, Zenon
<1>5. Len(<<>>) = 0
  OBVIOUS
<1> QED
  BY <1>4, <1>5, Zenon

\* One more byte of the message is read.
LEMMA RestReads ==
    ASSUME NEW m, NEW b \in Seq(Byte), NEW l \in Seq(Byte), Len(l) > 0, Rest(m, b, l)
    PROVE  /\ l[1] \in Byte /\ l[1] = m[Len(b) + 1] /\ Len(m) = Len(b) + Len(l) /\ Begins(b, m)
           /\ Append(b, l[1]) \in Seq(Byte) /\ Len(Append(b, l[1])) = Len(b) + 1
           /\ Tail(l) \in Seq(Byte) /\ Len(Tail(l)) = Len(l) - 1
           /\ Rest(m, Append(b, l[1]), Tail(l))
<1> DEFINE c == l[1]
           d == Append(b, c)
           t == Tail(l)
<1>1. /\ c \in Byte /\ Len(l) \in Nat \ {0} /\ t \in Seq(Byte)
      /\ Len(t) = Len(l) - 1 /\ \A i \in 1 .. Len(l) - 1 : t[i] = l[i + 1]
  OBVIOUS
<1>2. /\ Len(b) \in Nat /\ Len(b) < Len(m) /\ c = m[Len(b) + 1] /\ Begins(b, m)
      /\ Len(m) = Len(b) + Len(l)
  BY <1>1 DEF Rest
<1>3. /\ d \in Seq(Byte) /\ Len(d) = Len(b) + 1 /\ d[Len(b) + 1] = c
      /\ \A i \in 1 .. Len(b) : d[i] = b[i]
  BY <1>1, AppendProperties
<1> HIDE DEF c, d, t
<1>4. Len(m) = Len(d) + Len(t)
  BY <1>1, <1>2, <1>3
<1>5. Begins(d, m)
  <2>1. Len(d) <= Len(m)
    BY <1>2, <1>3
  <2>2. ASSUME NEW i \in 1 .. Len(d) PROVE d[i] = m[i]
    <3>1. CASE i = Len(b) + 1
      BY <1>2, <1>3, <3>1
    <3>2. CASE i # Len(b) + 1
      <4>1. i \in 1 .. Len(b)
        BY <1>2, <1>3, <3>2
      <4>2. b[i] = m[i]
        BY <1>2, <4>1 DEF Begins
      <4> QED
        BY <1>3, <4>1, <4>2
    <3> QED
      BY <3>1, <3>2
  <2> QED
    BY <2>1, <2>2 DEF Begins
<1>6. ASSUME NEW i \in 1 .. Len(t) PROVE t[i] = m[Len(d) + i]
  <2>1. /\ i \in 1 .. Len(l) - 1 /\ i + 1 \in 1 .. Len(l)
        /\ Len(b) + (i + 1) = Len(d) + i
    BY <1>1, <1>2, <1>3
  <2>2. l[i + 1] = m[Len(b) + (i + 1)]
    BY <2>1 DEF Rest
  <2> QED
    BY <1>1, <2>1, <2>2
<1>7. Rest(m, d, t)
  BY <1>4, <1>5, <1>6 DEF Rest
<1> QED
  BY <1>1, <1>2, <1>3, <1>7 DEF c, d, t

\* In step, the parser reads the message to its end.
LEMMA InStepReads ==
    ASSUME NEW p, PortOk(p), NEW m, GoodMessage(m), NEW b \in Seq(Byte), NEW l \in Seq(Byte),
           Len(l) > 0, Rest(m, b, l), (Idle(p) /\ Len(b) = 0) \/ Attempted(b, p)
    PROVE  /\ ~Refused(p, l[1])
           /\ \/ /\ Parsed(p, l[1]).c_state = "COMMAND_RECEIVED"
                 /\ Len(l) = 1 /\ Append(b, l[1]) = m
              \/ /\ Parsed(p, l[1]).c_state # "COMMAND_RECEIVED"
                 /\ Len(l) > 1 /\ Attempted(Append(b, l[1]), Parsed(p, l[1]))
<1> DEFINE c == l[1]
           q == Parsed(p, c)
           d == Append(b, c)
<1>1. /\ c \in Byte /\ c = m[Len(b) + 1] /\ Len(m) = Len(b) + Len(l) /\ Begins(b, m)
      /\ d \in Seq(Byte) /\ Len(d) = Len(b) + 1 /\ Rest(m, d, Tail(l)) /\ Len(Tail(l)) = Len(l) - 1
  BY RestReads
<1>2. m \in Seq(Byte) /\ Len(m) > 4 /\ m[1] = Dollar
  BY GoodStarts
<1>3. Len(l) \in Nat \ {0} /\ Len(b) \in Nat
  OBVIOUS
<1> SUFFICES /\ ~Refused(p, c)
             /\ \/ q.c_state = "COMMAND_RECEIVED" /\ Len(l) = 1 /\ d = m
                \/ q.c_state # "COMMAND_RECEIVED" /\ Len(l) > 1 /\ Attempted(d, q)
  OBVIOUS
<1>4. CASE Idle(p) /\ Len(b) = 0
  <2>1. c = Dollar /\ Len(l) > 1
    BY <1>1, <1>2, <1>4
  <2>2. q = Goto(p, "HEADER_START") /\ p \in Ports
    BY <1>4, <2>1, ParsedUnread DEF Idle, PortOk
  <2>3. "HEADER_START" \in ParserStates
    BY DEF ParserStates, Unread
  <2>4. q.c_state = "HEADER_START"
    BY <2>2, <2>3, GotoIs
  <2>5. d = <<Dollar>>
    <3>1. b = <<>>
      BY <1>4
    <3> QED
      BY <2>1, <3>1
  <2> QED
    BY <1>4, <2>1, <2>4, <2>5 DEF Attempted, Refused
<1>5. CASE Attempted(b, p)
  <2>1. ~Refused(p, c)
    BY <1>5, AttemptedBusy DEF Refused
  <2>2. /\ q.c_state # "IDLE"
        /\ q.c_state = "COMMAND_RECEIVED" <=> Len(b) + 1 = Len(m)
    <3>1. Len(b) < Len(m)
      BY <1>1, <1>3
    <3> HIDE DEF c
    <3> QED
      BY <1>1, <1>5, <3>1, CleanStep
  <2>3. q.c_state = "IDLE" \/ q.c_state = "COMMAND_RECEIVED" \/ Attempted(d, q)
    <3>1. LET nxt == Parsed(p, c)
          IN  \/ nxt.c_state = "IDLE"
              \/ nxt.c_state = "COMMAND_RECEIVED" /\ WellFormed(Append(b, c))
              \/ Attempted(Append(b, c), nxt)
      BY <1>1, <1>5, AttemptStep, Zenon
    <3> QED
      BY <3>1
  <2> HIDE DEF c, q, d
  <2>4. CASE Len(b) + 1 = Len(m)
    <3>1. Len(l) = 1
      <4>1. PICK B \in Nat, L \in Nat : B = Len(b) /\ L = Len(l)
        BY <1>3
      <4>2. B + 1 = B + L
        BY <1>1, <2>4, <4>1
      <4>3. L = 1
        BY <4>2
      <4> QED
        BY <4>1, <4>3
    <3>2. d = m
      <4>1. Len(d) = Len(m) /\ \A i \in 1 .. Len(d) : d[i] = m[i]
        BY <1>1, <2>4 DEF Rest, Begins
      <4> QED
        BY <1>1, <1>2, <4>1, SeqEqual
    <3> QED
      BY <2>1, <2>2, <2>4, <3>1, <3>2
  <2>5. CASE Len(b) + 1 # Len(m)
    <3>1. Len(l) > 1
      BY <1>1, <1>3, <2>5
    <3> QED
      BY <2>1, <2>2, <2>3, <2>5, <3>1
  <2> QED
    BY <2>4, <2>5
<1> QED
  BY <1>4, <1>5

LEMMA CutStart == MspInit => CutInv
<1> SUFFICES ASSUME MspInit PROVE CutInv
  OBVIOUS
<1>1. SentInv
  BY SentStart
<1>2. /\ reading = FALSE /\ line = <<>> /\ fc = <<>> /\ forwarded = <<>>
      /\ noise = IF Idle(port) THEN 0 ELSE 1
  BY DEF MspInit
<1>3. noise \in Nat /\ (noise = 0 => Idle(port))
  BY <1>2
<1>4. /\ fc \in Seq([bytes : Messages, whole : BOOLEAN])
      /\ Len(fc) = 0 /\ Len(forwarded) = 0
  <2>1. /\ <<>> \in Seq([bytes : Messages, whole : BOOLEAN]) /\ Len(<<>>) = 0
    OBVIOUS
  <2> QED
    BY <1>2, <2>1
<1>5. SentAre(Len(fc))
  BY <1>4 DEF SentAre
<1> QED
  BY <1>1, <1>2, <1>3, <1>4, <1>5 DEF CutInv, BetweenMessages

\* The flight controller sends its next message.
LEMMA CutSends ==
    ASSUME CutInv, SentInv', NEW m \in Messages, FcSends(m)
    PROVE  CutInv'
<1> DEFINE R == [bytes : Messages, whole : BOOLEAN]
           e == [bytes |-> m, whole |-> TRUE]
<1>1. /\ line = <<>> /\ line' = m /\ fc' = Append(fc, e) /\ port' = port /\ reading' = reading
      /\ noise' = noise /\ forwarded' = forwarded
  BY DEF FcSends
<1>2. fc \in Seq(R) /\ e \in R /\ noise \in Nat
  BY DEF CutInv
<1>3. /\ fc' \in Seq(R) /\ Len(fc') = Len(fc) + 1 /\ Len(fc) \in Nat
      /\ \A i \in 1 .. Len(fc) : fc'[i] = fc[i]
      /\ fc'[Len(fc')] = e
  <2> HIDE DEF e, R
  <2>1. /\ Append(fc, e) \in Seq(R) /\ Len(Append(fc, e)) = Len(fc) + 1
        /\ \A i \in 1 .. Len(fc) : Append(fc, e)[i] = fc[i]
        /\ Append(fc, e)[Len(fc) + 1] = e
    BY <1>2, AppendProperties
  <2> QED
    BY <1>1, <1>2, <2>1
<1>4. ASSUME noise = 0 PROVE WithinMessage'
  <2>1. BetweenMessages
    BY <1>1, <1>4 DEF CutInv, WithinMessage
  <2>2. SentAre(Len(fc) - 1)'
    BY <1>1, <1>3, <2>1 DEF BetweenMessages, SentAre
  <2>3. line' # <<>>
    <3>1. GoodMessage(m) /\ m \in Seq(Byte)
      BY MessagesGood, MessagesTyped
    <3>2. Len(m) > 0
      BY <3>1, GoodStarts
    <3> QED
      BY <1>1, <3>2
  <2>4. line' = fc'[Len(fc')].bytes
    BY <1>1, <1>3
  <2> QED
    BY <1>1, <1>3, <2>1, <2>2, <2>3, <2>4 DEF WithinMessage, BetweenMessages, Idle
<1> QED
  BY <1>1, <1>2, <1>3, <1>4 DEF CutInv

\* The loop reads a byte of a message nothing happened to.
LEMMA CutReads ==
    ASSUME CutInv, SentInv', ReadByte
    PROVE  CutInv'
<1> DEFINE c == Head(line)
           q == Parsed(port, c)
           d == Append(Kept, c)
           R == [bytes : Messages, whole : BOOLEAN]
           m == fc[Len(fc)].bytes
<1>1. /\ line # <<>> /\ line' = Tail(line) /\ port' = q /\ fc' = fc /\ noise' = noise
      /\ raw' = IF Refused(port, c) THEN Kept ELSE d
      /\ reading' = (~Refused(port, c) /\ q.c_state # "COMMAND_RECEIVED")
      /\ forwarded' = IF ~Refused(port, c) /\ q.c_state = "COMMAND_RECEIVED"
                      THEN Append(forwarded, raw') ELSE forwarded
  BY DEF ReadByte
<1>2. /\ fc \in Seq(R) /\ noise \in Nat /\ PortOk(port) /\ line \in Seq(Byte) /\ raw \in Seq(Byte)
      /\ reading \in BOOLEAN /\ forwarded \in Seq(Seq(Byte))
  BY DEF CutInv, SentInv, BufInv
<1>3. /\ c \in Byte /\ Len(line) \in Nat \ {0} /\ Tail(line) \in Seq(Byte)
      /\ Len(Tail(line)) = Len(line) - 1 /\ c = line[1]
      /\ \A i \in 1 .. Len(line) - 1 : Tail(line)[i] = line[i + 1]
  BY <1>1, <1>2
<1>4. SUFFICES ASSUME noise = 0 PROVE (BetweenMessages \/ WithinMessage)'
  BY <1>1, <1>2 DEF CutInv
<1>5. WithinMessage
  BY <1>1, <1>4 DEF CutInv, BetweenMessages
<1>6. /\ Len(fc) \in Nat \ {0} /\ m \in Messages /\ GoodMessage(m) /\ m \in Seq(Byte)
      /\ SentAre(Len(fc) - 1)
  <2>1. Len(fc) \in Nat /\ Len(fc) > 0 /\ SentAre(Len(fc) - 1)
    BY <1>2, <1>5 DEF WithinMessage
  <2>2. Len(fc) \in 1 .. Len(fc)
    BY <2>1
  <2>3. fc[Len(fc)] \in R
    <3> HIDE DEF R
    <3> QED
      BY <1>2, <2>2, ElementOfSeq
  <2>4. m \in Messages
    BY <2>3
  <2> HIDE DEF m
  <2> QED
    BY <2>1, <2>4, MessagesGood, MessagesTyped
<1> HIDE DEF m, R
<1>7. \* The first byte of the message, or one of the others.
      /\ Kept \in Seq(Byte) /\ ~Refused(port, c)
      /\ \/ Idle(port) /\ Kept = <<>> /\ c = Dollar
         \/ Attempted(Kept, port)
      /\ Rest(m, Kept, line)
  <2>1. CASE line = m /\ Idle(port) /\ reading = FALSE
    <3>1. Kept = <<>> /\ <<>> \in Seq(Byte) /\ Len(<<>>) = 0
      BY <2>1 DEF Kept
    <3>2. c = Dollar
      BY <1>3, <1>6, <2>1, GoodStarts
    <3>3. Rest(m, Kept, line)
      BY <1>3, <2>1, <3>1 DEF Rest, Begins
    <3> QED
      BY <2>1, <3>1, <3>2, <3>3 DEF Refused
  <2>2. CASE reading = TRUE /\ Attempted(raw, port) /\ Rest(m, raw, line)
    <3>1. Kept = raw
      BY <2>2 DEF Kept
    <3>2. ~Idle(port)
      BY <2>2, AttemptedBusy
    <3> QED
      BY <1>2, <2>2, <3>1, <3>2 DEF Refused
  <2> QED
    BY <1>5, <2>1, <2>2 DEF WithinMessage, m
<1>8. d \in Seq(Byte) /\ Rest(m, d, Tail(line))
  BY <1>3, <1>7, RestReads
<1>9. \/ q.c_state = "COMMAND_RECEIVED" /\ Len(line) = 1 /\ d = m
      \/ q.c_state # "COMMAND_RECEIVED" /\ Len(line) > 1 /\ Attempted(d, q)
  <2>1. Kept = <<>> => Len(Kept) = 0
    OBVIOUS
  <2>2. /\ PortOk(port) /\ GoodMessage(m) /\ Kept \in Seq(Byte) /\ line \in Seq(Byte)
        /\ Len(line) > 0 /\ Rest(m, Kept, line)
        /\ (Idle(port) /\ Len(Kept) = 0) \/ Attempted(Kept, port)
    BY <1>2, <1>3, <1>6, <1>7, <2>1
  <2>3. \/ /\ Parsed(port, line[1]).c_state = "COMMAND_RECEIVED"
           /\ Len(line) = 1 /\ Append(Kept, line[1]) = m
        \/ /\ Parsed(port, line[1]).c_state # "COMMAND_RECEIVED"
           /\ Len(line) > 1 /\ Attempted(Append(Kept, line[1]), Parsed(port, line[1]))
    BY <2>2, InStepReads, Zenon
  <2> QED
    BY <1>3, <2>3
<1>10. /\ port' = q /\ raw' = d
       /\ reading' = (q.c_state # "COMMAND_RECEIVED")
       /\ forwarded' = IF q.c_state = "COMMAND_RECEIVED" THEN Append(forwarded, d) ELSE forwarded
  BY <1>1, <1>7
<1> HIDE DEF c, q, d
<1>11. CASE q.c_state = "COMMAND_RECEIVED" /\ Len(line) = 1 /\ d = m
  <2>1. line' = <<>>
    <3>1. Len(Tail(line)) = 0
      BY <1>3, <1>11
    <3> QED
      BY <1>1, <1>3, <3>1
  <2>2. SentAre(Len(fc))'
    <3>1. /\ Len(forwarded) = Len(fc) - 1
          /\ \A i \in 1 .. Len(fc) - 1 : forwarded[i] = fc[i].bytes
      BY <1>6 DEF SentAre
    <3>2. /\ Len(forwarded') = Len(forwarded) + 1 /\ forwarded'[Len(forwarded) + 1] = d
          /\ \A i \in 1 .. Len(forwarded) : forwarded'[i] = forwarded[i]
      <4>1. forwarded' = Append(forwarded, d)
        BY <1>10, <1>11
      <4> QED
        BY <1>2, <1>8, <4>1, AppendProperties
    <3>3. Len(forwarded') = Len(fc) /\ Len(forwarded) + 1 = Len(fc)
      BY <1>6, <3>1, <3>2
    <3>4. ASSUME NEW i \in 1 .. Len(fc) PROVE forwarded'[i] = fc[i].bytes
      <4>1. CASE i = Len(fc)
        BY <1>11, <3>2, <3>3, <4>1 DEF m
      <4>2. CASE i # Len(fc)
        <5>1. i \in 1 .. Len(fc) - 1 /\ i \in 1 .. Len(forwarded)
          BY <1>6, <3>1, <4>2
        <5> QED
          BY <3>1, <3>2, <5>1
      <4> QED
        BY <4>1, <4>2
    <3> QED
      BY <1>1, <3>3, <3>4 DEF SentAre
  <2>3. Idle(port)' /\ reading' = FALSE
    BY <1>10, <1>11 DEF Idle
  <2> QED
    BY <2>1, <2>2, <2>3 DEF BetweenMessages
<1>12. CASE q.c_state # "COMMAND_RECEIVED" /\ Len(line) > 1 /\ Attempted(d, q)
  <2>1. line' # <<>>
    BY <1>1, <1>2, <1>12, TailFilled
  <2>2. reading' = TRUE /\ forwarded' = forwarded
    BY <1>10, <1>12
  <2>3. SentAre(Len(fc) - 1)'
    BY <1>1, <1>6, <2>2 DEF SentAre
  <2>4. Attempted(raw, port)'
    BY <1>10, <1>12
  <2>5. Rest(fc[Len(fc)].bytes, raw, line)'
    BY <1>1, <1>8, <1>10 DEF m
  <2>6. (Len(fc) > 0)'
    BY <1>1, <1>6
  <2> QED
    BY <2>1, <2>2, <2>3, <2>4, <2>5, <2>6 DEF WithinMessage
<1> QED
  BY <1>9, <1>11, <1>12

LEMMA CutNext ==
    ASSUME CutInv, [MspNext]_mspVars
    PROVE  CutInv'
<1>1. SentInv'
  BY SentNext DEF CutInv
<1>2. ASSUME NEW m \in Messages, FcSends(m) PROVE CutInv'
  BY <1>1, <1>2, CutSends
<1>3. ASSUME NEW next, Distort(next) PROVE CutInv'
  <2> DEFINE R == [bytes : Messages, whole : BOOLEAN]
  <2>1. noise' = noise + 1 /\ noise \in Nat /\ fc' = [fc EXCEPT ![Len(fc)].whole = FALSE]
    BY <1>3 DEF Distort, CutInv
  <2>2. fc' \in Seq(R)
    <3>1. fc \in Seq(R)
      BY DEF CutInv
    <3>2. ASSUME NEW r \in R PROVE [r EXCEPT !.whole = FALSE] \in R
      OBVIOUS
    <3> HIDE DEF R
    <3> DEFINE last == [fc[Len(fc)] EXCEPT !.whole = FALSE]
    <3>3. fc' = [fc EXCEPT ![Len(fc)] = last]
      BY <2>1
    <3>4. Len(fc) \in 1 .. Len(fc) => last \in R
      <4>1. Len(fc) \in 1 .. Len(fc) => fc[Len(fc)] \in R
        BY <3>1, ElementOfSeq
      <4> QED
        BY <3>2, <4>1
    <3> HIDE DEF last
    <3>5. fc' = [i \in 1 .. Len(fc) |-> IF i = Len(fc) THEN last ELSE fc[i]]
      <4>1. DOMAIN fc = 1 .. Len(fc) /\ fc = [i \in 1 .. Len(fc) |-> fc[i]]
        BY <3>1
      <4> DEFINE n == Len(fc)
      <4> HIDE DEF n
      <4>2. [fc EXCEPT ![n] = last] = [i \in DOMAIN fc |-> IF i = n THEN last ELSE fc[i]]
        BY <4>1, Zenon
      <4> QED
        BY <3>3, <4>1, <4>2 DEF n
    <3>6. \A i \in 1 .. Len(fc) : (IF i = Len(fc) THEN last ELSE fc[i]) \in R
      BY <3>1, <3>4, ElementOfSeq
    <3>7. Len(fc) \in Nat
      BY <3>1
    <3> QED
      BY <3>5, <3>6, <3>7
  <2>3. noise' # 0 /\ noise' \in Nat
    BY <2>1
  <2> QED
    BY <1>1, <2>2, <2>3 DEF CutInv
<1>4. ASSUME ReadByte PROVE CutInv'
  BY <1>1, <1>4, CutReads
<1>5. ASSUME UNCHANGED mspVars PROVE CutInv'
  BY <1>1, <1>5
  DEF CutInv, mspVars, BetweenMessages, WithinMessage, SentAre, Idle
<1> QED
  BY <1>2, <1>3, <1>4, <1>5 DEF MspNext

\* Without noise the loop cuts the stream exactly into the messages of the
\* flight controller, for any number of them and every size of inBuf
\* (control_main_air.c:526-548, msp_serial.c).
THEOREM MspCutsCleanStream == MspSpec => []CleanStreamCut
<1>1. ASSUME CutInv PROVE CleanStreamCut
  <2> SUFFICES ASSUME noise = 0
               PROVE  forwarded = [i \in 1 .. Cardinality(Heard) |-> fc[i].bytes]
    BY DEF CleanStreamCut
  <2> DEFINE n == Len(forwarded)
  <2>1. forwarded \in Seq(Seq(Byte)) /\ Len(fc) \in Nat /\ n \in Nat
    BY <1>1 DEF CutInv, SentInv
  <2>2. SentAre(n) /\ n = IF line = <<>> THEN Len(fc) ELSE Len(fc) - 1
    BY <1>1 DEF CutInv, BetweenMessages, WithinMessage, SentAre
  <2>3. Heard = 1 .. n
    BY <2>1, <2>2 DEF Heard
  <2>4. Cardinality(Heard) = n
    <3>1. Cardinality(1 .. n) = IF 1 > n THEN 0 ELSE n - 1 + 1
      <4> HIDE DEF n
      <4> QED
        BY <2>1, FS_Interval
    <3> HIDE DEF n
    <3> QED
      BY <2>1, <2>3, <3>1
  <2>5. forwarded = [i \in 1 .. n |-> forwarded[i]]
    BY <2>1
  <2> QED
    BY <2>2, <2>4, <2>5 DEF SentAre
<1> QED
  BY <1>1, CutStart, CutNext, PTL DEF MspSpec

-----------------------------------------------------------------------------
(* After one noisy byte the parser finds back.                             *)

\* What a byte does before a header.
LEMMA ReadsStart ==
    ASSUME NEW p, PortOk(p), NEW c \in Byte
    PROVE  LET q == Parsed(p, c)
           IN  /\ Idle(p) /\ c = Dollar => q.c_state = "HEADER_START"
               /\ Idle(p) /\ c # Dollar => q = p
               /\ p.c_state = "HEADER_START" =>
                     IF c = LetterM THEN q.c_state = "HEADER_M"
                     ELSE IF c = LetterX THEN q.c_state = "HEADER_X" ELSE q.c_state = "IDLE"
               /\ p.c_state = "HEADER_M" =>
                     IF c = Greater THEN q.c_state = "HEADER_V1" /\ q.offset = 0
                                    ELSE q.c_state = "IDLE"
               /\ p.c_state = "HEADER_X" =>
                     IF c = Greater THEN q.c_state = "HEADER_V2_NATIVE" /\ q.offset = 0
                                    ELSE q.c_state = "IDLE"
<1> USE DEF ParserStates, Unread, HeaderStates
<1>1. p \in Ports
  BY DEF PortOk
<1>2. \A s \in ParserStates : Goto(p, s).c_state = s
  BY <1>1, GotoIs
<1>3. \A s \in ParserStates : StartHeader(p, s).c_state = s /\ StartHeader(p, s).offset = 0
  BY <1>1, StartHeaderIs
<1> QED
  BY <1>2, <1>3, ParsedUnread

\* What a byte does to a V1 header.
LEMMA ReadsHeaderV1 ==
    ASSUME NEW p, PortOk(p), NEW c \in Byte, p.c_state = "HEADER_V1"
    PROVE  LET q == Parsed(p, c)
           IN  /\ p.offset = 0 => /\ q.c_state = "HEADER_V1" /\ q.offset = 1
                                  /\ q.inBuf[1] = c
               /\ p.offset # 0 =>
                     /\ p.offset = 1 /\ p.inBuf[1] \in Byte
                     /\ \/ q.c_state \in {"IDLE", "PAYLOAD_V1", "CHECKSUM_V1"}
                        \/ /\ q.c_state = "HEADER_V2_OVER_V1" /\ q.offset = 2
                           /\ c = FrameIdV2 /\ p.inBuf[1] >= 6
<1> USE DEF ParserStates, Unread, HeaderStates, PayloadStates, ChecksumStates
<1>1. p \in Ports /\ p.offset \in Nat
  BY DEF PortOk, Ports
<1> DEFINE r == Sum1(Take(p, c), c)
           q == Parsed(p, c)
<1>2. /\ r \in Ports /\ r.c_state = "HEADER_V1" /\ r.offset = p.offset + 1
      /\ r.inBuf = Append(p.inBuf, c)
  <2>1. LET t == Take(p, c)
        IN  /\ t \in Ports /\ t.c_state = "HEADER_V1" /\ t.offset = p.offset + 1
            /\ t.inBuf = Append(p.inBuf, c)
    BY <1>1, TakeIs
  <2> QED
    BY <2>1, SumsAre
<1>3. p.offset = Len(p.inBuf) /\ p.offset < 2 /\ p.inBuf \in Seq(Byte)
  BY DEF PortOk, Ports
<1>4. q = HeaderV1(r)
  BY ParsedHeader
<1> HIDE DEF r, q
<1>5. Len(r.inBuf) = r.offset /\ r.offset \in 1 .. 2
  BY <1>1, <1>2, <1>3
<1>6. /\ r.inBuf[p.offset + 1] = c
      /\ p.offset = 1 => r.inBuf[1] = p.inBuf[1] /\ p.inBuf[1] \in Byte
  BY <1>2, <1>3
<1>7. \/ r.offset = 1 /\ q = r
      \/ r.offset = 2 /\ q = Goto(r, "IDLE")
      \/ /\ r.offset = 2 /\ r.inBuf[2] = FrameIdV2 /\ r.inBuf[1] >= 6
         /\ q = Goto(r, "HEADER_V2_OVER_V1")
      \/ /\ r.offset = 2 /\ r.inBuf[1] \in Nat
         /\ q = StartPayload(r, r.inBuf[1], "PAYLOAD_V1", "CHECKSUM_V1")
  BY <1>2, <1>4, <1>5, HeaderV1Is
<1>8. Goto(r, "IDLE").c_state = "IDLE"
  BY <1>2, GotoIs
<1>9. /\ Goto(r, "HEADER_V2_OVER_V1").c_state = "HEADER_V2_OVER_V1"
      /\ Goto(r, "HEADER_V2_OVER_V1").offset = r.offset
  BY <1>2, GotoIs
<1>10. r.inBuf[1] \in Nat =>
          StartPayload(r, r.inBuf[1], "PAYLOAD_V1", "CHECKSUM_V1").c_state \in {"PAYLOAD_V1", "CHECKSUM_V1"}
  <2>1. "PAYLOAD_V1" \in ParserStates /\ "CHECKSUM_V1" \in ParserStates
    OBVIOUS
  <2> HIDE DEF ParserStates
  <2>2. ASSUME NEW n \in Nat
        PROVE  StartPayload(r, n, "PAYLOAD_V1", "CHECKSUM_V1").c_state \in {"PAYLOAD_V1", "CHECKSUM_V1"}
    <3> DEFINE t == StartPayload(r, n, "PAYLOAD_V1", "CHECKSUM_V1")
    <3>1. /\ t \in Ports /\ t.c_state = IF n > 0 THEN "PAYLOAD_V1" ELSE "CHECKSUM_V1"
          /\ t.offset = 0 /\ t.dataSize = n
          /\ t.checksum1 = r.checksum1 /\ t.checksum2 = r.checksum2
      BY <1>2, <2>1, StartPayloadIs
    <3> QED
      BY <3>1
  <2> QED
    BY <2>2
<1>11. CASE p.offset = 0
  <2>1. r.offset = 1 /\ q = r
    BY <1>2, <1>7, <1>11
  <2> QED
    BY <1>2, <1>6, <1>11, <2>1 DEF q
<1>12. CASE p.offset # 0
  <2>1. p.offset = 1 /\ r.offset = 2
    <3>1. p.offset = 1
      <4>1. PICK o \in Nat : o = p.offset
        BY <1>1
      <4>2. o < 2 /\ o # 0
        BY <1>3, <1>12, <4>1
      <4> QED
        BY <4>1, <4>2
    <3> QED
      BY <1>2, <3>1
  <2>2. \/ q.c_state \in {"IDLE", "PAYLOAD_V1", "CHECKSUM_V1"}
        \/ /\ q.c_state = "HEADER_V2_OVER_V1" /\ q.offset = 2
           /\ r.inBuf[2] = FrameIdV2 /\ r.inBuf[1] >= 6
    BY <1>7, <1>8, <1>9, <1>10, <2>1
  <2> QED
    BY <1>6, <1>12, <2>1, <2>2 DEF q
<1> QED
  BY <1>11, <1>12

\* What a byte does to a V2 header.
LEMMA ReadsHeaderV2 ==
    ASSUME NEW p, PortOk(p), NEW c \in Byte,
           p.c_state \in {"HEADER_V2_OVER_V1", "HEADER_V2_NATIVE"}
    PROVE  LET q == Parsed(p, c)
               first == IF p.c_state = "HEADER_V2_OVER_V1" THEN 3 ELSE 1
           IN  /\ p.offset < first + 3 => /\ q.c_state = p.c_state /\ q.offset = p.offset + 1
                                          /\ q.inBuf = Append(p.inBuf, c)
               /\ p.offset >= first + 3 =>
                     /\ p.offset = first + 3
                     /\ \/ q.c_state = "IDLE"
                        \/ /\ SizeV2(Append(p.inBuf, c), first) <= InBufSize
                           /\ q.offset = 0
                           /\ q.c_state \in IF p.c_state = "HEADER_V2_OVER_V1"
                                            THEN {"PAYLOAD_V2_OVER_V1", "CHECKSUM_V2_OVER_V1"}
                                            ELSE {"PAYLOAD_V2_NATIVE", "CHECKSUM_V2_NATIVE"}
<1> USE DEF ParserStates, Unread, HeaderStates, PayloadStates, ChecksumStates
<1>1. p \in Ports /\ p.offset \in Nat
  BY DEF PortOk, Ports
<1> DEFINE over == p.c_state = "HEADER_V2_OVER_V1"
           first == IF over THEN 3 ELSE 1
           payload == IF over THEN "PAYLOAD_V2_OVER_V1" ELSE "PAYLOAD_V2_NATIVE"
           checksum == IF over THEN "CHECKSUM_V2_OVER_V1" ELSE "CHECKSUM_V2_NATIVE"
           r == IF over THEN Sum2(Sum1(Take(p, c), c), c) ELSE Sum2(Take(p, c), c)
           q == Parsed(p, c)
<1>2. /\ r \in Ports /\ r.c_state = p.c_state /\ r.offset = p.offset + 1
      /\ r.inBuf = Append(p.inBuf, c)
  <2>1. LET t == Take(p, c)
        IN  /\ t \in Ports /\ t.c_state = p.c_state /\ t.offset = p.offset + 1
            /\ t.inBuf = Append(p.inBuf, c)
    BY <1>1, TakeIs
  <2>2. LET t == Sum1(Take(p, c), c)
        IN  /\ t \in Ports /\ t.c_state = p.c_state /\ t.offset = p.offset + 1
            /\ t.inBuf = Append(p.inBuf, c)
    BY <2>1, SumsAre
  <2> QED
    BY <2>1, <2>2, SumsAre
<1>3. p.offset = Len(p.inBuf) /\ p.offset < first + 4 /\ p.inBuf \in Seq(Byte)
  BY <1>1 DEF PortOk, Ports
<1>4. q = HeaderV2(r, first, payload, checksum)
  BY ParsedHeader
<1>5. first \in {1, 3} /\ payload \in ParserStates /\ checksum \in ParserStates
  OBVIOUS
<1> HIDE DEF r, q
<1>6. Len(r.inBuf) = r.offset /\ r.offset <= first + 4
  BY <1>1, <1>2, <1>3, <1>5
<1>7. PICK size : size = SizeV2(r.inBuf, first)
  OBVIOUS
<1>8. \/ r.offset < first + 4 /\ q = r
      \/ r.offset = first + 4 /\ q = Goto(r, "IDLE")
      \/ /\ r.offset = first + 4 /\ size \in Nat /\ size <= InBufSize
         /\ q = StartPayload(r, size, payload, checksum)
  <2> HIDE DEF first, payload, checksum, ParserStates
  <2>1. LET t == HeaderV2(r, first, payload, checksum)
            n == SizeV2(r.inBuf, first)
        IN  \/ r.offset < first + 4 /\ t = r
            \/ r.offset = first + 4 /\ ~(n <= InBufSize) /\ t = Goto(r, "IDLE")
            \/ /\ r.offset = first + 4 /\ n \in Nat /\ n <= InBufSize
               /\ t = StartPayload(r, n, payload, checksum)
    BY <1>2, <1>5, <1>6, HeaderV2Is, Zenon
  <2> QED
    BY <1>4, <1>7, <2>1
<1>9. Goto(r, "IDLE").c_state = "IDLE"
  BY <1>2, GotoIs
<1>10. size \in Nat => /\ StartPayload(r, size, payload, checksum).c_state \in {payload, checksum}
                       /\ StartPayload(r, size, payload, checksum).offset = 0
  <2> HIDE DEF payload, checksum, ParserStates
  <2> SUFFICES ASSUME size \in Nat
               PROVE  /\ StartPayload(r, size, payload, checksum).c_state \in {payload, checksum}
                      /\ StartPayload(r, size, payload, checksum).offset = 0
    OBVIOUS
  <2> DEFINE t == StartPayload(r, size, payload, checksum)
  <2>1. /\ t \in Ports /\ t.c_state = IF size > 0 THEN payload ELSE checksum
        /\ t.offset = 0 /\ t.dataSize = size
        /\ t.checksum1 = r.checksum1 /\ t.checksum2 = r.checksum2
    BY <1>2, <1>5, StartPayloadIs
  <2> QED
    BY <2>1
<1>11. CASE p.offset < first + 3
  <2>1. r.offset < first + 4
    BY <1>1, <1>2, <1>5, <1>11
  <2>2. q = r
    <3> HIDE DEF first
    <3> QED
      BY <1>1, <1>2, <1>5, <1>8, <2>1
  <2>3. ~(p.offset >= first + 3)
    BY <1>1, <1>5, <1>11
  <2> QED
    BY <1>2, <1>11, <2>2, <2>3 DEF q
<1>12. CASE ~(p.offset < first + 3)
  <2>1. p.offset = first + 3 /\ r.offset = first + 4
    BY <1>1, <1>2, <1>3, <1>5, <1>12
  <2>2. \/ q.c_state = "IDLE"
        \/ size <= InBufSize /\ q.offset = 0 /\ q.c_state \in {payload, checksum}
    <3> HIDE DEF first, payload, checksum
    <3>1. ~(r.offset < first + 4)
      BY <1>5, <2>1
    <3> QED
      BY <1>8, <1>9, <1>10, <3>1
  <2> QED
    BY <1>2, <1>7, <1>12, <2>1, <2>2 DEF q
<1> QED
  BY <1>11, <1>12

\* What a byte does to a payload.
LEMMA ReadsPayload ==
    ASSUME NEW p, PortOk(p), NEW c \in Byte, p.c_state \in PayloadStates
    PROVE  LET q == Parsed(p, c)
           IN  /\ q.offset = p.offset + 1 /\ p.offset < p.dataSize /\ p.dataSize <= InBufSize
               /\ \/ q.c_state = p.c_state
                  \/ /\ p.offset + 1 = p.dataSize
                     /\ p.c_state = "PAYLOAD_V1" => q.c_state = "CHECKSUM_V1"
                     /\ p.c_state = "PAYLOAD_V2_NATIVE" => q.c_state = "CHECKSUM_V2_NATIVE"
                     /\ p.c_state = "PAYLOAD_V2_OVER_V1" => q.c_state = "CHECKSUM_V2_OVER_V1"
<1> USE DEF ParserStates, Unread, HeaderStates, PayloadStates, ChecksumStates
<1>1. p \in Ports
  BY DEF PortOk
<1>2. PICK r \in Ports, checksum \in ChecksumStates :
         /\ Parsed(p, c) = Payload(r, checksum)
         /\ r.c_state = p.c_state /\ r.offset = p.offset /\ r.dataSize = p.dataSize
         /\ p.c_state = "PAYLOAD_V1" => checksum = "CHECKSUM_V1"
         /\ p.c_state = "PAYLOAD_V2_NATIVE" => checksum = "CHECKSUM_V2_NATIVE"
         /\ p.c_state = "PAYLOAD_V2_OVER_V1" => checksum = "CHECKSUM_V2_OVER_V1"
  BY <1>1, ParsedPayload, SumsAre
<1> DEFINE q == Payload(r, checksum)
<1>3. /\ q.c_state = IF r.offset + 1 = r.dataSize THEN checksum ELSE r.c_state
      /\ q.offset = r.offset + 1
  BY <1>2, PayloadIs
<1>4. p.offset < p.dataSize /\ p.dataSize <= InBufSize
  BY DEF PortOk
<1> HIDE DEF q
<1> QED
  BY <1>2, <1>3, <1>4 DEF q

\* What a byte does when a checksum is due.
LEMMA ReadsChecksum ==
    ASSUME NEW p, PortOk(p), NEW c \in Byte, p.c_state \in ChecksumStates
    PROVE  LET q == Parsed(p, c)
           IN  Idle(q) \/ (p.c_state = "CHECKSUM_V2_OVER_V1" /\ q.c_state = "CHECKSUM_V1")
<1> USE DEF ParserStates, Unread, HeaderStates, PayloadStates, ChecksumStates
<1>1. p \in Ports
  BY DEF PortOk
<1>2. PICK r \in Ports, s \in Unread \cup ChecksumStates :
         /\ Parsed(p, c) = Goto(r, s)
         /\ s \in {"IDLE", "COMMAND_RECEIVED"} \/ (p.c_state = "CHECKSUM_V2_OVER_V1" /\ s = "CHECKSUM_V1")
  BY <1>1, ParsedChecksum, SumsAre DEF Verified
<1>3. Goto(r, s).c_state = s
  BY <1>2, GotoIs
<1> QED
  BY <1>2, <1>3 DEF Idle

\* l, the rest of a damaged message, goes on far enough behind a header that
\* begins with its j-th byte.
LooksOverV1(cmd, size) == cmd = FrameIdV2 /\ size >= 6
Room(l, j) == Len(l) >= j + 2 /\ (LooksOverV1(l[j + 1], l[j]) => Len(l) >= j + 7)

\* What parser p may have in front of it of a damaged message: no '$' but the
\* noisy byte, and any header it can still begin or is in ends within l.
Goes(p, l) ==
    /\ \A i \in 2 .. Len(l) : l[i] # Dollar
    /\ Idle(p) /\ Len(l) > 0 /\ l[1] = Dollar => Room(l, 4)
    /\ p.c_state = "HEADER_START" =>
          (Len(l) > 1 /\ l[1] \in {LetterM, LetterX} /\ l[2] = Greater => Room(l, 3))
    /\ p.c_state \in {"HEADER_M", "HEADER_X"} /\ Len(l) > 0 /\ l[1] = Greater => Room(l, 2)
    /\ p.c_state = "HEADER_V1" =>
          \/ p.offset = 0 /\ Len(l) >= 2 /\ (LooksOverV1(l[2], l[1]) => Len(l) >= 8)
          \/ p.offset = 1 /\ Len(l) >= 1 /\ (LooksOverV1(l[1], p.inBuf[1]) => Len(l) >= 7)
    /\ p.c_state = "HEADER_V2_OVER_V1" => p.offset + Len(l) >= 8
    /\ p.c_state = "HEADER_V2_NATIVE" => p.offset + Len(l) >= 3
    /\ p.c_state = "PAYLOAD_V2_OVER_V1" => p.offset + Len(l) > 0

\* The first byte is read.
LEMMA RoomTail ==
    ASSUME NEW l \in Seq(Byte), NEW j \in 1 .. 3, Room(l, j + 1)
    PROVE  Room(Tail(l), j)
<1>1. Len(l) >= j + 3 /\ Len(l) \in Nat
  BY DEF Room
<1>2. Len(Tail(l)) = Len(l) - 1 /\ \A i \in 1 .. Len(l) - 1 : Tail(l)[i] = l[i + 1]
  BY <1>1
<1>3. Tail(l)[j] = l[j + 1] /\ Tail(l)[j + 1] = l[(j + 1) + 1]
  BY <1>1, <1>2
<1>4. LooksOverV1(l[(j + 1) + 1], l[j + 1]) => Len(l) >= (j + 1) + 7
  BY DEF Room
<1>5. LooksOverV1(Tail(l)[j + 1], Tail(l)[j]) => Len(l) >= (j + 1) + 7
  BY <1>3, <1>4
<1> HIDE DEF LooksOverV1
<1> QED
  BY <1>1, <1>2, <1>5 DEF Room

\* The parser goes on so.
LEMMA GoesOn ==
    ASSUME NEW p, PortOk(p), NEW l \in Seq(Byte), Len(l) > 0, Goes(p, l)
    PROVE  Goes(Parsed(p, l[1]), Tail(l))
<1> DEFINE c == l[1]
           q == Parsed(p, c)
           t == Tail(l)
<1>1. /\ c \in Byte /\ Len(l) \in Nat \ {0} /\ t \in Seq(Byte) /\ Len(t) = Len(l) - 1
      /\ \A i \in 1 .. Len(t) : t[i] = l[i + 1]
  OBVIOUS
<1>2. \A i \in 1 .. Len(t) : t[i] # Dollar
  <2>1. ASSUME NEW i \in 1 .. Len(t) PROVE t[i] # Dollar
    <3>1. i + 1 \in 2 .. Len(l)
      BY <1>1
    <3> QED
      BY <1>1, <3>1 DEF Goes
  <2> QED
    BY <2>1
<1>3. p \in Ports /\ p.c_state \in ParserStates /\ p.offset \in Nat
  BY DEF PortOk, Ports
<1> SUFFICES Goes(q, t)
  OBVIOUS
<1> HIDE DEF c, q, t
<1>4. ASSUME \/ q.c_state \in {"PAYLOAD_V1", "PAYLOAD_V2_NATIVE"} \cup ChecksumStates
             \/ Idle(q)
      PROVE  Goes(q, t)
  <2>1. Len(t) > 0 => t[1] # Dollar
    BY <1>1, <1>2
  <2>2. \A i \in 2 .. Len(t) : t[i] # Dollar
    BY <1>1, <1>2
  <2>3. /\ q.c_state # "HEADER_START" /\ q.c_state # "HEADER_M" /\ q.c_state # "HEADER_X"
        /\ q.c_state # "HEADER_V1" /\ q.c_state # "HEADER_V2_OVER_V1"
        /\ q.c_state # "HEADER_V2_NATIVE" /\ q.c_state # "PAYLOAD_V2_OVER_V1"
    BY <1>4 DEF ChecksumStates, Idle
  <2> QED
    BY <2>1, <2>2, <2>3 DEF Goes
<1>5. \A i \in 2 .. Len(t) : t[i] # Dollar
  BY <1>1, <1>2
<1>6. CASE Idle(p)
  <2>1. CASE c = Dollar
    <3>1. q.c_state = "HEADER_START"
      BY <1>1, <1>6, <2>1, ReadsStart DEF q
    <3>2. Room(l, 4)
      BY <1>1, <1>6, <2>1 DEF Goes, c
    <3>3. Room(t, 3)
      BY <3>2, RoomTail DEF t
    <3> QED
      BY <1>5, <3>1, <3>3 DEF Goes, Idle
  <2>2. CASE c # Dollar
    <3>1. Idle(q)
      BY <1>1, <1>6, <2>2, ReadsStart DEF q
    <3> QED
      BY <1>4, <3>1
  <2> QED
    BY <2>1, <2>2
<1>7. CASE p.c_state = "HEADER_START"
  <2>1. CASE c \in {LetterM, LetterX}
    <3>1. q.c_state \in {"HEADER_M", "HEADER_X"}
      BY <1>1, <1>7, <2>1, ReadsStart DEF q
    <3>2. ASSUME Len(t) > 0, t[1] = Greater PROVE Room(t, 2)
      <4>1. Len(l) > 1 /\ l[2] = Greater
        BY <1>1, <3>2
      <4>2. Room(l, 3)
        BY <1>7, <2>1, <4>1 DEF Goes, c
      <4> QED
        BY <4>2, RoomTail DEF t
    <3> QED
      BY <1>5, <3>1, <3>2 DEF Goes, Idle
  <2>2. CASE c \notin {LetterM, LetterX}
    <3>1. q.c_state = "IDLE"
      BY <1>1, <1>7, <2>2, ReadsStart DEF q
    <3> QED
      BY <1>4, <3>1 DEF Idle
  <2> QED
    BY <2>1, <2>2
<1>8. CASE p.c_state \in {"HEADER_M", "HEADER_X"}
  <2>1. CASE c = Greater
    <3>1. q.c_state \in {"HEADER_V1", "HEADER_V2_NATIVE"} /\ q.offset = 0
      BY <1>1, <1>8, <2>1, ReadsStart DEF q
    <3>2. Room(l, 2)
      BY <1>1, <1>8, <2>1 DEF Goes, c
    <3>3. Room(t, 1)
      BY <3>2, RoomTail DEF t
    <3>4. Len(t) >= 3 /\ (LooksOverV1(t[2], t[1]) => Len(t) >= 8) /\ Len(t) \in Nat
      BY <1>1, <3>3 DEF Room
    <3>5. Len(t) >= 2 /\ q.offset + Len(t) >= 3
      BY <3>1, <3>4
    <3> QED
      BY <1>5, <3>1, <3>4, <3>5 DEF Goes, Idle
  <2>2. CASE c # Greater
    <3>1. q.c_state = "IDLE"
      BY <1>1, <1>8, <2>2, ReadsStart DEF q
    <3> QED
      BY <1>4, <3>1 DEF Idle
  <2> QED
    BY <2>1, <2>2
<1>9. CASE p.c_state = "HEADER_V1"
  <2>1. CASE p.offset = 0
    <3>1. q.c_state = "HEADER_V1" /\ q.offset = 1 /\ q.inBuf[1] = c
      BY <1>1, <1>9, <2>1, ReadsHeaderV1 DEF q
    <3>2. Len(l) >= 2 /\ (LooksOverV1(l[2], c) => Len(l) >= 8)
      BY <1>9, <2>1 DEF Goes, c
    <3>3. Len(t) >= 1 /\ t[1] = l[2] /\ (Len(l) >= 8 => Len(t) >= 7)
      BY <1>1, <3>2
    <3> QED
      BY <1>5, <3>1, <3>2, <3>3 DEF Goes, Idle
  <2>2. CASE p.offset # 0
    <3>1. \/ q.c_state \in {"IDLE", "PAYLOAD_V1", "CHECKSUM_V1"}
          \/ /\ q.c_state = "HEADER_V2_OVER_V1" /\ q.offset = 2
             /\ c = FrameIdV2 /\ p.inBuf[1] >= 6
      BY <1>1, <1>9, <2>2, ReadsHeaderV1 DEF q
    <3>2. CASE q.c_state \in {"IDLE", "PAYLOAD_V1", "CHECKSUM_V1"}
      BY <1>4, <3>2 DEF Idle, ChecksumStates
    <3>3. CASE /\ q.c_state = "HEADER_V2_OVER_V1" /\ q.offset = 2
               /\ c = FrameIdV2 /\ p.inBuf[1] >= 6
      <4>1. Len(l) >= 7
        BY <1>9, <2>2, <3>3 DEF Goes, c, LooksOverV1
      <4>2. q.offset + Len(t) >= 8
        BY <1>1, <3>3, <4>1
      <4> QED
        BY <1>5, <3>3, <4>2 DEF Goes, Idle
    <3> QED
      BY <3>1, <3>2, <3>3
  <2> QED
    BY <2>1, <2>2
<1>10. CASE p.c_state = "HEADER_V2_OVER_V1"
  <2>1. p.offset + Len(l) >= 8
    BY <1>10 DEF Goes
  <2>2. CASE p.offset < 6
    <3>1. q.c_state = "HEADER_V2_OVER_V1" /\ q.offset = p.offset + 1
      BY <1>1, <1>10, <2>2, ReadsHeaderV2 DEF q
    <3>2. q.offset + Len(t) >= 8
      BY <1>1, <1>3, <2>1, <3>1
    <3> QED
      BY <1>5, <3>1, <3>2 DEF Goes, Idle
  <2>3. CASE ~(p.offset < 6)
    <3>1. p.offset >= 6
      BY <1>3, <2>3
    <3>2. /\ p.offset = 6
          /\ \/ q.c_state = "IDLE"
             \/ q.offset = 0 /\ q.c_state \in {"PAYLOAD_V2_OVER_V1", "CHECKSUM_V2_OVER_V1"}
      BY <1>1, <1>10, <3>1, ReadsHeaderV2 DEF q
    <3>3. Len(t) > 0 /\ (q.offset = 0 => q.offset + Len(t) > 0)
      BY <1>1, <2>1, <3>2
    <3>4. CASE q.c_state \in {"IDLE", "CHECKSUM_V2_OVER_V1"}
      BY <1>4, <3>4 DEF Idle, ChecksumStates
    <3>5. CASE q.offset = 0 /\ q.c_state = "PAYLOAD_V2_OVER_V1"
      BY <1>5, <3>3, <3>5 DEF Goes, Idle
    <3> QED
      BY <3>2, <3>4, <3>5
  <2> QED
    BY <2>2, <2>3
<1>11. CASE p.c_state = "HEADER_V2_NATIVE"
  <2>1. p.offset + Len(l) >= 3
    BY <1>11 DEF Goes
  <2>2. CASE p.offset < 4
    <3>1. q.c_state = "HEADER_V2_NATIVE" /\ q.offset = p.offset + 1
      BY <1>1, <1>11, <2>2, ReadsHeaderV2 DEF q
    <3>2. q.offset + Len(t) >= 3
      BY <1>1, <1>3, <2>1, <3>1
    <3> QED
      BY <1>5, <3>1, <3>2 DEF Goes, Idle
  <2>3. CASE ~(p.offset < 4)
    <3>1. p.offset >= 4
      BY <1>3, <2>3
    <3>2. q.c_state \in {"IDLE", "PAYLOAD_V2_NATIVE", "CHECKSUM_V2_NATIVE"}
      BY <1>1, <1>11, <3>1, ReadsHeaderV2 DEF q
    <3> QED
      BY <1>4, <3>2 DEF Idle, ChecksumStates
  <2> QED
    BY <2>2, <2>3
<1>12. CASE p.c_state \in PayloadStates
  <2>1. /\ q.offset = p.offset + 1
        /\ q.c_state \in {p.c_state} \cup ChecksumStates
    BY <1>1, <1>12, ReadsPayload DEF q, PayloadStates, ChecksumStates
  <2>2. CASE q.c_state = "PAYLOAD_V2_OVER_V1"
    <3>1. q.offset + Len(t) > 0
      BY <1>1, <1>3, <2>1
    <3> QED
      BY <1>5, <2>2, <3>1 DEF Goes, Idle
  <2>3. CASE q.c_state # "PAYLOAD_V2_OVER_V1"
    BY <1>4, <1>12, <2>1, <2>3 DEF PayloadStates
  <2> QED
    BY <2>2, <2>3
<1>13. CASE p.c_state \in ChecksumStates
  <2>1. Idle(q) \/ q.c_state = "CHECKSUM_V1"
    BY <1>1, <1>13, ReadsChecksum DEF q
  <2> QED
    BY <1>4, <2>1 DEF ChecksumStates
<1>14. \/ Idle(p) \/ p.c_state = "HEADER_START" \/ p.c_state \in {"HEADER_M", "HEADER_X"}
       \/ p.c_state = "HEADER_V1" \/ p.c_state = "HEADER_V2_OVER_V1"
       \/ p.c_state = "HEADER_V2_NATIVE" \/ p.c_state \in PayloadStates
       \/ p.c_state \in ChecksumStates
  BY <1>3 DEF ParserStates, Unread, HeaderStates, Idle
<1> QED
  BY <1>6, <1>7, <1>8, <1>9, <1>10, <1>11, <1>12, <1>13, <1>14

\* The parser waits for a payload or a checksum, and e bytes of messages have
\* gone into that.
Eats(p, e) ==
    \/ p.c_state \in {"PAYLOAD_V1", "PAYLOAD_V2_NATIVE"} /\ e <= p.offset
    \/ p.c_state = "PAYLOAD_V2_OVER_V1" /\ e < p.offset
    \/ p.c_state \in {"CHECKSUM_V1", "CHECKSUM_V2_NATIVE"} /\ e <= InBufSize
    \/ p.c_state = "CHECKSUM_V2_OVER_V1" /\ e < InBufSize

\* One more; they never exceed inBuf.
LEMMA EatsOn ==
    ASSUME NEW p, PortOk(p), NEW c \in Byte, NEW e \in Nat, Eats(p, e)
    PROVE  /\ e <= InBufSize
           /\ Idle(Parsed(p, c)) \/ \A f \in Nat : f <= e + 1 => Eats(Parsed(p, c), f)
<1> USE DEF PayloadStates, ChecksumStates
<1> DEFINE q == Parsed(p, c)
<1>1. p.offset \in Nat /\ p.dataSize \in Nat /\ InBufSize \in Nat /\ p.offset <= InBufSize
  BY MspAssumption DEF PortOk, Ports
<1>2. e <= InBufSize
  BY <1>1 DEF Eats
<1> HIDE DEF q
<1>3. CASE p.c_state \in PayloadStates
  <2>1. /\ q.offset = p.offset + 1 /\ p.offset < p.dataSize /\ p.dataSize <= InBufSize
        /\ \/ q.c_state = p.c_state
           \/ /\ p.offset + 1 = p.dataSize
              /\ p.c_state = "PAYLOAD_V1" => q.c_state = "CHECKSUM_V1"
              /\ p.c_state = "PAYLOAD_V2_NATIVE" => q.c_state = "CHECKSUM_V2_NATIVE"
              /\ p.c_state = "PAYLOAD_V2_OVER_V1" => q.c_state = "CHECKSUM_V2_OVER_V1"
    BY <1>3, ReadsPayload DEF q
  <2>2. ASSUME NEW f \in Nat, f <= e + 1 PROVE Eats(q, f)
    <3>1. CASE p.c_state = "PAYLOAD_V2_OVER_V1"
      <4>1. e < p.offset
        BY <3>1 DEF Eats
      <4>2. f < p.offset + 1
        BY <1>1, <2>2, <4>1
      <4>3. f < q.offset /\ (p.offset + 1 = p.dataSize => f < InBufSize)
        BY <1>1, <2>1, <4>2
      <4> QED
        BY <2>1, <3>1, <4>3 DEF Eats
    <3>2. CASE p.c_state # "PAYLOAD_V2_OVER_V1"
      <4>1. e <= p.offset
        BY <1>3, <3>2 DEF Eats
      <4>2. f <= q.offset /\ f <= InBufSize
        BY <1>1, <2>1, <2>2, <4>1
      <4> QED
        BY <1>3, <2>1, <3>2, <4>2 DEF Eats
    <3> QED
      BY <3>1, <3>2
  <2> QED
    BY <1>2, <2>2 DEF q
<1>4. CASE p.c_state \in ChecksumStates
  <2>1. Idle(q) \/ (p.c_state = "CHECKSUM_V2_OVER_V1" /\ q.c_state = "CHECKSUM_V1")
    BY <1>4, ReadsChecksum DEF q
  <2>2. ASSUME p.c_state = "CHECKSUM_V2_OVER_V1", q.c_state = "CHECKSUM_V1", NEW f \in Nat, f <= e + 1
        PROVE  Eats(q, f)
    <3>1. e < InBufSize
      BY <2>2 DEF Eats
    <3> QED
      BY <1>1, <2>2, <3>1 DEF Eats
  <2> QED
    BY <1>2, <2>1, <2>2 DEF q
<1> QED
  BY <1>3, <1>4 DEF Eats

\* What the parser has read of the message it is in.
LEMMA AttemptAt ==
    ASSUME NEW p, PortOk(p), NEW b \in Seq(Byte), Attempted(b, p)
    PROVE  /\ p.c_state = "HEADER_START" => Len(b) = 1
           /\ p.c_state \in {"HEADER_M", "HEADER_X"} => Len(b) = 2
           /\ p.c_state = "HEADER_V1" => Len(b) = 3 + p.offset /\ (p.offset = 1 => p.inBuf[1] = b[4])
           /\ p.c_state = "HEADER_V2_OVER_V1" => Len(b) = 3 + p.offset /\ b[5] = FrameIdV2 /\ p.offset >= 2
           /\ p.c_state = "HEADER_V2_NATIVE" => Len(b) = 3 + p.offset /\ b[2] = LetterX
           /\ p.c_state = "PAYLOAD_V2_OVER_V1" => Len(b) = 10 + p.offset /\ b[5] = FrameIdV2
<1>1. /\ p.c_state \in HeaderStates => p.offset = Len(p.inBuf)
      /\ p.c_state = "HEADER_V2_OVER_V1" => p.offset \in 2 .. 6
  BY DEF PortOk
<1>2. p.offset \in Nat
  BY DEF PortOk, Ports
<1>3. ASSUME NEW pre \in {StartM, StartX}, NEW cont \in Seq(Byte), b = pre \o cont
      PROVE  /\ Len(b) = 3 + Len(cont) /\ \A i \in 1 .. Len(cont) : b[3 + i] = cont[i]
             /\ pre = StartX => b[2] = LetterX
  <2>1. pre \in Seq(Byte) /\ Len(pre) = 3 /\ (pre = StartX => pre[2] = LetterX)
    <3>1. StartX[2] = LetterX
      BY DEF StartX
    <3> QED
      BY <3>1, StartTypes
  <2>2. /\ Len(b) = Len(pre) + Len(cont)
        /\ \A i \in 1 .. Len(pre) + Len(cont) : b[i] = IF i <= Len(pre) THEN pre[i] ELSE cont[i - Len(pre)]
    BY <1>3, <2>1, ConcatProperties
  <2>3. /\ Len(b) = 3 + Len(cont)
        /\ \A i \in 1 .. 3 + Len(cont) : b[i] = IF i <= 3 THEN pre[i] ELSE cont[i - 3]
    BY <2>1, <2>2
  <2>4. b[2] = pre[2]
    BY <2>3
  <2>5. ASSUME NEW i \in 1 .. Len(cont) PROVE b[3 + i] = cont[i]
    <3>1. 3 + i \in 1 .. 3 + Len(cont) /\ ~(3 + i <= 3) /\ (3 + i) - 3 = i
      OBVIOUS
    <3> QED
      BY <2>3, <3>1
  <2> QED
    BY <2>1, <2>3, <2>4, <2>5
<1>4. CASE p.c_state \in {"HEADER_START", "HEADER_M", "HEADER_X"}
  <2>1. /\ p.c_state = "HEADER_START" => b = <<Dollar>>
        /\ p.c_state \in {"HEADER_M", "HEADER_X"} => b \in {<<Dollar, LetterM>>, <<Dollar, LetterX>>}
    BY <1>4 DEF Attempted, NativeStates, PlainV1States, OverV1States
  <2> QED
    BY <1>4, <2>1
<1>5. CASE p.c_state = "HEADER_V2_NATIVE"
  <2>1. PICK body \in Seq(Byte) : b = StartX \o body /\ p.inBuf = body
    BY <1>5 DEF Attempted, NativeStates, PlainV1States, OverV1States, NativeRead
  <2>2. Len(b) = 3 + Len(body) /\ b[2] = LetterX
    BY <1>3, <2>1
  <2> QED
    BY <1>1, <1>5, <2>1, <2>2 DEF HeaderStates
<1>6. CASE p.c_state = "HEADER_V1"
  <2>1. PICK cont \in Seq(Byte) : b = StartM \o cont /\ p.inBuf = cont
    BY <1>6 DEF Attempted, NativeStates, PlainV1States, OverV1States, PlainV1Read
  <2>2. Len(b) = 3 + Len(cont) /\ \A i \in 1 .. Len(cont) : b[3 + i] = cont[i]
    BY <1>3, <2>1
  <2>3. p.offset = Len(cont)
    BY <1>1, <1>6, <2>1 DEF HeaderStates
  <2>4. p.offset = 1 => b[4] = cont[1]
    <3>1. p.offset = 1 => b[3 + 1] = cont[1]
      BY <2>2, <2>3
    <3> QED
      BY <3>1
  <2> QED
    BY <1>6, <2>1, <2>2, <2>3, <2>4
<1>7. CASE p.c_state \in {"HEADER_V2_OVER_V1", "PAYLOAD_V2_OVER_V1"}
  <2>1. PICK cont \in Seq(Byte) : b = StartM \o cont /\ OverV1Read(cont, p)
    BY <1>7 DEF Attempted, NativeStates, PlainV1States, OverV1States
  <2>2. Len(b) = 3 + Len(cont) /\ \A i \in 1 .. Len(cont) : b[3 + i] = cont[i]
    BY <1>3, <2>1
  <2>3. PICK size \in Byte, body \in Seq(Byte) :
           /\ cont = <<size, FrameIdV2>> \o body
           /\ p.c_state = "PAYLOAD_V2_OVER_V1" => Len(body) = 5 + p.offset
    BY <2>1 DEF OverV1Read, BodyRead
  <2>4. Len(cont) = 2 + Len(body) /\ cont[2] = FrameIdV2 /\ 2 \in 1 .. Len(cont)
    <3>1. <<size, FrameIdV2>> \in Seq(Byte)
      BY DEF FrameIdV2, Byte
    <3> DEFINE pre == <<size, FrameIdV2>>
    <3>2. Len(pre) = 2 /\ pre[2] = FrameIdV2
      OBVIOUS
    <3> HIDE DEF pre
    <3>3. /\ Len(cont) = Len(pre) + Len(body)
          /\ \A i \in 1 .. Len(pre) + Len(body) : cont[i] = IF i <= Len(pre) THEN pre[i] ELSE body[i - Len(pre)]
      BY <2>3, <3>1, ConcatProperties DEF pre
    <3> QED
      BY <3>2, <3>3
  <2>5. b[5] = FrameIdV2
    <3>1. b[3 + 2] = cont[2]
      BY <2>2, <2>4
    <3> QED
      BY <2>4, <3>1
  <2>6. CASE p.c_state = "HEADER_V2_OVER_V1"
    <3>1. p.inBuf = cont
      BY <2>1, <2>6 DEF OverV1Read
    <3> QED
      BY <1>1, <2>2, <2>5, <2>6, <3>1 DEF HeaderStates
  <2>7. CASE p.c_state = "PAYLOAD_V2_OVER_V1"
    <3>1. Len(b) = 10 + p.offset
      BY <1>2, <2>2, <2>3, <2>4, <2>7
    <3> QED
      BY <2>5, <2>7, <3>1
  <2> QED
    BY <1>7, <2>6, <2>7
<1> QED
  BY <1>4, <1>5, <1>6, <1>7

\* A message in which a noisy byte does not make a header longer than the message.
Sturdy(m) ==
    /\ m \in Seq(Byte) /\ Len(m) >= 6
    /\ m[1] = Dollar /\ m[2] \in {LetterM, LetterX} /\ m[3] = Greater /\ m[4] # Greater
    /\ m[2] = LetterX => Len(m) >= 9
    /\ Len(m) >= 13 \/ (m[4] < 6 /\ m[5] < 6)

\* A byte of the message gets lost or changes while the parser is in step.
LEMMA GoesDamaged ==
    ASSUME NEW m, Sturdy(m), \A i \in 2 .. Len(m) : m[i] # Dollar,
           NEW p, PortOk(p), NEW b \in Seq(Byte), NEW l \in Seq(Byte), Rest(m, b, l), Len(l) > 0,
           (Idle(p) /\ Len(b) = 0) \/ Attempted(b, p),
           NEW k \in Seq(Byte), NEW n \in {0, 1}, Len(k) = Len(l) - 1 + n,
           \A i \in 1 .. Len(l) - 1 : k[n + i] = l[i + 1]
    PROVE  Goes(p, k)
<1>1. /\ m \in Seq(Byte) /\ Len(m) \in Nat /\ Len(m) >= 6
      /\ m[1] = Dollar /\ m[3] = Greater /\ m[4] # Greater
      /\ m[2] = LetterX => Len(m) >= 9
      /\ Len(m) >= 13 \/ (m[4] < 6 /\ m[5] < 6)
  BY DEF Sturdy
<1>2. PICK B \in Nat, M \in Nat : B = Len(b) /\ M = Len(m)
  BY <1>1
<1>3. /\ Len(l) = M - B /\ B < M /\ Len(k) = M - B - 1 + n /\ Len(k) \in Nat
      /\ \A i \in 1 .. M - B : l[i] = m[B + i]
      /\ \A i \in 1 .. B : b[i] = m[i]
  <2>1. M = B + Len(l) /\ Len(l) \in Nat \ {0}
    BY <1>2 DEF Rest
  <2> QED
    BY <1>2, <2>1 DEF Rest, Begins
<1>4. ASSUME NEW i \in Nat, i > n, i <= Len(k)
      PROVE  k[i] = m[B + i + 1 - n] /\ B + i + 1 - n \in 2 .. M
  <2>1. PICK j \in Nat : j = i - n
    BY <1>4
  <2>2. /\ j \in 1 .. Len(l) - 1 /\ i = n + j /\ j + 1 \in 1 .. M - B
        /\ B + (j + 1) = B + i + 1 - n
    BY <1>3, <1>4, <2>1
  <2>3. k[i] = l[j + 1] /\ l[j + 1] = m[B + (j + 1)]
    BY <1>3, <2>2
  <2> QED
    BY <1>3, <1>4, <2>2, <2>3
<1>5. \A i \in 2 .. Len(k) : k[i] # Dollar
  <2>1. ASSUME NEW i \in 2 .. Len(k) PROVE k[i] # Dollar
    <3>1. i \in Nat /\ i > n /\ i <= Len(k)
      OBVIOUS
    <3> QED
      BY <1>2, <1>4, <3>1
  <2> QED
    BY <2>1
<1>6. \A cmd, size : LooksOverV1(cmd, size) => cmd = 255 /\ ~(cmd < 6) /\ size >= 6
  BY DEF LooksOverV1, FrameIdV2
<1>7. ASSUME NEW j \in 2 .. 4, B + j = 4, n = 1 PROVE Room(k, j)
  <2>1. Len(k) >= j + 2 /\ k[j + 1] = m[5] /\ k[j] = m[4]
    <3>1. Len(k) >= j + 2
      BY <1>1, <1>2, <1>3, <1>7
    <3>2. /\ j \in Nat /\ j > n /\ j <= Len(k)
          /\ j + 1 \in Nat /\ j + 1 > n /\ j + 1 <= Len(k)
      BY <1>3, <1>7, <3>1
    <3>3. k[j + 1] = m[B + (j + 1) + 1 - n] /\ k[j] = m[B + j + 1 - n]
      BY <1>4, <3>2
    <3>4. B + (j + 1) + 1 - n = 5 /\ B + j + 1 - n = 4
      BY <1>7
    <3> QED
      BY <3>1, <3>3, <3>4
  <2>2. LooksOverV1(k[j + 1], k[j]) => M >= 13
    BY <1>1, <1>2, <1>6, <2>1
  <2>3. M >= 13 => Len(k) >= j + 7
    BY <1>3, <1>7
  <2> QED
    BY <2>1, <2>2, <2>3 DEF Room
<1>8. ASSUME n = 0 PROVE Len(k) > 0 => k[1] = m[B + 2]
  BY <1>3, <1>4, <1>8
<1>9. CASE Idle(p) /\ B = 0
  <2>1. Len(k) > 0 /\ k[1] = Dollar => n = 1
    <3>1. m[2] # Dollar
      BY <1>1
    <3> QED
      BY <1>8, <1>9, <3>1
  <2>2. Len(k) > 0 /\ k[1] = Dollar => Room(k, 4)
    BY <1>7, <1>9, <2>1
  <2> QED
    BY <1>5, <1>9, <2>2 DEF Goes, Idle
<1>10. CASE Attempted(b, p)
  <2>1. /\ p.c_state = "HEADER_START" => B = 1
        /\ p.c_state \in {"HEADER_M", "HEADER_X"} => B = 2
        /\ p.c_state = "HEADER_V1" => B = 3 + p.offset /\ (p.offset = 1 => p.inBuf[1] = b[4])
        /\ p.c_state = "HEADER_V2_OVER_V1" => B = 3 + p.offset /\ b[5] = FrameIdV2 /\ p.offset >= 2
        /\ p.c_state = "HEADER_V2_NATIVE" => B = 3 + p.offset /\ b[2] = LetterX
        /\ p.c_state = "PAYLOAD_V2_OVER_V1" => B = 10 + p.offset /\ b[5] = FrameIdV2
    BY <1>2, <1>10, AttemptAt
  <2>2. ~Idle(p) /\ p.offset \in Nat /\ (p.c_state = "HEADER_V1" => p.offset < 2)
    BY <1>10, AttemptedBusy DEF PortOk, Ports
  <2>3. ASSUME p.c_state = "HEADER_START", Len(k) > 1, k[1] \in {LetterM, LetterX}
        PROVE  Room(k, 3)
    <3>1. n = 1
      <4>1. n = 0 => k[1] = Greater
        BY <1>1, <1>8, <2>1, <2>3
      <4> QED
        BY <2>3, <4>1 DEF LetterM, LetterX, Greater
    <3> QED
      BY <1>7, <2>1, <2>3, <3>1
  <2>4. ASSUME p.c_state \in {"HEADER_M", "HEADER_X"}, Len(k) > 0, k[1] = Greater
        PROVE  Room(k, 2)
    <3>1. n = 1
      <4>1. n = 0 => k[1] = m[4]
        BY <1>8, <2>1, <2>4
      <4> QED
        BY <1>1, <2>4, <4>1
    <3> QED
      BY <1>7, <2>1, <2>4, <3>1
  <2>5. ASSUME p.c_state = "HEADER_V1"
        PROVE  \/ p.offset = 0 /\ Len(k) >= 2 /\ (LooksOverV1(k[2], k[1]) => Len(k) >= 8)
               \/ p.offset = 1 /\ Len(k) >= 1 /\ (LooksOverV1(k[1], p.inBuf[1]) => Len(k) >= 7)
    <3>1. CASE p.offset = 0
      <4>1. B = 3 /\ Len(k) >= 2 /\ (M >= 13 => Len(k) >= 8)
        <5>1. B = 3 /\ M >= 6
          <6>1. B = 3 + p.offset
            BY <2>1, <2>5
          <6>2. M >= 6
            BY <1>1, <1>2
          <6> QED
            BY <3>1, <6>1, <6>2
        <5> QED
          BY <1>3, <5>1
      <4>2. LooksOverV1(k[2], k[1]) => M >= 13
        <5>1. CASE n = 1
          <6>1. k[2] = m[B + 2 + 1 - n] /\ B + 2 + 1 - n = 5
            BY <1>4, <4>1, <5>1
          <6> QED
            BY <1>1, <1>2, <1>6, <6>1
        <5>2. CASE n = 0
          <6>1. k[1] = m[5]
            BY <1>8, <4>1, <5>2
          <6>2. m[5] \in Nat
            <7>1. 5 \in 1 .. Len(m)
              BY <1>1
            <7>2. m[5] \in Byte
              BY <1>1, <7>1
            <7> QED
              BY <7>2, ByteFacts
          <6>3. LooksOverV1(k[2], k[1]) => ~(m[5] < 6)
            BY <1>6, <6>1, <6>2
          <6> QED
            BY <1>1, <1>2, <6>3
        <5> QED
          BY <5>1, <5>2
      <4> QED
        BY <3>1, <4>1, <4>2
    <3>2. CASE p.offset = 1
      <4>1. B = 4 /\ Len(k) >= 1 /\ (M >= 13 => Len(k) >= 7)
        <5>1. B = 4 /\ M >= 6
          <6>1. B = 3 + p.offset
            BY <2>1, <2>5
          <6>2. M >= 6
            BY <1>1, <1>2
          <6> QED
            BY <3>2, <6>1, <6>2
        <5> QED
          BY <1>3, <5>1
      <4>2. p.inBuf[1] = m[4] /\ m[4] \in Nat
        <5>1. b[4] = m[4] /\ m[4] \in Byte
          BY <1>1, <1>2, <1>3, <4>1
        <5> QED
          BY <2>1, <2>5, <3>2, <5>1, ByteFacts
      <4>3. LooksOverV1(k[1], p.inBuf[1]) => ~(m[4] < 6)
        BY <1>6, <4>2
      <4> QED
        BY <1>1, <1>2, <3>2, <4>1, <4>3
    <3> QED
      BY <2>2, <2>5, <3>1, <3>2
  <2>6. ASSUME B >= 5, b[5] = FrameIdV2 PROVE M >= 13
    <3>1. b[5] = m[5]
      BY <1>3, <2>6
    <3> QED
      BY <1>1, <1>2, <2>6, <3>1 DEF FrameIdV2
  <2>7. p.c_state = "HEADER_V2_OVER_V1" => p.offset + Len(k) >= 8
    BY <1>3, <2>1, <2>2, <2>6
  <2>8. p.c_state = "PAYLOAD_V2_OVER_V1" => p.offset + Len(k) > 0
    BY <1>3, <2>1, <2>2, <2>6
  <2>9. p.c_state = "HEADER_V2_NATIVE" => p.offset + Len(k) >= 3
    <3> SUFFICES ASSUME p.c_state = "HEADER_V2_NATIVE" PROVE p.offset + Len(k) >= 3
      OBVIOUS
    <3>1. B = 3 + p.offset /\ b[2] = LetterX
      BY <2>1
    <3>2. b[2] = m[2]
      <4>1. 2 \in 1 .. B
        BY <2>2, <3>1
      <4> QED
        BY <1>3, <4>1
    <3>3. M >= 9
      BY <1>1, <1>2, <3>1, <3>2
    <3>4. PICK o \in Nat, K \in Nat : o = p.offset /\ K = Len(k)
      BY <1>3, <2>2
    <3>5. B = 3 + o /\ K = M - B - 1 + n
      BY <1>3, <3>1, <3>4
    <3>6. o + K >= 3
      BY <3>3, <3>5
    <3> QED
      BY <3>4, <3>6
  <2> QED
    BY <1>5, <2>2, <2>3, <2>4, <2>5, <2>7, <2>8, <2>9 DEF Goes
<1> QED
  BY <1>2, <1>9, <1>10

\* The messages of the flight controller are such.
LEMMA MessagesSturdy == \A m \in Messages : Sturdy(m)
<1>1. /\ <<>> \in Seq(Byte) /\ Len(<<>>) < 6
      /\ <<Dollar, LetterM, Greater>> \in Seq(Byte) /\ Len(<<Dollar, LetterM, Greater>>) < 6
      /\ <<Dollar, LetterX>> \in Seq(Byte) /\ Len(<<Dollar, LetterX>>) < 6
      /\ <<LetterX>> \in Seq(Byte) /\ Len(<<LetterX>>) = 1
  BY DEF Byte, Dollar, LetterM, LetterX, Greater
<1>2. /\ 1 \in Byte /\ 2 \in Byte /\ 3 \in Byte /\ 4 \in Byte /\ 5 \in Byte
      /\ 1 < 6 /\ 2 < 6 /\ 3 < 6 /\ 4 < 6
      /\ 1 # FrameIdV2 /\ 2 # FrameIdV2 /\ Greater = 62
  BY DEF Byte, FrameIdV2, Greater
<1>3. ASSUME NEW m, GoodMessage(m), m[4] # Greater, Len(m) >= 6, m[2] = LetterX => Len(m) >= 9,
             Len(m) >= 13 \/ (m[4] < 6 /\ m[5] < 6)
      PROVE  Sturdy(m)
  BY <1>3, GoodStarts DEF Sturdy
<1>4. ASSUME NEW cmd \in Byte, cmd < 6, cmd # FrameIdV2, NEW pay \in Seq(Byte), Len(pay) < 6
      PROVE  Sturdy(MsgV1(cmd, pay))
  <2>1. PICK n \in Nat, m \in {MsgV1(cmd, pay)} : n = Len(pay)
    OBVIOUS
  <2>2. GoodMessage(m) /\ Len(m) = 6 + n /\ m[2] # LetterX /\ m[4] = n /\ m[5] = cmd
    BY <1>4, <2>1, GoodV1
  <2>3. n < 6 /\ n # Greater /\ 6 + n >= 6
    <3>1. n < 6
      BY <1>4, <2>1
    <3> QED
      BY <1>2, <3>1
  <2>4. m[4] # Greater /\ Len(m) >= 6 /\ m[4] < 6 /\ m[5] < 6
    BY <1>4, <2>2, <2>3
  <2> QED
    BY <1>3, <2>1, <2>2, <2>4
<1>5. ASSUME NEW cmd \in Byte, cmd < 6, NEW pay \in Seq(Byte), Len(pay) < 6
      PROVE  Sturdy(MsgV2(cmd, pay))
  <2>1. PICK n \in Nat, m \in {MsgV2(cmd, pay)} : n = Len(pay)
    OBVIOUS
  <2>2. GoodMessage(m) /\ Len(m) = 9 + n /\ m[4] = 0 /\ m[5] = cmd
    BY <1>5, <2>1, GoodV2
  <2>3. m[4] # Greater /\ Len(m) >= 6 /\ Len(m) >= 9 /\ m[4] < 6 /\ m[5] < 6
    BY <1>2, <1>5, <2>1, <2>2
  <2> QED
    BY <1>3, <2>1, <2>2, <2>3
<1>6. Sturdy(MsgV2OverV1(5, <<LetterX>>))
  <2>1. PICK pay \in Seq(Byte), cmd \in Byte : pay = <<LetterX>> /\ Len(pay) = 1 /\ cmd = 5
    BY <1>1, <1>2
  <2>2. PICK m : m = MsgV2OverV1(cmd, pay)
    OBVIOUS
  <2>3. GoodMessage(m) /\ Len(m) = 12 + Len(pay) /\ m[4] = 6 + Len(pay)
    <3>1. Len(pay) <= 1
      BY <2>1
    <3> QED
      BY <2>2, <3>1, GoodV2OverV1, Zenon
  <2>4. Len(m) = 13 /\ m[4] = 7
    BY <2>1, <2>3
  <2>5. m[4] # Greater /\ Len(m) >= 6 /\ Len(m) >= 9 /\ Len(m) >= 13
    BY <1>2, <2>4
  <2> QED
    BY <1>3, <2>1, <2>2, <2>3, <2>5
<1>7. Sturdy(MsgV1(1, <<>>)) /\ Sturdy(MsgV1(2, <<Dollar, LetterM, Greater>>))
  BY <1>1, <1>2, <1>4, Zenon
<1>8. Sturdy(MsgV2(3, <<Dollar, LetterX>>)) /\ Sturdy(MsgV2(4, <<>>))
  BY <1>1, <1>2, <1>5, Zenon
<1> QED
  BY <1>6, <1>7, <1>8 DEF Messages

-----------------------------------------------------------------------------
\* The bytes of messages, their number, and few of them: ParserFindsBack.
FcBytes(f, is) == UNION {[msg : {i}, at : 1 .. Len(f[i].bytes)] : i \in is}
Count(f, is) == Cardinality(FcBytes(f, is))
Few(f, is) == \A i \in is : Count(f, {k \in is : k < i}) <= InBufSize

\* A message of n bytes has n bytes.
LEMMA FcBytesOne ==
    ASSUME NEW m, NEW n \in Nat
    PROVE  /\ IsFiniteSet([msg : {m}, at : 1 .. n])
           /\ Cardinality([msg : {m}, at : 1 .. n]) = n
<1> DEFINE T == [msg : {m}, at : 1 .. n]
           f == [k \in 1 .. n |-> [msg |-> m, at |-> k]]
<1>1. IsFiniteSet(1 .. n) /\ Cardinality(1 .. n) = n
  BY FS_Interval
<1>2. f \in Bijection(1 .. n, T)
  <2>1. f \in [1 .. n -> T]
    OBVIOUS
  <2>2. \A a, b \in 1 .. n : f[a] = f[b] => a = b
    OBVIOUS
  <2>3. \A t \in T : \E a \in 1 .. n : f[a] = t
    OBVIOUS
  <2> HIDE DEF f, T
  <2> QED
    BY <2>1, <2>2, <2>3, Zenon DEF Bijection, Injection, Surjection, IsInjective
<1>3. ExistsBijection(1 .. n, T)
  BY <1>2, Zenon DEF ExistsBijection
<1> QED
  BY <1>1, <1>3, FS_Bijection

\* Fewer messages have fewer bytes.
LEMMA CountFewer ==
    ASSUME NEW f, NEW S, NEW T \in SUBSET S, IsFiniteSet(FcBytes(f, S))
    PROVE  /\ IsFiniteSet(FcBytes(f, T)) /\ Count(f, T) <= Count(f, S)
           /\ Count(f, T) \in Nat /\ Count(f, S) \in Nat
<1>1. FcBytes(f, T) \subseteq FcBytes(f, S)
  BY Zenon DEF FcBytes
<1> QED
  BY <1>1, FS_Subset, FS_CardinalityType DEF Count

\* One more message adds as many bytes as it has.
LEMMA CountMore ==
    ASSUME NEW f, NEW S, NEW m, NEW n \in Nat, n = Len(f[m].bytes), NEW T \in SUBSET (S \cup {m}),
           IsFiniteSet(FcBytes(f, S))
    PROVE  /\ IsFiniteSet(FcBytes(f, T)) /\ Count(f, T) \in Nat /\ Count(f, S) \in Nat
           /\ Count(f, T) <= Count(f, S) + n
<1> DEFINE one == [msg : {m}, at : 1 .. n]
           B == FcBytes(f, S)
           D == FcBytes(f, T)
<1>1. D \subseteq B \cup one
  BY Zenon DEF FcBytes
<1>2. IsFiniteSet(one) /\ Cardinality(one) = n
  BY FcBytesOne
<1> HIDE DEF one, B, D
<1>3. IsFiniteSet(B)
  BY DEF B
<1>4. /\ IsFiniteSet(B \cup one)
      /\ Cardinality(B \cup one) = Cardinality(B) + Cardinality(one) - Cardinality(B \cap one)
  BY <1>2, <1>3, FS_Union
<1>5. Cardinality(B \cap one) \in Nat
  BY <1>2, <1>3, FS_Intersection, FS_CardinalityType
<1>6. Cardinality(B) \in Nat
  BY <1>3, FS_CardinalityType
<1>7. Cardinality(B \cup one) <= Cardinality(B) + n
  BY <1>2, <1>4, <1>5, <1>6
<1>8. IsFiniteSet(D) /\ Cardinality(D) \in Nat /\ Cardinality(D) <= Cardinality(B \cup one)
  BY <1>1, <1>4, FS_Subset, FS_CardinalityType
<1>9. Cardinality(B \cup one) \in Nat
  BY <1>4, FS_CardinalityType
<1> QED
  BY <1>6, <1>7, <1>8, <1>9 DEF Count, B, D

\* No message has no bytes.
LEMMA CountNone ==
    ASSUME NEW f
    PROVE  IsFiniteSet(FcBytes(f, {})) /\ Count(f, {}) = 0 /\ Few(f, {})
<1>1. FcBytes(f, {}) = {}
  BY Zenon DEF FcBytes
<1> QED
  BY <1>1, FS_EmptySet DEF Count, Few

\* What fits into inBuf is few, and so is what is swallowed with the message
\* that ends.
LEMMA FewFits ==
    ASSUME NEW f, NEW n \in Nat, NEW S \in SUBSET (1 .. n), NEW T \in SUBSET (S \cup {n + 1}),
           IsFiniteSet(FcBytes(f, S)), Count(f, S) <= InBufSize
    PROVE  Few(f, T)
<1>1. SUFFICES ASSUME NEW i \in T PROVE Count(f, {k \in T : k < i}) <= InBufSize
  BY DEF Few
<1>2. {k \in T : k < i} \in SUBSET S
  <2>1. ASSUME NEW k \in T, k < i PROVE k \in S
    <3>1. i \in 1 .. n + 1 /\ k \in 1 .. n + 1
      OBVIOUS
    <3>2. k # n + 1
      BY <2>1, <3>1
    <3> QED
      BY <3>2
  <2> QED
    BY <2>1
<1>3. PICK U : U = {k \in T : k < i}
  OBVIOUS
<1>4. Count(f, U) <= Count(f, S) /\ Count(f, U) \in Nat /\ Count(f, S) \in Nat
  BY <1>2, <1>3, CountFewer
<1>5. Count(f, U) <= InBufSize
  BY <1>4, MspAssumption
<1> QED
  BY <1>3, <1>5

\* Fewer are few.
LEMMA FewFewer ==
    ASSUME NEW f, NEW S, NEW T \in SUBSET S, IsFiniteSet(FcBytes(f, S)), Few(f, S)
    PROVE  Few(f, T)
<1>1. SUFFICES ASSUME NEW i \in T PROVE Count(f, {k \in T : k < i}) <= InBufSize
  BY DEF Few
<1>2. PICK U, V : U = {k \in T : k < i} /\ V = {k \in S : k < i}
  OBVIOUS
<1>3. U \in SUBSET V /\ V \in SUBSET S
  BY <1>2
<1>4. IsFiniteSet(FcBytes(f, V)) /\ Count(f, V) <= InBufSize
  BY <1>2, <1>3, CountFewer DEF Few
<1>5. Count(f, U) <= Count(f, V) /\ Count(f, U) \in Nat /\ Count(f, V) \in Nat
  BY <1>3, <1>4, CountFewer
<1>6. Count(f, U) <= InBufSize
  BY <1>4, <1>5, MspAssumption
<1> QED
  BY <1>2, <1>6

\* A frame ends with what was appended to it.
LEMMA EndsOwn ==
    ASSUME NEW j \in Seq(Byte), NEW m \in Seq(Byte)
    PROVE  EndsWith(j \o m, m)
<1> DEFINE s == j \o m
           a == Reverse(m)
           z == Reverse(s)
           M == Len(m)
           J == Len(j)
<1>1. /\ s \in Seq(Byte) /\ Len(s) = J + M
      /\ \A i \in 1 .. J + M : s[i] = IF i <= J THEN j[i] ELSE m[i - J]
  BY ConcatProperties
<1>2. M \in Nat /\ J \in Nat
  OBVIOUS
<1> HIDE DEF s
<1>3. a \in Seq(Byte) /\ Len(a) = M /\ \A i \in 1 .. M : a[i] = m[(M - i) + 1]
  BY <1>2 DEF Reverse
<1>4. z \in Seq(Byte) /\ Len(z) = J + M /\ \A i \in 1 .. J + M : z[i] = s[((J + M) - i) + 1]
  BY <1>1, <1>2 DEF Reverse
<1> HIDE DEF a, z, M, J
<1>5. ASSUME NEW i \in 1 .. M PROVE z[i] = a[i]
  <2>1. PICK x \in 1 .. J + M : x = ((J + M) - i) + 1
    BY <1>2
  <2>2. i \in 1 .. J + M /\ ~(x <= J) /\ x - J = (M - i) + 1
    BY <1>2, <2>1
  <2>3. z[i] = s[x] /\ s[x] = m[x - J]
    BY <1>1, <1>4, <2>1, <2>2
  <2> QED
    BY <1>3, <2>2, <2>3
<1>6. /\ SubSeq(a, 1, M) \in Seq(Byte) /\ Len(SubSeq(a, 1, M)) = M
      /\ \A i \in 1 .. M : SubSeq(a, 1, M)[i] = a[i]
  BY <1>2, <1>3
<1>7. /\ SubSeq(z, 1, M) \in Seq(Byte) /\ Len(SubSeq(z, 1, M)) = M
      /\ \A i \in 1 .. M : SubSeq(z, 1, M)[i] = z[i]
  BY <1>2, <1>4
<1>8. SubSeq(a, 1, M) = SubSeq(z, 1, M)
  <2> DEFINE u == SubSeq(a, 1, M)
             v == SubSeq(z, 1, M)
  <2>1. /\ u \in Seq(Byte) /\ v \in Seq(Byte) /\ Len(u) = Len(v)
        /\ \A i \in 1 .. Len(u) : u[i] = v[i]
    BY <1>5, <1>6, <1>7
  <2> HIDE DEF u, v
  <2>2. u = v
    BY <2>1, SeqEqual
  <2> QED
    BY <2>2 DEF u, v
<1>9. Len(a) <= Len(z)
  BY <1>2, <1>3, <1>4
<1>10. IsPrefix(a, z)
  BY <1>3, <1>8, <1>9 DEF IsPrefix
<1> QED
  BY <1>10 DEF EndsWith, IsSuffix, a, z, s

\* How far the parser p is back in step: S is swallowed, b read of the next
\* message, l remains of it, and rw is kept.
OutOfHeader(p, b) ==
    \/ p.c_state \in {"HEADER_START", "HEADER_M", "HEADER_X"} /\ Len(b) = 0
    \/ /\ p.c_state = "HEADER_V2_NATIVE"
       /\ \/ Len(b) = 0 /\ p.offset >= 3
          \/ Len(b) = 1 /\ p.offset >= 4
BackInStep(p, b, l, rd, rw) ==
    \/ Idle(p) /\ Len(b) = 0
    \/ /\ Len(l) > 0 /\ rd = TRUE /\ Attempted(b, p)
       /\ \E junk \in Seq(Byte) : rw = junk \o b
Back(f, S, p, b, l, rd, rw) ==
    \/ S = {} /\ OutOfHeader(p, b)
    \/ Eats(p, Count(f, S) + Len(b))
    \/ Idle(p) /\ Len(b) > 0 /\ Count(f, S) <= InBufSize
    \/ Few(f, S) /\ BackInStep(p, b, l, rd, rw)

\* A header that the '$' of the next message, or the letter behind it, ends is
\* given up.
LEMMA HeaderEnds ==
    ASSUME InBufSize < 256 * Dollar, NEW p, PortOk(p), NEW b \in Seq(Byte), OutOfHeader(p, b),
           NEW c \in Byte, Len(b) = 0 => c = Dollar, Len(b) = 1 => c \in {LetterM, LetterX}
    PROVE  \/ Idle(Parsed(p, c))
           \/ Len(b) = 0 /\ OutOfHeader(Parsed(p, c), Append(b, c))
<1>1. c \in Nat /\ Dollar = 36 /\ LetterM = 77 /\ LetterX = 88 /\ Greater = 62
  BY ByteFacts DEF Dollar, LetterM, LetterX, Greater
<1>2. PICK q : q = Parsed(p, c)
  OBVIOUS
<1>3. CASE p.c_state \in {"HEADER_START", "HEADER_M", "HEADER_X"} /\ Len(b) = 0
  <2>1. c # LetterM /\ c # LetterX /\ c # Greater
    BY <1>1, <1>3
  <2>2. q.c_state = "IDLE"
    BY <1>2, <1>3, <2>1, ReadsStart
  <2> QED
    BY <1>2, <2>2 DEF Idle
<1>4. CASE /\ p.c_state = "HEADER_V2_NATIVE"
           /\ (Len(b) = 0 /\ p.offset >= 3) \/ (Len(b) = 1 /\ p.offset >= 4)
  <2>1. PICK o \in Nat : o = p.offset
    BY DEF PortOk, Ports
  <2>2. CASE o < 4
    <3>1. o = 3 /\ Len(b) = 0
      BY <1>4, <2>1, <2>2
    <3>2. q.c_state = "HEADER_V2_NATIVE" /\ q.offset = p.offset + 1
      BY <1>2, <1>4, <2>1, <2>2, ReadsHeaderV2
    <3>3. q.offset >= 4 /\ Len(Append(b, c)) = 1
      <4>1. q.offset = 4
        <5>1. p.offset = 3
          BY <2>1, <3>1
        <5> QED
          BY <3>2, <5>1
      <4>2. Len(Append(b, c)) = Len(b) + 1
        BY AppendProperties
      <4> QED
        BY <3>1, <4>1, <4>2
    <3> QED
      BY <1>2, <3>1, <3>2, <3>3 DEF OutOfHeader
  <2>3. CASE ~(o < 4)
    <3>1. p.offset >= 4
      BY <2>1, <2>3
    <3>2. /\ p.offset = 4
          /\ q.c_state = "IDLE" \/ SizeV2(Append(p.inBuf, c), 1) <= InBufSize
      BY <1>2, <1>4, <3>1, ReadsHeaderV2
    <3>3. p.inBuf \in Seq(Byte) /\ Len(p.inBuf) = 4
      BY <1>4, <3>2 DEF PortOk, Ports, HeaderStates
    <3>4. PICK x \in Nat : x = p.inBuf[4] /\ SizeV2(Append(p.inBuf, c), 1) = x + 256 * c
      <4>1. p.inBuf[4] \in Nat
        <5>1. p.inBuf[4] \in Byte
          BY <3>3
        <5> QED
          BY <5>1, ByteFacts
      <4>2. PICK s \in Seq(Byte), v \in Seq(Byte) :
               /\ s = p.inBuf /\ v = Append(p.inBuf, c)
               /\ \A i \in 1 .. Len(s) : v[i] = s[i]
               /\ v[Len(s) + 1] = c
        BY <3>3, AppendProperties
      <4>3. v[4] = s[4] /\ v[5] = c
        <5>1. Len(s) = 4
          BY <3>3, <4>2
        <5>2. 4 \in 1 .. Len(s) /\ Len(s) + 1 = 5
          BY <5>1
        <5> QED
          BY <4>2, <5>2, Zenon
      <4>4. \A w : SizeV2(w, 1) = w[4] + 256 * w[5]
        BY DEF SizeV2
      <4>5. SizeV2(v, 1) = p.inBuf[4] + 256 * c
        BY <4>2, <4>3, <4>4
      <4> QED
        BY <4>1, <4>2, <4>5
    <3>5. c >= 36
      BY <1>1, <1>4
    <3>6. ~(x + 256 * c <= InBufSize)
      BY <1>1, <3>5, MspAssumption
    <3> QED
      BY <1>2, <3>2, <3>4, <3>6 DEF Idle
  <2> QED
    BY <2>2, <2>3
<1> QED
  BY <1>3, <1>4 DEF OutOfHeader

\* What ReadByte makes of reading and raw; a frame that ends with m is
\* forwarded; what is read of the next message.
KeepsRead(p, c, kept, rd, rw) ==
    /\ rd = (~Refused(p, c) /\ Parsed(p, c).c_state # "COMMAND_RECEIVED")
    /\ rw = IF Refused(p, c) THEN kept ELSE Append(kept, c)
Forwards(p, c, m, rw) ==
    /\ ~Refused(p, c) /\ Parsed(p, c).c_state = "COMMAND_RECEIVED"
    /\ \E junk \in Seq(Byte) : rw = junk \o m
PlainMessage(m) == Sturdy(m) /\ GoodMessage(m) /\ \A i \in 2 .. Len(m) : m[i] # Dollar
SwallowsNext(n, S, T, l, forwards) ==
    S \subseteq 1 .. n /\ T \subseteq S \cup {n + 1} /\ (Len(l) > 1 \/ forwards => T \subseteq S)
Advances(b, l, e) == e = IF Len(l) > 1 THEN Append(b, l[1]) ELSE <<>>

\* The parser reads a byte of a message that is whole: T is swallowed then,
\* e read of the next message.
LEMMA BackReads ==
    ASSUME InBufSize < 256 * Dollar,
           NEW n \in Nat, NEW f, NEW m, Len(m) = Len(f[n + 1].bytes), PlainMessage(m),
           NEW p, PortOk(p), NEW b \in Seq(Byte), NEW l \in Seq(Byte), Len(l) > 0, Rest(m, b, l),
           NEW S, IsFiniteSet(FcBytes(f, S)),
           NEW rd \in BOOLEAN, NEW rw \in Seq(Byte), Back(f, S, p, b, l, rd, rw),
           NEW kept \in Seq(Byte), rd = TRUE => kept = rw,
           NEW rd2, NEW rw2, KeepsRead(p, l[1], kept, rd2, rw2),
           NEW T, SwallowsNext(n, S, T, l, Forwards(p, l[1], m, rw2)), NEW e, Advances(b, l, e)
    PROVE  /\ IsFiniteSet(FcBytes(f, T))
           /\ Back(f, T, Parsed(p, l[1]), e, Tail(l), rd2, rw2)
<1>1. /\ l[1] \in Byte /\ l[1] = m[Len(b) + 1] /\ Len(m) = Len(b) + Len(l) /\ Begins(b, m)
      /\ Append(b, l[1]) \in Seq(Byte) /\ Len(Append(b, l[1])) = Len(b) + 1
      /\ Tail(l) \in Seq(Byte) /\ Len(Tail(l)) = Len(l) - 1
      /\ Rest(m, Append(b, l[1]), Tail(l))
  BY RestReads, Zenon
<1>2. PICK c \in Byte, q \in {Parsed(p, l[1])} : c = l[1] /\ q = Parsed(p, c)
  BY <1>1
<1>3. PICK B \in Nat, L \in Nat : B = Len(b) /\ L = Len(l)
  OBVIOUS
<1>4. L > 0 /\ Len(m) = B + L /\ B < Len(m)
  BY <1>1, <1>3
<1>5. Len(m) >= 6 /\ (B = 0 => c = Dollar) /\ (B = 1 => c \in {LetterM, LetterX}) /\ (B > 0 => c # Dollar)
  <2>1. Len(m) >= 6 /\ m[1] = Dollar /\ m[2] \in {LetterM, LetterX}
    BY DEF PlainMessage, Sturdy
  <2>2. B > 0 => m[B + 1] # Dollar
    <3>1. B > 0 => B + 1 \in 2 .. Len(m)
      BY <1>3, <1>4
    <3> QED
      BY <3>1 DEF PlainMessage
  <2>3. c = m[B + 1]
    BY <1>1, <1>2, <1>3
  <2> QED
    BY <2>1, <2>2, <2>3
<1>6. Len(e) = IF L > 1 THEN B + 1 ELSE 0
  <2>1. Len(<<>>) = 0
    OBVIOUS
  <2> QED
    BY <1>1, <1>3, <2>1 DEF Advances
<1>7. /\ IsFiniteSet(FcBytes(f, T)) /\ Count(f, T) \in Nat /\ Count(f, S) \in Nat
      /\ Count(f, T) + Len(e) <= Count(f, S) + B + 1
      /\ L > 1 => Count(f, T) <= Count(f, S)
  <2>1. CASE L > 1
    <3>1. T \in SUBSET S
      BY <1>3, <2>1 DEF SwallowsNext
    <3>2. /\ IsFiniteSet(FcBytes(f, T)) /\ Count(f, T) <= Count(f, S)
          /\ Count(f, T) \in Nat /\ Count(f, S) \in Nat
      BY <3>1, CountFewer
    <3> QED
      BY <1>6, <2>1, <3>2
  <2>2. CASE ~(L > 1)
    <3>1. PICK N \in Nat : N = Len(f[n + 1].bytes) /\ N = B + 1
      BY <1>4, <2>2
    <3>2. PICK k : k = n + 1
      OBVIOUS
    <3>3. /\ IsFiniteSet(FcBytes(f, T)) /\ Count(f, T) \in Nat /\ Count(f, S) \in Nat
          /\ Count(f, T) <= Count(f, S) + N
      <4>1. T \in SUBSET (S \cup {k})
        BY <3>2 DEF SwallowsNext
      <4> QED
        BY <3>1, <3>2, <4>1, CountMore
    <3> QED
      BY <1>6, <2>2, <3>1, <3>3
  <2> QED
    BY <2>1, <2>2
<1>8. SUFFICES Back(f, T, q, e, Tail(l), rd2, rw2)
  BY <1>2, <1>7
<1>9. ASSUME Idle(q), Count(f, S) <= InBufSize PROVE Back(f, T, q, e, Tail(l), rd2, rw2)
  <2>1. CASE L > 1
    <3>1. Len(e) > 0
      BY <1>6, <2>1
    <3>2. Count(f, T) <= InBufSize
      BY <1>7, <1>9, <2>1, MspAssumption
    <3> QED
      BY <1>9, <3>1, <3>2 DEF Back
  <2>2. CASE ~(L > 1)
    <3>1. Few(f, T)
      BY <1>9, FewFits DEF SwallowsNext
    <3> QED
      BY <1>6, <1>9, <2>2, <3>1 DEF Back, BackInStep
  <2> QED
    BY <2>1, <2>2
<1>10. CASE S = {} /\ OutOfHeader(p, b)
  <2>1. Count(f, S) <= InBufSize
    BY <1>10, CountNone, MspAssumption
  <2>2. L > 1
    <3>1. B = 0 \/ B = 1
      BY <1>3, <1>10 DEF OutOfHeader
    <3> QED
      BY <1>4, <1>5, <3>1
  <2>3. e = Append(b, c) /\ T = {}
    BY <1>2, <1>3, <1>10, <2>2 DEF Advances, SwallowsNext
  <2>4. Idle(q) \/ OutOfHeader(q, e)
    BY <1>2, <1>3, <1>5, <1>10, <2>3, HeaderEnds
  <2> QED
    BY <1>9, <2>1, <2>3, <2>4 DEF Back
<1>11. CASE Eats(p, Count(f, S) + Len(b))
  <2>1. PICK s \in Nat, t \in Nat : s = Count(f, S) + B /\ t = Count(f, T) + Len(e)
    <3>1. Len(e) \in Nat
      BY <1>6
    <3>2. Count(f, S) + B \in Nat /\ Count(f, T) + Len(e) \in Nat
      BY <1>7, <3>1
    <3> QED
      BY <3>2
  <2>2. t <= s + 1 /\ Eats(p, s) /\ Count(f, S) <= s
    BY <1>3, <1>7, <1>11, <2>1
  <2>3. s <= InBufSize /\ (Idle(q) \/ \A g \in Nat : g <= s + 1 => Eats(q, g))
    BY <1>2, <2>2, EatsOn
  <2>4. CASE Idle(q)
    <3>1. Count(f, S) <= InBufSize
      BY <1>7, <2>2, <2>3, MspAssumption
    <3> QED
      BY <1>9, <2>4, <3>1
  <2>5. CASE \A g \in Nat : g <= s + 1 => Eats(q, g)
    BY <2>1, <2>2, <2>5 DEF Back
  <2> QED
    BY <2>3, <2>4, <2>5
<1>12. CASE Idle(p) /\ Len(b) > 0 /\ Count(f, S) <= InBufSize
  <2>1. c # Dollar
    BY <1>3, <1>5, <1>12
  <2>2. Idle(q)
    BY <1>2, <1>12, <2>1, ReadsStart
  <2> QED
    BY <1>9, <1>12, <2>2
<1>13. CASE Few(f, S) /\ BackInStep(p, b, l, rd, rw)
  <2>1. PICK junk \in Seq(Byte) : kept = junk \o b
    <3>1. CASE Idle(p) /\ Len(b) = 0
      <4>1. b = <<>>
        BY <3>1
      <4>2. kept = kept \o <<>>
        OBVIOUS
      <4> QED
        BY <4>1, <4>2
    <3> QED
      BY <1>13, <3>1 DEF BackInStep
  <2>2. (Idle(p) /\ Len(b) = 0) \/ Attempted(b, p)
    BY <1>13 DEF BackInStep
  <2>3. /\ ~Refused(p, c)
        /\ \/ q.c_state = "COMMAND_RECEIVED" /\ Len(l) = 1 /\ Append(b, c) = m
           \/ q.c_state # "COMMAND_RECEIVED" /\ Len(l) > 1 /\ Attempted(Append(b, c), q)
    BY <1>2, <2>2, InStepReads DEF PlainMessage
  <2>4. rw2 = junk \o Append(b, c)
    <3>1. rw2 = Append(junk \o b, c)
      BY <1>2, <2>1, <2>3 DEF KeepsRead
    <3>2. Append(junk \o b, c) = junk \o Append(b, c)
      BY AppendConcat
    <3> QED
      BY <3>1, <3>2
  <2>5. CASE q.c_state = "COMMAND_RECEIVED" /\ Len(l) = 1 /\ Append(b, c) = m
    <3>1. T \in SUBSET S
      <4>1. Forwards(p, l[1], m, rw2)
        BY <1>2, <2>3, <2>4, <2>5 DEF Forwards
      <4> QED
        BY <4>1 DEF SwallowsNext
    <3>2. Few(f, T)
      BY <1>13, <3>1, FewFewer
    <3>3. Idle(q) /\ Len(e) = 0
      BY <1>3, <1>6, <2>5 DEF Idle
    <3> QED
      BY <3>2, <3>3 DEF Back, BackInStep
  <2>6. CASE q.c_state # "COMMAND_RECEIVED" /\ Len(l) > 1 /\ Attempted(Append(b, c), q)
    <3>1. T \in SUBSET S
      BY <2>6 DEF SwallowsNext
    <3>2. Few(f, T)
      BY <1>13, <3>1, FewFewer
    <3>3. rd2 = TRUE /\ e = Append(b, c) /\ Len(Tail(l)) > 0
      <4>1. Len(Tail(l)) > 0
        BY <1>1, <2>6
      <4> QED
        BY <1>2, <2>3, <2>6, <4>1 DEF KeepsRead, Advances
    <3>4. BackInStep(q, e, Tail(l), rd2, rw2)
      BY <2>4, <2>6, <3>3 DEF BackInStep
    <3> QED
      BY <3>2, <3>4 DEF Back
  <2> QED
    BY <2>3, <2>5, <2>6
<1> QED
  BY <1>10, <1>11, <1>12, <1>13 DEF Back

\* The noisy byte is in the last message, and nothing is swallowed yet.
Strays == Len(fc) > 0 /\ ~fc[Len(fc)].whole /\ Swallowed = {} /\ Goes(port, line)

\* The parser finds back while it reads whole messages.
ReadOfLast(b) ==
    /\ line = <<>> => Len(b) = 0
    /\ line # <<>> => Len(fc) > 0 /\ Rest(fc[Len(fc)].bytes, b, line)
FindsBackNow ==
    /\ IsFiniteSet(FcBytes(fc, Swallowed))
    /\ \E b \in Seq(Byte) : ReadOfLast(b) /\ Back(fc, Swallowed, port, b, line, reading, raw)

BackInv == CutInv /\ (noise = 1 /\ PlainPayloads => Strays \/ FindsBackNow)

\* Messages without a '$' in them.
LEMMA PlainAt ==
    ASSUME CutInv, PlainPayloads, NEW n \in 1 .. Len(fc), NEW m, m = fc[n].bytes
    PROVE  /\ m \in Messages /\ Sturdy(m) /\ GoodMessage(m) /\ m \in Seq(Byte)
           /\ \A i \in 2 .. Len(m) : m[i] # Dollar
<1> DEFINE R == [bytes : Messages, whole : BOOLEAN]
<1>1. fc \in Seq(R)
  BY DEF CutInv
<1>2. fc[n] \in R
  <2> HIDE DEF R
  <2> QED
    BY <1>1, ElementOfSeq
<1>3. m \in Messages
  BY <1>2
<1>4. Sturdy(m) /\ GoodMessage(m) /\ m \in Seq(Byte)
  BY <1>3, MessagesSturdy, MessagesGood, MessagesTyped
<1>5. Dollar \notin Range(Tail(m))
  BY DEF PlainPayloads
<1>6. ASSUME NEW i \in 2 .. Len(m) PROVE m[i] # Dollar
  <2>1. /\ Tail(m) \in Seq(Byte) /\ Len(Tail(m)) = Len(m) - 1
        /\ \A k \in 1 .. Len(m) - 1 : Tail(m)[k] = m[k + 1]
    <3>1. m \in Seq(Byte) /\ Len(m) \in Nat /\ Len(m) > 0
      BY <1>4
    <3> QED
      BY <3>1
  <2>2. PICK k \in 1 .. Len(m) - 1 : i = k + 1
    <3>1. i - 1 \in 1 .. Len(m) - 1 /\ i = (i - 1) + 1
      BY <1>4
    <3> QED
      BY <3>1
  <2>3. DOMAIN Tail(m) = 1 .. Len(m) - 1
    BY <2>1
  <2>4. Tail(m)[k] \in Range(Tail(m))
    BY <2>3, Zenon DEF Range
  <2> QED
    BY <1>5, <2>1, <2>2, <2>4
<1> QED
  BY <1>3, <1>4, <1>6

\* A message ends with itself.
LEMMA EndsItself ==
    ASSUME CutInv, NEW i \in 1 .. Len(fc)
    PROVE  EndsWith(fc[i].bytes, fc[i].bytes)
<1> DEFINE R == [bytes : Messages, whole : BOOLEAN]
<1>1. fc \in Seq(R)
  BY DEF CutInv
<1>2. fc[i] \in R
  <2> HIDE DEF R
  <2> QED
    BY <1>1, ElementOfSeq
<1>3. PICK m \in Seq(Byte) : m = fc[i].bytes
  BY <1>2, MessagesTyped
<1>4. <<>> \in Seq(Byte) /\ <<>> \o m = m
  OBVIOUS
<1>5. EndsWith(<<>> \o m, m)
  BY <1>4, EndsOwn
<1> QED
  BY <1>3, <1>4, <1>5

\* Without noise nothing is swallowed.
LEMMA NoneSwallowed ==
    ASSUME CutInv, noise = 0
    PROVE  Swallowed = {}
<1>1. Len(fc) \in Nat /\ Len(forwarded) \in Nat
  BY DEF CutInv, SentInv
<1>2. /\ SentAre(Len(forwarded))
      /\ Len(forwarded) = IF line = <<>> THEN Len(fc) ELSE Len(fc) - 1
  BY DEF CutInv, BetweenMessages, WithinMessage, SentAre
<1>3. Heard \subseteq 1 .. Len(forwarded) /\ Heard \subseteq 1 .. Len(fc)
  BY <1>1, <1>2 DEF Heard
<1>4. ASSUME NEW i \in Heard PROVE i \notin Swallowed
  <2>1. i \in 1 .. Len(forwarded) /\ i \in 1 .. Len(fc) /\ forwarded[i] = fc[i].bytes
    BY <1>2, <1>3 DEF SentAre
  <2>2. EndsWith(forwarded[i], fc[i].bytes)
    BY <2>1, EndsItself
  <2> QED
    BY <2>1, <2>2, Zenon DEF Swallowed
<1>5. Swallowed \subseteq Heard
  BY Zenon DEF Swallowed
<1> QED
  BY <1>4, <1>5

\* What is swallowed when a byte is read.
LEMMA SwallowedReads ==
    ASSUME CutInv, ReadByte, Len(fc) > 0
    PROVE  /\ Len(fc) - 1 \in Nat /\ Swallowed \in SUBSET (1 .. Len(fc) - 1)
           /\ Swallowed' \in SUBSET (Swallowed \cup {Len(fc)})
           /\ line' # <<>> => Swallowed' \subseteq Swallowed
           /\ ~fc[Len(fc)].whole => Swallowed' \subseteq Swallowed
           /\ \A r \in Seq(Byte) : forwarded' = Append(forwarded, r) /\ EndsWith(r, fc[Len(fc)].bytes)
                                      => Swallowed' \subseteq Swallowed
<1>1. PICK n \in Nat : n = Len(fc)
  BY DEF CutInv
<1>2. n > 0 /\ fc' = fc /\ line # <<>> /\ line' = Tail(line)
  BY <1>1 DEF ReadByte
<1>3. forwarded \in Seq(Seq(Byte)) /\ raw \in Seq(Byte) /\ raw' \in Seq(Byte)
  <2>1. /\ forwarded \in Seq(Seq(Byte)) /\ raw \in Seq(Byte) /\ line \in Seq(Byte)
    BY DEF CutInv, SentInv, BufInv
  <2>2. Head(line) \in Byte /\ Kept \in Seq(Byte)
    BY <1>2, <2>1 DEF Kept
  <2>3. raw' = Kept \/ raw' = Append(Kept, Head(line))
    BY DEF ReadByte
  <2>4. Append(Kept, Head(line)) \in Seq(Byte)
    BY <2>2, AppendProperties
  <2> QED
    BY <2>1, <2>2, <2>3, <2>4
<1>4. /\ Len(forwarded) \in Nat /\ 1 .. Len(forwarded) \subseteq 1 .. Len(forwarded')
      /\ \A k \in 1 .. Len(forwarded) : forwarded'[k] = forwarded[k]
  <2>1. forwarded' = forwarded \/ forwarded' = Append(forwarded, raw')
    BY DEF ReadByte
  <2>2. CASE forwarded' = forwarded
    BY <1>3, <2>2
  <2>3. CASE forwarded' = Append(forwarded, raw')
    <3>1. /\ Len(forwarded') = Len(forwarded) + 1 /\ Len(forwarded) \in Nat
          /\ \A k \in 1 .. Len(forwarded) : forwarded'[k] = forwarded[k]
      BY <1>3, <2>3, AppendProperties
    <3> QED
      BY <3>1
  <2> QED
    BY <2>1, <2>2, <2>3
<1>5. Heard = 1 .. n - 1
  BY <1>1, <1>2 DEF Heard
<1>6. Heard' \subseteq Heard \cup {n} /\ (line' # <<>> => Heard' = Heard)
  BY <1>1, <1>2 DEF Heard
<1>7. Swallowed \subseteq Heard
  BY Zenon DEF Swallowed
<1>8. ASSUME NEW i \in Swallowed'
      PROVE  /\ i \in Heard' /\ fc[i].whole
             /\ \A k \in 1 .. Len(forwarded') : ~EndsWith(forwarded'[k], fc[i].bytes)
  BY <1>2, <1>8, Zenon DEF Swallowed
<1>9. ASSUME NEW i \in Swallowed', i # n PROVE i \in Swallowed
  <2>1. i \in Heard /\ fc[i].whole
    BY <1>6, <1>8, <1>9
  <2>2. \A k \in 1 .. Len(forwarded) : ~EndsWith(forwarded[k], fc[i].bytes)
    BY <1>4, <1>8, Zenon
  <2> QED
    BY <2>1, <2>2, Zenon DEF Swallowed
<1>10. line' # <<>> => n \notin Swallowed'
  BY <1>5, <1>6, <1>8
<1>11. ~fc[n].whole => n \notin Swallowed'
  BY <1>8
<1>12. ASSUME NEW r \in Seq(Byte), forwarded' = Append(forwarded, r), EndsWith(r, fc[n].bytes)
       PROVE  n \notin Swallowed'
  <2>1. /\ Len(forwarded') = Len(forwarded) + 1 /\ Len(forwarded) + 1 \in 1 .. Len(forwarded')
        /\ forwarded'[Len(forwarded) + 1] = r
    <3>1. Len(forwarded') = Len(forwarded) + 1 /\ forwarded'[Len(forwarded) + 1] = r
      BY <1>3, <1>12, AppendProperties
    <3> QED
      BY <1>4, <3>1
  <2> QED
    BY <1>8, <1>12, <2>1
<1> HIDE DEF Heard
<1>13. Swallowed \in SUBSET (1 .. n - 1) /\ n - 1 \in Nat
  BY <1>2, <1>5, <1>7
<1>14. Swallowed' \in SUBSET (Swallowed \cup {n}) /\ (n \notin Swallowed' => Swallowed' \subseteq Swallowed)
  BY <1>9
<1> QED
  BY <1>1, <1>10, <1>11, <1>12, <1>13, <1>14

\* The damaged message is read to its end.
LEMMA StraysEnd ==
    ASSUME PortOk(port), Strays, line = <<>>
    PROVE  FindsBackNow
<1>1. /\ IsFiniteSet(FcBytes(fc, Swallowed)) /\ Count(fc, Swallowed) = 0 /\ Few(fc, Swallowed)
      /\ Swallowed = {}
  BY CountNone DEF Strays
<1>2. <<>> \in Seq(Byte) /\ Len(<<>>) = 0 /\ Len(line) = 0
  OBVIOUS
<1>3. Goes(port, line) /\ port.c_state \in ParserStates /\ port.offset \in Nat
  BY DEF Strays, PortOk, Ports
<1>4. PICK b \in Seq(Byte) : b = <<>> /\ Len(b) = 0
  BY <1>2
<1>5. ReadOfLast(b)
  BY <1>4 DEF ReadOfLast
<1>6. PICK e \in Nat : e = Count(fc, Swallowed) + Len(b) /\ e = 0
  BY <1>1, <1>4
<1>7. \/ OutOfHeader(port, b) \/ Eats(port, e) \/ Idle(port)
  <2>1. CASE port.c_state \in {"HEADER_START", "HEADER_M", "HEADER_X"}
    BY <1>4, <2>1 DEF OutOfHeader
  <2>2. CASE port.c_state = "HEADER_V1"
    BY <1>2, <1>3, <2>2 DEF Goes
  <2>3. CASE port.c_state = "HEADER_V2_OVER_V1"
    <3>1. port.offset + Len(line) >= 8 /\ port.offset \in 2 .. 6
      BY <1>3, <2>3 DEF Goes, PortOk
    <3> QED
      BY <1>2, <3>1
  <2>4. CASE port.c_state = "HEADER_V2_NATIVE"
    <3>1. port.offset + Len(line) >= 3
      BY <1>3, <2>4 DEF Goes
    <3>2. port.offset >= 3
      BY <1>2, <1>3, <3>1
    <3> QED
      BY <1>4, <2>4, <3>2 DEF OutOfHeader
  <2>5. CASE port.c_state \in PayloadStates
    <3>1. port.c_state = "PAYLOAD_V2_OVER_V1" => port.offset + Len(line) > 0
      BY <1>3 DEF Goes
    <3>2. port.c_state = "PAYLOAD_V2_OVER_V1" => e < port.offset
      BY <1>2, <1>3, <1>6, <3>1
    <3>3. e <= port.offset
      BY <1>3, <1>6
    <3> QED
      BY <2>5, <3>2, <3>3 DEF Eats, PayloadStates
  <2>6. CASE port.c_state \in ChecksumStates
    <3>1. e < InBufSize /\ e <= InBufSize
      BY <1>6, MspAssumption
    <3> QED
      BY <2>6, <3>1 DEF Eats, ChecksumStates
  <2> QED
    BY <1>3, <2>1, <2>2, <2>3, <2>4, <2>5, <2>6 DEF ParserStates, Unread, HeaderStates, Idle
<1>8. Back(fc, Swallowed, port, b, line, reading, raw)
  BY <1>1, <1>4, <1>6, <1>7 DEF Back, BackInStep
<1> QED
  BY <1>1, <1>5, <1>8 DEF FindsBackNow

\* What the messages sent so far have is not changed by another one.
LEMMA CountSame ==
    ASSUME NEW f, NEW g, NEW S, \A i \in S : g[i] = f[i]
    PROVE  /\ IsFiniteSet(FcBytes(f, S)) => IsFiniteSet(FcBytes(g, S))
           /\ Count(g, S) = Count(f, S) /\ (Few(f, S) => Few(g, S))
<1>1. ASSUME NEW T \in SUBSET S PROVE FcBytes(g, T) = FcBytes(f, T)
  <2>1. {[msg : {i}, at : 1 .. Len(g[i].bytes)] : i \in T} = {[msg : {i}, at : 1 .. Len(f[i].bytes)] : i \in T}
    <3>1. \A i \in T : [msg : {i}, at : 1 .. Len(g[i].bytes)] = [msg : {i}, at : 1 .. Len(f[i].bytes)]
      BY Zenon
    <3> QED
      BY <3>1, Zenon
  <2> QED
    BY <2>1, Zenon DEF FcBytes
<1>2. FcBytes(g, S) = FcBytes(f, S)
  BY <1>1
<1>3. ASSUME NEW i \in S PROVE Count(g, {k \in S : k < i}) = Count(f, {k \in S : k < i})
  <2>1. {k \in S : k < i} \in SUBSET S
    OBVIOUS
  <2> QED
    BY <1>1, <2>1, Zenon DEF Count
<1>4. Few(f, S) => Few(g, S)
  BY <1>3, Zenon DEF Few
<1> QED
  BY <1>2, <1>4, Zenon DEF Count

\* The parser may start within a header.
LEMMA BackStart == MspInit => BackInv
<1> SUFFICES ASSUME MspInit PROVE BackInv
  OBVIOUS
<1>1. CutInv
  BY CutStart
<1> SUFFICES ASSUME noise = 1 PROVE FindsBackNow
  BY <1>1 DEF BackInv
<1>2. port.c_state \in {"HEADER_START", "HEADER_M", "HEADER_X"}
  <2>1. PICK state \in Unread :
           port = [c_state |-> state, offset |-> 0, dataSize |-> 0, inBuf |-> <<>>,
                   checksum1 |-> 0, checksum2 |-> 0]
    BY DEF MspInit
  <2>2. ~Idle(port)
    BY DEF MspInit
  <2> QED
    BY <2>1, <2>2 DEF Unread, Idle
<1>3. Swallowed = {}
  <2>1. Len(fc) = 0
    <3>1. fc = <<>> /\ Len(<<>>) = 0
      BY DEF MspInit
    <3> QED
      BY <3>1, Zenon
  <2>2. Heard = {}
    BY <2>1 DEF Heard
  <2> QED
    BY <2>2, Zenon DEF Swallowed
<1>4. PICK b \in Seq(Byte) : Len(b) = 0
  <2>1. <<>> \in Seq(Byte) /\ Len(<<>>) = 0
    OBVIOUS
  <2> QED
    BY <2>1
<1>5. ReadOfLast(b)
  BY <1>4 DEF ReadOfLast, MspInit
<1>6. Back(fc, Swallowed, port, b, line, reading, raw)
  BY <1>2, <1>3, <1>4 DEF Back, OutOfHeader
<1>7. IsFiniteSet(FcBytes(fc, Swallowed))
  BY <1>3, CountNone
<1> QED
  BY <1>5, <1>6, <1>7 DEF FindsBackNow

\* The flight controller sends its next message.
LEMMA BackSends ==
    ASSUME BackInv, CutInv', NEW m \in Messages, FcSends(m)
    PROVE  BackInv'
<1> DEFINE R == [bytes : Messages, whole : BOOLEAN]
           e == [bytes |-> m, whole |-> TRUE]
<1>1. /\ line = <<>> /\ line' = m /\ fc' = Append(fc, e) /\ port' = port /\ reading' = reading
      /\ noise' = noise /\ forwarded' = forwarded /\ raw' = raw
  BY DEF FcSends
<1>2. /\ fc \in Seq(R) /\ e \in R /\ noise \in Nat /\ PortOk(port) /\ m \in Seq(Byte)
      /\ GoodMessage(m)
  BY MessagesTyped, MessagesGood DEF BackInv, CutInv, SentInv, BufInv
<1>3. /\ Len(fc') = Len(fc) + 1 /\ Len(fc) \in Nat
      /\ \A i \in 1 .. Len(fc) : fc'[i] = fc[i]
      /\ fc'[Len(fc')] = e
  <2> HIDE DEF e, R
  <2>1. /\ Append(fc, e) \in Seq(R) /\ Len(Append(fc, e)) = Len(fc) + 1
        /\ \A i \in 1 .. Len(fc) : Append(fc, e)[i] = fc[i]
        /\ Append(fc, e)[Len(fc) + 1] = e
    BY <1>2, AppendProperties
  <2> QED
    BY <1>1, <1>2, <2>1
<1>4. m # <<>>
  <2>1. Len(m) > 4 /\ Len(<<>>) = 0
    BY <1>2, GoodStarts
  <2> QED
    BY <2>1
<1> SUFFICES ASSUME noise = 1, PlainPayloads' PROVE FindsBackNow'
  BY <1>1 DEF BackInv
<1>5. PlainPayloads
  <2>1. ASSUME NEW i \in 1 .. Len(fc) PROVE Dollar \notin Range(Tail(fc[i].bytes))
    <3>1. i \in 1 .. Len(fc') /\ fc'[i] = fc[i]
      BY <1>3
    <3> QED
      BY <3>1 DEF PlainPayloads
  <2> QED
    BY <2>1 DEF PlainPayloads
<1>6. FindsBackNow
  BY <1>1, <1>2, <1>5, StraysEnd DEF BackInv
<1>7. PICK b \in Seq(Byte) : ReadOfLast(b) /\ Back(fc, Swallowed, port, b, line, reading, raw)
  BY <1>6 DEF FindsBackNow
<1>8. Len(b) = 0
  BY <1>1, <1>7 DEF ReadOfLast
<1>9. Swallowed \subseteq 1 .. Len(fc) /\ Swallowed' = Swallowed
  <2>1. Heard = 1 .. Len(fc) /\ Heard' = 1 .. Len(fc)
    <3>1. Heard = 1 .. Len(fc)
      BY <1>1 DEF Heard
    <3>2. Heard' = {i \in 1 .. Len(fc') : i < Len(fc') \/ line' = <<>>}
      BY DEF Heard
    <3> QED
      BY <1>1, <1>3, <1>4, <3>1, <3>2
  <2>2. Swallowed = {i \in 1 .. Len(fc) : /\ fc[i].whole
                        /\ \A k \in 1 .. Len(forwarded) : ~EndsWith(forwarded[k], fc[i].bytes)}
    BY <2>1, Zenon DEF Swallowed
  <2>3. Swallowed' = {i \in 1 .. Len(fc) : /\ fc'[i].whole
                        /\ \A k \in 1 .. Len(forwarded) : ~EndsWith(forwarded[k], fc'[i].bytes)}
    BY <1>1, <2>1, Zenon DEF Swallowed
  <2> QED
    BY <1>3, <2>2, <2>3, Zenon
<1>10. ReadOfLast(b)'
  <2>1. Len(fc') > 0 /\ fc'[Len(fc')].bytes = m
    BY <1>3
  <2>2. Rest(m, b, m)
    BY <1>2, <1>8 DEF Rest, Begins
  <2> QED
    BY <1>1, <1>4, <2>1, <2>2 DEF ReadOfLast
<1>11. \A i \in Swallowed : fc'[i] = fc[i]
  BY <1>3, <1>9
<1>12. PICK S, g : S = Swallowed /\ g = fc'
  OBVIOUS
<1>13. /\ IsFiniteSet(FcBytes(g, S)) /\ Count(g, S) = Count(fc, S) /\ (Few(fc, S) => Few(g, S))
  <2>1. IsFiniteSet(FcBytes(fc, S)) /\ \A i \in S : g[i] = fc[i]
    BY <1>6, <1>11, <1>12 DEF FindsBackNow
  <2> QED
    BY <2>1, CountSame
<1>14. Len(line) = 0
  BY <1>1
<1>15. BackInStep(port, b, line, reading, raw) => BackInStep(port, b, m, reading, raw)
  BY <1>14 DEF BackInStep
<1>16. Back(g, S, port, b, m, reading, raw)
  BY <1>7, <1>12, <1>13, <1>15 DEF Back
<1>17. IsFiniteSet(FcBytes(fc', Swallowed')) /\ Back(fc', Swallowed', port', b, line', reading', raw')
  BY <1>1, <1>9, <1>12, <1>13, <1>16
<1> QED
  BY <1>10, <1>17 DEF FindsBackNow

\* The first noisy byte.
LEMMA BackDistorts ==
    ASSUME BackInv, CutInv', NEW next \in {<<>>} \cup {<<x>> : x \in NoiseBytes}, Distort(next)
    PROVE  BackInv'
<1> DEFINE R == [bytes : Messages, whole : BOOLEAN]
<1>1. /\ line # <<>> /\ line' = next \o Tail(line) /\ noise' = noise + 1
      /\ fc' = [fc EXCEPT ![Len(fc)].whole = FALSE]
      /\ port' = port /\ reading' = reading /\ forwarded' = forwarded /\ raw' = raw
  BY DEF Distort
<1>2. /\ fc \in Seq(R) /\ noise \in Nat /\ PortOk(port) /\ line \in Seq(Byte) /\ raw \in Seq(Byte)
      /\ CutInv
  BY DEF BackInv, CutInv, SentInv, BufInv
<1> SUFFICES ASSUME noise' = 1, PlainPayloads' PROVE Strays'
  BY DEF BackInv
<1>3. noise = 0
  BY <1>1, <1>2
<1>4. WithinMessage
  BY <1>1, <1>2, <1>3 DEF CutInv, BetweenMessages
<1>5. PICK n \in Nat \ {0} : n = Len(fc) /\ SentAre(n - 1)
  BY <1>2, <1>4 DEF WithinMessage
<1>6. /\ Len(fc') = n /\ fc'[n].whole = FALSE /\ \A i \in 1 .. n : fc'[i].bytes = fc[i].bytes
  <2>1. DOMAIN fc = 1 .. n
    BY <1>2, <1>5
  <2>2. fc[n] \in R /\ n \in 1 .. n
    <3>1. n \in 1 .. n
      BY <1>5
    <3> HIDE DEF R
    <3> QED
      BY <1>2, <1>5, <3>1, ElementOfSeq
  <2>3. fc' = [fc EXCEPT ![n] = [fc[n] EXCEPT !.whole = FALSE]]
    BY <1>1, <1>5
  <2>4. fc'[n] = [fc[n] EXCEPT !.whole = FALSE] /\ \A i \in 1 .. n : i # n => fc'[i] = fc[i]
    BY <2>1, <2>2, <2>3, Zenon
  <2>5. fc'[n].whole = FALSE /\ fc'[n].bytes = fc[n].bytes
    BY <2>2, <2>4
  <2>6. Len(fc') = n
    <3>1. DOMAIN fc' = 1 .. n
      BY <2>1, <2>3
    <3>2. fc' \in Seq(R)
      BY DEF CutInv
    <3>3. Len(fc') \in Nat /\ DOMAIN fc' = 1 .. Len(fc')
      BY <3>2
    <3>4. PICK N \in Nat : N = Len(fc') /\ 1 .. N = 1 .. n
      BY <3>1, <3>3
    <3>5. N \in 1 .. N => N \in 1 .. n
      BY <3>4
    <3>6. n \in 1 .. n => n \in 1 .. N
      BY <3>4
    <3>7. N = n
      BY <3>5, <3>6
    <3> QED
      BY <3>4, <3>7
  <2> QED
    BY <2>4, <2>5, <2>6
<1>7. PlainPayloads
  <2>1. ASSUME NEW i \in 1 .. n PROVE Dollar \notin Range(Tail(fc[i].bytes))
    <3>1. Dollar \notin Range(Tail(fc'[i].bytes))
      BY <1>6 DEF PlainPayloads
    <3> QED
      BY <1>6, <3>1
  <2> QED
    BY <1>5, <2>1 DEF PlainPayloads
<1>8. Swallowed' = {}
  <2>1. SUFFICES ASSUME NEW i \in Swallowed' PROVE FALSE
    OBVIOUS
  <2>2. /\ i \in 1 .. Len(fc') /\ fc'[i].whole
        /\ \A k \in 1 .. Len(forwarded') : ~EndsWith(forwarded'[k], fc'[i].bytes)
    BY <2>1, Zenon DEF Swallowed, Heard
  <2>3. i \in 1 .. n - 1 /\ i \in 1 .. n
    BY <1>5, <1>6, <2>2
  <2>4. i \in 1 .. Len(forwarded) /\ forwarded[i] = fc[i].bytes
    BY <1>5, <2>3 DEF SentAre
  <2>5. EndsWith(forwarded[i], fc[i].bytes)
    BY <1>2, <1>5, <2>3, <2>4, EndsItself
  <2> QED
    BY <1>1, <1>6, <2>2, <2>3, <2>4, <2>5
<1>9. PICK m : m = fc[n].bytes
  OBVIOUS
<1>10. Sturdy(m) /\ m \in Seq(Byte) /\ \A i \in 2 .. Len(m) : m[i] # Dollar
  <2>1. n \in 1 .. Len(fc)
    BY <1>5
  <2> QED
    BY <1>2, <1>7, <1>9, <2>1, PlainAt
<1>11. PICK b \in Seq(Byte) : Rest(m, b, line) /\ ((Idle(port) /\ Len(b) = 0) \/ Attempted(b, port))
  <2>1. \/ line = m /\ Idle(port)
        \/ Attempted(raw, port) /\ Rest(m, raw, line)
    BY <1>4, <1>5, <1>9 DEF WithinMessage
  <2>2. CASE line = m /\ Idle(port)
    <3>1. <<>> \in Seq(Byte) /\ Len(<<>>) = 0
      OBVIOUS
    <3>2. Rest(m, <<>>, line)
      BY <1>10, <2>2, <3>1 DEF Rest, Begins
    <3> QED
      BY <2>2, <3>1, <3>2
  <2>3. CASE Attempted(raw, port) /\ Rest(m, raw, line)
    BY <1>2, <2>3
  <2> QED
    BY <2>1, <2>2, <2>3
<1>12. PICK k \in Seq(Byte), d \in {0, 1} :
          k = line' /\ Len(k) = Len(line) - 1 + d /\ \A i \in 1 .. Len(line) - 1 : k[d + i] = line[i + 1]
  <2>1. /\ Tail(line) \in Seq(Byte) /\ Len(line) \in Nat \ {0} /\ Len(Tail(line)) = Len(line) - 1
        /\ \A i \in 1 .. Len(line) - 1 : Tail(line)[i] = line[i + 1]
    BY <1>1, <1>2
  <2>2. next \in Seq(Byte) /\ Len(next) \in {0, 1}
    <3>1. NoiseBytes \subseteq Byte
      BY MspAssumption DEF Byte
    <3>2. CASE next = <<>>
      BY <3>2
    <3>3. ASSUME NEW x \in NoiseBytes, next = <<x>> PROVE next \in Seq(Byte) /\ Len(next) \in {0, 1}
      BY <3>1, <3>3
    <3> QED
      BY <3>2, <3>3
  <2>3. PICK t \in Seq(Byte), z \in Seq(Byte), d \in {0, 1} : t = Tail(line) /\ z = next /\ d = Len(next)
    BY <2>1, <2>2
  <2>4. PICK k \in Seq(Byte) : k = z \o t
    BY ConcatProperties
  <2>5. /\ Len(k) = Len(z) + Len(t)
        /\ \A i \in 1 .. Len(z) + Len(t) : k[i] = IF i <= Len(z) THEN z[i] ELSE t[i - Len(z)]
    BY <2>4, ConcatProperties
  <2>6. Len(k) = d + Len(t) /\ Len(t) \in Nat /\ \A i \in 1 .. d + Len(t) : k[i] = IF i <= d THEN z[i] ELSE t[i - d]
    BY <2>3, <2>5
  <2>7. ASSUME NEW i \in 1 .. Len(t) PROVE k[d + i] = t[i]
    <3>1. d + i \in 1 .. d + Len(t) /\ ~(d + i <= d) /\ (d + i) - d = i
      BY <2>6
    <3> QED
      BY <2>6, <3>1
  <2>8. Len(t) = Len(line) - 1 /\ \A i \in 1 .. Len(line) - 1 : t[i] = line[i + 1]
    BY <2>1, <2>3
  <2>9. Len(k) = Len(line) - 1 + d /\ \A i \in 1 .. Len(line) - 1 : k[d + i] = line[i + 1]
    BY <2>1, <2>6, <2>7, <2>8
  <2>10. k = line'
    BY <1>1, <2>3, <2>4
  <2> QED
    BY <2>9, <2>10
<1>13. Goes(port, k)
  <2>1. Len(line) > 0
    BY <1>1, <1>2
  <2> QED
    BY <1>2, <1>10, <1>11, <1>12, <2>1, GoesDamaged
<1>14. (Len(fc) > 0)' /\ ~fc'[Len(fc')].whole
  BY <1>6
<1> QED
  BY <1>1, <1>8, <1>12, <1>13, <1>14 DEF Strays

\* A byte is read.
LEMMA BackByte ==
    ASSUME InBufSize < 256 * Dollar, BackInv, CutInv', ReadByte
    PROVE  BackInv'
<1>1. /\ line # <<>> /\ line' = Tail(line) /\ port' = Parsed(port, Head(line)) /\ fc' = fc /\ noise' = noise
      /\ raw' = IF Refused(port, Head(line)) THEN Kept ELSE Append(Kept, Head(line))
      /\ reading' = (~Refused(port, Head(line)) /\ Parsed(port, Head(line)).c_state # "COMMAND_RECEIVED")
      /\ forwarded' = IF ~Refused(port, Head(line)) /\ Parsed(port, Head(line)).c_state = "COMMAND_RECEIVED"
                      THEN Append(forwarded, raw') ELSE forwarded
  BY DEF ReadByte
<1>2. /\ noise \in Nat /\ PortOk(port) /\ line \in Seq(Byte) /\ raw \in Seq(Byte) /\ raw' \in Seq(Byte)
      /\ reading \in BOOLEAN /\ CutInv /\ Kept \in Seq(Byte) /\ (reading = TRUE => Kept = raw)
  <2>1. /\ noise \in Nat /\ PortOk(port) /\ line \in Seq(Byte) /\ raw \in Seq(Byte)
        /\ reading \in BOOLEAN /\ CutInv
    BY DEF BackInv, CutInv, SentInv, BufInv
  <2>2. raw' \in Seq(Byte)
    BY DEF CutInv, SentInv
  <2> QED
    BY <2>1, <2>2 DEF Kept
<1>3. PICK l \in Seq(Byte), c \in Byte : l = line /\ c = l[1] /\ c = Head(line) /\ Len(l) > 0
  BY <1>1, <1>2
<1> SUFFICES ASSUME noise = 1, PlainPayloads' PROVE Strays' \/ FindsBackNow'
  BY <1>1 DEF BackInv
<1>4. PlainPayloads
  BY <1>1 DEF PlainPayloads
<1>5. CASE Strays
  <2>1. Goes(port, l) /\ Len(fc) > 0 /\ ~fc[Len(fc)].whole /\ Swallowed = {}
    BY <1>3, <1>5 DEF Strays
  <2>2. Goes(Parsed(port, l[1]), Tail(l))
    BY <1>2, <1>3, <2>1, GoesOn
  <2>3. Goes(port', line')
    BY <1>1, <1>3, <2>2
  <2>4. Swallowed' = {}
    BY <1>2, <2>1, SwallowedReads
  <2> QED
    BY <1>1, <2>1, <2>3, <2>4 DEF Strays
<1>6. CASE FindsBackNow
  <2>1. PICK b \in Seq(Byte) : ReadOfLast(b) /\ Back(fc, Swallowed, port, b, line, reading, raw)
    BY <1>6 DEF FindsBackNow
  <2>2. Len(fc) > 0 /\ Rest(fc[Len(fc)].bytes, b, line)
    BY <1>1, <2>1 DEF ReadOfLast
  <2>3. PICK n \in Nat : n + 1 = Len(fc)
    <3>1. Len(fc) - 1 \in Nat /\ Len(fc) \in Nat
      BY <1>2, <2>2, SwallowedReads DEF CutInv
    <3>2. PICK N \in Nat : N = Len(fc) /\ N > 0
      BY <2>2, <3>1
    <3>3. N - 1 \in Nat /\ (N - 1) + 1 = N
      BY <3>2
    <3> QED
      BY <3>2, <3>3
  <2>4. PICK S, T, m : /\ S = Swallowed /\ T = Swallowed' /\ m = fc[n + 1].bytes
                       /\ S \in SUBSET (1 .. n) /\ T \in SUBSET (S \cup {n + 1})
    <3>1. /\ Swallowed \in SUBSET (1 .. Len(fc) - 1)
          /\ Swallowed' \in SUBSET (Swallowed \cup {Len(fc)})
      BY <1>2, <2>2, SwallowedReads
    <3>2. Len(fc) - 1 = n
      <4>1. PICK N \in Nat : N = Len(fc) /\ n + 1 = N
        BY <2>3
      <4>2. N - 1 = n
        BY <4>1
      <4> QED
        BY <4>1, <4>2
    <3> QED
      BY <2>3, <3>1, <3>2
  <2>5. /\ Sturdy(m) /\ GoodMessage(m) /\ m \in Seq(Byte) /\ \A i \in 2 .. Len(m) : m[i] # Dollar
        /\ Rest(m, b, l)
    <3>1. n + 1 \in 1 .. Len(fc)
      BY <2>3
    <3> QED
      BY <1>2, <1>3, <1>4, <2>2, <2>3, <2>4, <3>1, PlainAt
  <2>6. Len(l) > 1 => T \subseteq S
    <3>1. ASSUME Len(l) > 1 PROVE line' # <<>>
      <4>1. Tail(l) # <<>>
        BY <3>1, TailFilled
      <4> QED
        BY <1>1, <1>3, <4>1
    <3> QED
      BY <1>2, <2>2, <2>4, <3>1, SwallowedReads
  <2>7. KeepsRead(port, l[1], Kept, reading', raw')
    BY <1>1, <1>3 DEF KeepsRead
  <2>8. Forwards(port, l[1], m, raw') => T \subseteq S
    <3>1. SUFFICES ASSUME Forwards(port, l[1], m, raw') PROVE T \subseteq S
      OBVIOUS
    <3>2. PICK junk \in Seq(Byte) : raw' = junk \o m
      BY <3>1 DEF Forwards
    <3>3. EndsWith(raw', m)
      BY <2>5, <3>2, EndsOwn
    <3>4. forwarded' = Append(forwarded, raw')
      BY <1>1, <1>3, <3>1 DEF Forwards
    <3>5. EndsWith(raw', fc[Len(fc)].bytes)
      BY <2>3, <2>4, <3>3
    <3>6. Swallowed' \subseteq Swallowed
      BY <1>2, <2>2, <3>4, <3>5, SwallowedReads
    <3> QED
      BY <2>4, <3>6
  <2>9. PICK e \in Seq(Byte) : Advances(b, l, e)
    <3>1. <<>> \in Seq(Byte) /\ Append(b, l[1]) \in Seq(Byte)
      BY <1>3, AppendProperties
    <3> QED
      BY <3>1 DEF Advances
  <2>10. /\ IsFiniteSet(FcBytes(fc, T))
         /\ Back(fc, T, Parsed(port, l[1]), e, Tail(l), reading', raw')
    <3>1. PICK f, p, rd, rw, kept, rd2, rw2 :
             /\ rd \in BOOLEAN /\ rw \in Seq(Byte) /\ kept \in Seq(Byte)
             /\ f = fc /\ p = port /\ rd = reading /\ rw = raw /\ kept = Kept
             /\ rd2 = reading' /\ rw2 = raw'
      BY <1>2
    <3>2. /\ Len(m) = Len(f[n + 1].bytes) /\ PortOk(p) /\ Len(l) > 0
          /\ IsFiniteSet(FcBytes(f, S)) /\ Back(f, S, p, b, l, rd, rw)
          /\ (rd = TRUE => kept = rw) /\ KeepsRead(p, l[1], kept, rd2, rw2)
          /\ SwallowsNext(n, S, T, l, Forwards(p, l[1], m, rw2)) /\ PlainMessage(m)
          /\ rd \in BOOLEAN /\ rw \in Seq(Byte) /\ kept \in Seq(Byte)
      <4>1. SwallowsNext(n, S, T, l, Forwards(p, l[1], m, rw2)) /\ PlainMessage(m)
        BY <2>4, <2>5, <2>6, <2>8, <3>1 DEF SwallowsNext, PlainMessage
      <4> QED
        BY <1>2, <1>3, <1>6, <2>1, <2>4, <2>7, <3>1, <4>1 DEF FindsBackNow
    <3>3. /\ IsFiniteSet(FcBytes(f, T))
          /\ Back(f, T, Parsed(p, l[1]), e, Tail(l), rd2, rw2)
      <4>1. Rest(m, b, l)
        BY <2>5
      <4> QED
        BY <2>9, <3>2, <4>1, BackReads
    <3> QED
      BY <3>1, <3>3
  <2>11. ReadOfLast(e)'
    <3>1. /\ Append(b, l[1]) \in Seq(Byte) /\ Rest(m, Append(b, l[1]), Tail(l))
          /\ Tail(l) \in Seq(Byte) /\ Len(Tail(l)) = Len(l) - 1 /\ Len(l) \in Nat
      BY <1>3, <2>5, RestReads
    <3>2. CASE Len(l) > 1
      <4>1. e = Append(b, l[1]) /\ Len(Tail(l)) # 0 /\ Len(<<>>) = 0
        BY <2>9, <3>1, <3>2 DEF Advances
      <4>2. line' # <<>> /\ Rest(m, e, line')
        BY <1>1, <1>3, <3>1, <4>1
      <4> QED
        BY <1>1, <2>2, <2>3, <2>4, <4>2 DEF ReadOfLast
    <3>3. CASE ~(Len(l) > 1)
      <4>1. e = <<>> /\ Len(e) = 0
        BY <2>9, <3>3 DEF Advances
      <4>2. Len(Tail(l)) = 0
        BY <1>3, <3>1, <3>3
      <4>3. line' = <<>>
        BY <1>1, <1>3, <3>1, <4>2
      <4> QED
        BY <4>1, <4>3 DEF ReadOfLast
    <3> QED
      BY <3>2, <3>3
  <2>12. IsFiniteSet(FcBytes(fc', Swallowed')) /\ Back(fc', Swallowed', port', e, line', reading', raw')
    BY <1>1, <1>3, <2>4, <2>10
  <2> QED
    BY <2>11, <2>12 DEF FindsBackNow
<1> QED
  BY <1>4, <1>5, <1>6 DEF BackInv

\* Every step of the loop and the flight controller.
LEMMA BackNext ==
    ASSUME InBufSize < 256 * Dollar, BackInv, [MspNext]_mspVars
    PROVE  BackInv'
<1>1. CutInv'
  BY CutNext DEF BackInv
<1>2. ASSUME NEW m \in Messages, FcSends(m) PROVE BackInv'
  BY <1>1, <1>2, BackSends
<1>3. ASSUME NEW next \in {<<>>} \cup {<<x>> : x \in NoiseBytes}, Distort(next) PROVE BackInv'
  BY <1>1, <1>3, BackDistorts
<1>4. ASSUME ReadByte PROVE BackInv'
  BY <1>1, <1>4, BackByte
<1>5. ASSUME UNCHANGED mspVars PROVE BackInv'
  <2>1. /\ port' = port /\ reading' = reading /\ raw' = raw /\ line' = line /\ fc' = fc
        /\ noise' = noise /\ forwarded' = forwarded
    BY <1>5 DEF mspVars
  <2>2. Swallowed' = Swallowed /\ PlainPayloads' = PlainPayloads
    BY <2>1 DEF Swallowed, Heard, PlainPayloads
  <2>3. Strays' = Strays
    BY <2>1, <2>2 DEF Strays
  <2>4. FindsBackNow' = FindsBackNow
    BY <2>1, <2>2 DEF FindsBackNow, ReadOfLast
  <2> QED
    BY <1>1, <2>1, <2>2, <2>3, <2>4 DEF BackInv
<1> QED
  BY <1>2, <1>3, <1>4, <1>5 DEF MspNext

\* Whatever state the parser is in, few messages are swallowed.
LEMMA BackIsFew ==
    ASSUME PortOk(port), FindsBackNow, NEW n \in Nat, Swallowed \subseteq 1 .. n
    PROVE  Few(fc, Swallowed)
<1>1. PICK b \in Seq(Byte) : Back(fc, Swallowed, port, b, line, reading, raw)
  BY DEF FindsBackNow
<1>2. IsFiniteSet(FcBytes(fc, Swallowed)) /\ Count(fc, Swallowed) \in Nat
  BY FS_CardinalityType DEF FindsBackNow, Count
<1>3. PICK s \in Nat, B \in Nat : s = Count(fc, Swallowed) + B /\ B = Len(b)
  BY <1>2
<1>4. ASSUME Count(fc, Swallowed) <= InBufSize PROVE Few(fc, Swallowed)
  <2>1. Swallowed \in SUBSET (1 .. n) /\ Swallowed \in SUBSET (Swallowed \cup {n + 1})
    OBVIOUS
  <2> QED
    BY <1>2, <1>4, <2>1, FewFits
<1>5. CASE Eats(port, Count(fc, Swallowed) + Len(b))
  <2>1. 0 \in Byte
    BY ByteFacts
  <2>2. Eats(port, s)
    BY <1>3, <1>5
  <2>3. s <= InBufSize
    BY <2>1, <2>2, EatsOn
  <2>4. Count(fc, Swallowed) <= InBufSize
    BY <1>2, <1>3, <2>3, MspAssumption
  <2> QED
    BY <1>4, <2>4
<1>6. CASE Swallowed = {}
  BY <1>6, CountNone
<1> QED
  BY <1>1, <1>4, <1>5, <1>6 DEF Back

\* One noisy byte costs, of the messages that arrived whole, no more than what
\* fits into inBuf and the message at which the parser gives up, for any number
\* of messages and every inBuf that no size with a '$' as its high byte fits
\* into (MSP_PORT_INBUF_SIZE is 192; control_main_air.c:526-548, msp_serial.c).
THEOREM MspFindsBack ==
    ASSUME InBufSize < 256 * Dollar
    PROVE  MspSpec => []ParserFindsBack
<1>1. ASSUME BackInv PROVE ParserFindsBack
  <2>1. \A is : BytesOf(is) = FcBytes(fc, is)
    BY Zenon DEF BytesOf, FcBytes
  <2>2. Few(fc, Swallowed) =>
           \A i \in Swallowed : Cardinality(BytesOf({k \in Swallowed : k < i})) <= InBufSize
    BY <2>1, Zenon DEF Few, Count
  <2> SUFFICES ASSUME noise <= 1, PlainPayloads PROVE Few(fc, Swallowed)
    BY <2>2 DEF ParserFindsBack
  <2>3. CutInv /\ noise \in Nat /\ PortOk(port) /\ Len(fc) \in Nat
    BY <1>1 DEF BackInv, CutInv, SentInv, BufInv
  <2>4. CASE Swallowed = {}
    BY <2>4, CountNone
  <2>5. CASE FindsBackNow
    <3>1. Swallowed \subseteq 1 .. Len(fc)
      BY Zenon DEF Swallowed, Heard
    <3> QED
      BY <2>3, <2>5, <3>1, BackIsFew
  <2>6. CASE noise = 0
    BY <2>3, <2>4, <2>6, NoneSwallowed
  <2>7. CASE noise = 1
    BY <1>1, <2>4, <2>5, <2>7 DEF BackInv, Strays
  <2> QED
    BY <2>3, <2>6, <2>7
<1> QED
  BY <1>1, BackStart, BackNext, PTL DEF MspSpec

-----------------------------------------------------------------------------
(* The plugins of the UAV.                                                 *)

PlaceTypeOK ==
    /\ unix_server_clients \in [ClientSlots -> Plugins \cup {NoPlugin}]
    /\ backlog \in Seq(Plugins)
    /\ connected \subseteq Plugins /\ left \subseteq connected /\ noticed \subseteq left
    /\ crowded \in BOOLEAN

Queued == {p \in Plugins : \E i \in 1 .. Len(backlog) : backlog[i] = p}

\* A plugin is at one place: in the backlog, in a slot, or freed.
OnePlace ==
    /\ \A t, u \in ClientSlots :
          unix_server_clients[t] = unix_server_clients[u] /\ unix_server_clients[t] # NoPlugin => t = u
    /\ Stored \subseteq connected \ noticed
    /\ Queued \subseteq connected \ (noticed \cup Stored)
    /\ \A i, j \in 1 .. Len(backlog) : backlog[i] = backlog[j] => i = j

\* Until the table is crowded, nobody who is there has lost his place.
PlacesLast ==
    /\ IsFiniteSet(connected)
    /\ ~crowded => /\ Cardinality(connected \ noticed) <= MaxClients
                   /\ connected \ noticed \subseteq Stored \cup Queued

PlaceInv == PlaceTypeOK /\ OnePlace /\ PlacesLast

\* Where the loop over adapters and copies stands: adapters still to be served
\* with the chunk, copies of the adapter it is at.
LoopAt(adapters, copies, chunks) ==
    /\ adapters \in 1 .. NumAir /\ copies \in 1 .. Retransmissions
    /\ copies_left = (adapters - 1) * Retransmissions + copies
    /\ writes = chunks * NumAir + (NumAir - adapters)
LoopDone(chunks) == copies_left = 0 /\ writes = chunks * NumAir

LoopInv ==
    /\ \E k \in Nat : LoopDone(k) \/ \E a \in 1 .. NumAir, c \in 1 .. Retransmissions : LoopAt(a, c, k)
    /\ copies_left > 0 => serial_read_bytes > 0

\* What a plugin in a slot was sent last.
LastSent(p) ==
    got[p] # <<>> => IF writes % NumAir = 0
                     THEN got[p][Len(got[p])][2] = chunked
                     ELSE got[p][Len(got[p])] = <<chunked + 1, serial>>

InOrder(g) ==
    \A i \in 1 .. Len(g) - 1 :
        IF i % NumAir = 0 THEN g[i + 1][1] = g[i][2] + 1 ELSE g[i + 1] = g[i]

Follows(p) ==
    /\ Len(got[p]) = writes - joined[p] /\ \E k \in Nat : joined[p] = k * NumAir
    /\ InOrder(got[p]) /\ LastSent(p)

StreamTypeOK == writes \in Nat /\ joined \in [Plugins -> Nat] /\ running \in BOOLEAN

StreamInv ==
    running => /\ got \in [Plugins -> Seq(Nat \X Nat)]
               /\ \A p \in Plugins \ connected : got[p] = <<>>
               /\ \A p \in Queued : got[p] = <<>>
               /\ \A p \in Stored : Follows(p)

USE ControlAirAssumption, UnixAssumption

\* The remainder of a sum whose first part is a multiple.
LEMMA RemainderOf ==
    ASSUME NEW n \in Nat \ {0}, NEW k \in Nat, NEW r \in 0 .. n - 1
    PROVE  (k * n + r) % n = r
<1> DEFINE a == k * n + r
           q == a \div n
           s == a % n
<1>1. a \in Nat /\ k * n \in Nat
  OBVIOUS
<1>2. q \in Nat /\ s \in 0 .. n - 1 /\ a = n * q + s
  BY <1>1
<1> HIDE DEF q, s
<1>3. k * n + r = q * n + s
  BY <1>2
<1>4. ~(k > q)
  <2>1. ASSUME k > q PROVE FALSE
    <3>1. k - q - 1 \in Nat /\ k = q + 1 + (k - q - 1)
      BY <1>2, <2>1
    <3>2. k * n = q * n + n + (k - q - 1) * n
      BY <1>2, <3>1
    <3>3. (k - q - 1) * n \in Nat /\ q * n \in Nat
      BY <1>2, <3>1
    <3> HIDE DEF a
    <3> QED
      BY <1>1, <1>2, <1>3, <3>2, <3>3
  <2> QED
    BY <2>1
<1>5. ~(q > k)
  <2>1. ASSUME q > k PROVE FALSE
    <3>1. q - k - 1 \in Nat /\ q = k + 1 + (q - k - 1)
      BY <1>2, <2>1
    <3>2. q * n = k * n + n + (q - k - 1) * n
      BY <1>2, <3>1
    <3>3. (q - k - 1) * n \in Nat
      BY <1>2, <3>1
    <3> HIDE DEF a
    <3> QED
      BY <1>1, <1>2, <1>3, <3>2, <3>3
  <2> QED
    BY <2>1
<1>6. q = k
  BY <1>2, <1>4, <1>5
<1>7. s = r
  BY <1>1, <1>2, <1>3, <1>6
<1> QED
  BY <1>7 DEF s

-----------------------------------------------------------------------------
(* Places.                                                                 *)

\* The slot a new plugin takes is free, or it is the last one and none is free.
LEMMA SlotTaken ==
    ASSUME NEW p
    PROVE  \E t \in ClientSlots :
              /\ Taken(p) = [unix_server_clients EXCEPT ![t] = p]
              /\ \/ unix_server_clients[t] = NoPlugin
                 \/ \A u \in ClientSlots : unix_server_clients[u] # NoPlugin
<1> DEFINE usable == {t \in ClientSlots : unix_server_clients[t] = NoPlugin \/ t = MaxClients}
           slot == CHOOSE t \in usable : \A u \in usable : t <= u
<1>1. usable \subseteq Nat /\ usable # {}
  BY DEF ClientSlots
<1>2. \E t \in usable : \A u \in usable : t <= u
  BY <1>1, NatLeast
<1>3. slot \in usable /\ \A u \in usable : slot <= u
  BY <1>2
<1>4. Taken(p) = [unix_server_clients EXCEPT ![slot] = p]
  BY DEF Taken
<1> HIDE DEF slot
<1>5. ASSUME unix_server_clients[slot] # NoPlugin, NEW u \in ClientSlots,
             unix_server_clients[u] = NoPlugin
      PROVE  FALSE
  <2>1. slot = MaxClients /\ u \in usable /\ u # slot
    BY <1>3, <1>5
  <2>2. u <= MaxClients /\ slot <= u /\ u \in Nat
    BY <1>3, <2>1, <1>5 DEF ClientSlots
  <2> QED
    BY <2>1, <2>2
<1> QED
  BY <1>3, <1>4, <1>5

\* If no slot is free, as many plugins are stored as there are slots.
LEMMA FullTable ==
    ASSUME PlaceTypeOK, OnePlace, \A u \in ClientSlots : unix_server_clients[u] # NoPlugin
    PROVE  IsFiniteSet(Stored) /\ Cardinality(Stored) = MaxClients
<1>1. unix_server_clients \in Bijection(ClientSlots, Stored)
  <2>1. unix_server_clients \in [ClientSlots -> Stored]
    BY DEF PlaceTypeOK, Stored
  <2>2. \A x \in Stored : \E t \in ClientSlots : unix_server_clients[t] = x
    BY DEF Stored
  <2> QED
    BY <2>1, <2>2 DEF Bijection, Injection, Surjection, IsInjective, OnePlace
<1>2. IsFiniteSet(ClientSlots) /\ Cardinality(ClientSlots) = MaxClients
  BY FS_Interval DEF ClientSlots
<1> QED
  BY <1>1, <1>2, FS_Bijection DEF ExistsBijection

LEMMA PlaceConnects ==
    ASSUME PlaceInv, NEW p \in Plugins, PluginConnects(p)
    PROVE  PlaceInv' /\ Queued' = Queued \cup {p} /\ Stored' = Stored
<1>1. /\ p \notin connected /\ connected' = connected \cup {p} /\ backlog' = Append(backlog, p)
      /\ crowded' = (crowded \/ Cardinality(connected' \ noticed) > MaxClients)
      /\ UNCHANGED <<unix_server_clients, left, noticed>>
  BY DEF PluginConnects, serverVars
<1>2. PlaceTypeOK
  BY DEF PlaceInv
<1>3. /\ Len(backlog') = Len(backlog) + 1 /\ Len(backlog) \in Nat /\ backlog'[Len(backlog) + 1] = p
      /\ \A i \in 1 .. Len(backlog) : backlog'[i] = backlog[i] /\ backlog[i] \in Queued
      /\ backlog' \in Seq(Plugins)
  BY <1>1, <1>2 DEF PlaceTypeOK, Queued
<1>4. \A i \in 1 .. Len(backlog') : i = Len(backlog) + 1 \/ i \in 1 .. Len(backlog)
  BY <1>3
<1>5. PlaceTypeOK'
  BY <1>1, <1>2, <1>3 DEF PlaceTypeOK, ClientSlots
<1>6. Queued' = Queued \cup {p} /\ Stored' = Stored
  <2>1. Queued' \subseteq Queued \cup {p}
    BY <1>3, <1>4 DEF Queued
  <2>2. Queued \cup {p} \subseteq Queued'
    BY <1>3 DEF Queued
  <2> QED
    BY <1>1, <2>1, <2>2 DEF Stored, ClientSlots
<1>7. p \notin Stored /\ p \notin Queued /\ p \notin noticed
  BY <1>1, <1>2 DEF PlaceInv, OnePlace, PlaceTypeOK
<1>8. OnePlace'
  <2>1. \A i, j \in 1 .. Len(backlog') : backlog'[i] = backlog'[j] => i = j
    BY <1>3, <1>4, <1>7 DEF PlaceInv, OnePlace
  <2>2. \A t, u \in ClientSlots : unix_server_clients'[t] = unix_server_clients'[u]
            /\ unix_server_clients'[t] # NoPlugin => t = u
    BY <1>1 DEF PlaceInv, OnePlace
  <2> QED
    BY <1>1, <1>6, <1>7, <2>1, <2>2 DEF PlaceInv, OnePlace, ClientSlots
<1>9. IsFiniteSet(connected') /\ IsFiniteSet(connected' \ noticed)
  BY <1>1, FS_AddElement, FS_Difference DEF PlaceInv, PlacesLast
<1>10. PlacesLast'
  <2>1. Cardinality(connected' \ noticed) \in Nat
    BY <1>9, FS_CardinalityType
  <2>2. ASSUME ~crowded' PROVE /\ Cardinality(connected' \ noticed) <= MaxClients
                               /\ connected' \ noticed \subseteq Stored' \cup Queued'
    <3>1. ~crowded /\ ~(Cardinality(connected' \ noticed) > MaxClients)
      BY <1>1, <2>2, Zenon
    <3>2. Cardinality(connected' \ noticed) <= MaxClients
      BY <2>1, <3>1
    <3>3. connected' \ noticed \subseteq Stored' \cup Queued'
      BY <1>1, <1>6, <3>1 DEF PlaceInv, PlacesLast
    <3> QED
      BY <3>2, <3>3
  <2> QED
    BY <1>1, <1>9, <2>2 DEF PlacesLast
<1> QED
  BY <1>5, <1>6, <1>8, <1>10 DEF PlaceInv

LEMMA PlaceLeaves ==
    ASSUME PlaceInv, NEW p \in Plugins, PluginLeaves(p)
    PROVE  PlaceInv' /\ Queued' = Queued /\ Stored' = Stored
<1>1. /\ p \in connected /\ left' = left \cup {p}
      /\ UNCHANGED <<unix_server_clients, backlog, connected, noticed, crowded>>
  BY DEF PluginLeaves, serverVars
<1>2. Queued' = Queued /\ Stored' = Stored
  BY <1>1 DEF Queued, Stored, ClientSlots
<1>3. PlaceTypeOK'
  BY <1>1 DEF PlaceInv, PlaceTypeOK, ClientSlots
<1>4. OnePlace' /\ PlacesLast'
  BY <1>1, <1>2 DEF PlaceInv, OnePlace, PlacesLast, ClientSlots
<1> QED
  BY <1>2, <1>3, <1>4 DEF PlaceInv

\* What an accept does: the plugin at the head of the backlog gets a slot; if
\* another one loses it, the table is crowded.
LEMMA AcceptOutcome ==
    ASSUME PlaceInv, AcceptPlugin
    PROVE  \E p \in Queued, t \in ClientSlots :
              /\ p \notin Stored /\ p # NoPlugin /\ p = Head(backlog)
              /\ unix_server_clients' = [unix_server_clients EXCEPT ![t] = p]
              /\ Stored' \subseteq Stored \cup {p} /\ p \in Stored'
              /\ Queued' \subseteq Queued \ {p} /\ Queued \subseteq Queued' \cup {p}
              /\ ~crowded => Stored \subseteq Stored'
<1>1. PlaceTypeOK /\ OnePlace
  BY DEF PlaceInv
<1>2. backlog \in Seq(Plugins) /\ backlog # <<>> /\ backlog' = Tail(backlog)
  BY <1>1 DEF PlaceTypeOK, AcceptPlugin
<1> DEFINE p == Head(backlog)
<1>3. /\ p = backlog[1] /\ 1 \in 1 .. Len(backlog) /\ p \in Plugins /\ Len(backlog) \in Nat
      /\ Len(backlog') = Len(backlog) - 1
      /\ \A i \in 1 .. Len(backlog) - 1 : backlog'[i] = backlog[i + 1]
  BY <1>2
<1>4. p \in Queued /\ p \notin Stored /\ p # NoPlugin
  BY <1>1, <1>3 DEF Queued, OnePlace
<1>5. Queued' \subseteq Queued \ {p}
  <2> SUFFICES ASSUME NEW i \in 1 .. Len(backlog') PROVE backlog'[i] \in Queued \ {p}
    BY DEF Queued
  <2>1. i + 1 \in 1 .. Len(backlog) /\ i + 1 # 1 /\ backlog'[i] = backlog[i + 1]
    BY <1>3
  <2>2. backlog[i + 1] \in Plugins
    BY <1>2, <2>1
  <2>3. backlog[i + 1] # p
    BY <1>1, <1>3, <2>1 DEF OnePlace
  <2> QED
    BY <2>1, <2>2, <2>3 DEF Queued
<1>6. Queued \subseteq Queued' \cup {p}
  <2> SUFFICES ASSUME NEW i \in 1 .. Len(backlog), backlog[i] # p
               PROVE  backlog[i] \in Queued'
    BY DEF Queued
  <2>1. i - 1 \in 1 .. Len(backlog') /\ backlog'[i - 1] = backlog[i]
    BY <1>3
  <2>2. backlog[i] \in Plugins
    BY <1>2
  <2> QED
    BY <2>1, <2>2 DEF Queued
<1>7. unix_server_clients' = Taken(p)
  BY DEF AcceptPlugin
<1>8. PICK t \in ClientSlots :
         /\ unix_server_clients' = [unix_server_clients EXCEPT ![t] = p]
         /\ \/ unix_server_clients[t] = NoPlugin
            \/ \A u \in ClientSlots : unix_server_clients[u] # NoPlugin
  BY <1>7, SlotTaken
<1> HIDE DEF p
<1>9. /\ unix_server_clients'[t] = p
      /\ \A u \in ClientSlots : u # t => unix_server_clients'[u] = unix_server_clients[u]
  BY <1>1, <1>8 DEF PlaceTypeOK
<1>10. Stored' \subseteq Stored \cup {p} /\ p \in Stored'
  BY <1>4, <1>9 DEF Stored, ClientSlots
<1>11. ASSUME ~crowded PROVE Stored \subseteq Stored'
  <2>1. CASE unix_server_clients[t] = NoPlugin
    BY <1>9, <2>1 DEF Stored, ClientSlots
  <2>2. CASE \A u \in ClientSlots : unix_server_clients[u] # NoPlugin
    <3>1. IsFiniteSet(Stored) /\ Cardinality(Stored) = MaxClients
      BY <1>1, <2>2, FullTable
    <3>2. Stored \cup {p} \subseteq connected \ noticed
      BY <1>1, <1>4 DEF OnePlace
    <3>3. Cardinality(Stored \cup {p}) = MaxClients + 1
      BY <1>4, <3>1, FS_AddElement
    <3>4. /\ Cardinality(connected \ noticed) <= MaxClients
          /\ IsFiniteSet(connected \ noticed) /\ Cardinality(connected \ noticed) \in Nat
      BY <1>11, FS_Difference, FS_CardinalityType DEF PlaceInv, PlacesLast
    <3>5. Cardinality(Stored \cup {p}) <= Cardinality(connected \ noticed)
      BY <3>2, <3>4, FS_Subset
    <3> QED
      BY <3>3, <3>4, <3>5
  <2> QED
    BY <1>8, <2>1, <2>2
<1> QED
  BY <1>4, <1>5, <1>6, <1>8, <1>10, <1>11 DEF p

LEMMA PlaceAccept ==
    ASSUME PlaceInv, AcceptPlugin
    PROVE  PlaceInv'
<1>1. PICK p \in Queued, t \in ClientSlots :
              /\ p \notin Stored /\ p # NoPlugin /\ p = Head(backlog)
              /\ unix_server_clients' = [unix_server_clients EXCEPT ![t] = p]
              /\ Stored' \subseteq Stored \cup {p} /\ p \in Stored'
              /\ Queued' \subseteq Queued \ {p} /\ Queued \subseteq Queued' \cup {p}
              /\ ~crowded => Stored \subseteq Stored'
  BY AcceptOutcome
<1>2. UNCHANGED <<connected, left, noticed, crowded>> /\ backlog' = Tail(backlog) /\ backlog # <<>>
      /\ PlaceTypeOK /\ OnePlace
  BY DEF AcceptPlugin, PlaceInv
<1>3. PlaceTypeOK'
  BY <1>1, <1>2 DEF PlaceTypeOK, Queued, ClientSlots
<1>4. /\ unix_server_clients'[t] = p
      /\ \A u \in ClientSlots : u # t => unix_server_clients'[u] = unix_server_clients[u]
      /\ \A u \in ClientSlots : unix_server_clients[u] # p
  BY <1>1, <1>2 DEF PlaceTypeOK, Stored
<1>5. \A u, w \in ClientSlots :
          unix_server_clients'[u] = unix_server_clients'[w] /\ unix_server_clients'[u] # NoPlugin => u = w
  BY <1>2, <1>4 DEF OnePlace
<1>6. \A i, j \in 1 .. Len(backlog') : backlog'[i] = backlog'[j] => i = j
  <2>1. /\ backlog \in Seq(Plugins) /\ Len(backlog') = Len(backlog) - 1
        /\ \A i \in 1 .. Len(backlog) - 1 : backlog'[i] = backlog[i + 1]
    BY <1>2 DEF PlaceTypeOK
  <2>2. \A i \in 1 .. Len(backlog') : i + 1 \in 1 .. Len(backlog) /\ backlog'[i] = backlog[i + 1]
    BY <2>1
  <2>3. \A i, j \in 1 .. Len(backlog') : backlog'[i] = backlog'[j] => i + 1 = j + 1
    BY <1>2, <2>2 DEF OnePlace
  <2> QED
    BY <2>1, <2>3
<1>7. OnePlace'
  BY <1>1, <1>2, <1>5, <1>6 DEF OnePlace, ClientSlots
<1>8. PlacesLast'
  BY <1>1, <1>2 DEF PlaceInv, PlacesLast
<1> QED
  BY <1>3, <1>7, <1>8 DEF PlaceInv

LEMMA PlaceGone ==
    ASSUME PlaceInv, NEW t \in ClientSlots, ServeGone(t)
    PROVE  PlaceInv' /\ Stored' \subseteq Stored /\ Queued' = Queued
<1> DEFINE p == unix_server_clients[t]
<1>1. /\ p \in left /\ unix_server_clients' = [unix_server_clients EXCEPT ![t] = NoPlugin]
      /\ noticed' = noticed \cup {p}
      /\ UNCHANGED <<backlog, connected, left, crowded>> /\ PlaceTypeOK /\ OnePlace
  BY DEF ServeGone, Freed, PlaceInv
<1>2. p \in Plugins /\ p # NoPlugin /\ p \in Stored
  BY <1>1 DEF PlaceTypeOK, Stored
<1>3. /\ unix_server_clients'[t] = NoPlugin
      /\ \A u \in ClientSlots : u # t => unix_server_clients'[u] = unix_server_clients[u]
      /\ unix_server_clients' \in [ClientSlots -> Plugins \cup {NoPlugin}]
  BY <1>1 DEF PlaceTypeOK
<1>4. \A u \in ClientSlots : u # t => unix_server_clients[u] # p
  BY <1>1, <1>2 DEF OnePlace
<1> HIDE DEF p
<1>5. Stored' = Stored \ {p}
  <2>1. Stored' \subseteq Stored \ {p}
    BY <1>3, <1>4 DEF Stored, ClientSlots
  <2>2. Stored \ {p} \subseteq Stored'
    BY <1>3, <1>4 DEF Stored, ClientSlots, p
  <2> QED
    BY <2>1, <2>2
<1>6. Queued' = Queued
  BY <1>1 DEF Queued
<1>7. PlaceTypeOK'
  BY <1>1, <1>3 DEF PlaceTypeOK, ClientSlots
<1>8. \A u, w \in ClientSlots :
          unix_server_clients'[u] = unix_server_clients'[w] /\ unix_server_clients'[u] # NoPlugin => u = w
  BY <1>1, <1>3 DEF OnePlace
<1>9. OnePlace'
  BY <1>1, <1>2, <1>5, <1>6, <1>8 DEF OnePlace, ClientSlots
<1>10. PlacesLast'
  <2>1. connected' \ noticed' \in SUBSET (connected \ noticed)
    BY <1>1
  <2>2. IsFiniteSet(connected \ noticed) /\ Cardinality(connected \ noticed) \in Nat
    BY FS_Difference, FS_CardinalityType DEF PlaceInv, PlacesLast
  <2>3. /\ Cardinality(connected' \ noticed') <= Cardinality(connected \ noticed)
        /\ Cardinality(connected' \ noticed') \in Nat
    BY <2>1, <2>2, FS_Subset, FS_CardinalityType
  <2> QED
    BY <1>1, <1>5, <1>6, <2>2, <2>3 DEF PlaceInv, PlacesLast
<1> QED
  BY <1>5, <1>6, <1>7, <1>9, <1>10 DEF PlaceInv

LEMMA PlaceSame ==
    ASSUME PlaceInv, UNCHANGED <<unix_server_clients, backlog, connected, left, noticed, crowded>>
    PROVE  PlaceInv' /\ Queued' = Queued /\ Stored' = Stored
<1>1. Queued' = Queued /\ Stored' = Stored /\ ClientSlots' = ClientSlots
  BY DEF Queued, Stored, ClientSlots
<1>2. PlaceTypeOK'
  BY <1>1 DEF PlaceInv, PlaceTypeOK
<1>3. OnePlace' /\ PlacesLast'
  BY <1>1 DEF PlaceInv, OnePlace, PlacesLast
<1> QED
  BY <1>1, <1>2, <1>3 DEF PlaceInv

LEMMA PlaceNext ==
    ASSUME PlaceInv, [UnixNext]_unixVars PROVE PlaceInv'
<1>1. ASSUME NEW p \in Plugins, PluginConnects(p) PROVE PlaceInv'
  BY <1>1, PlaceConnects
<1>2. ASSUME NEW p \in Plugins, PluginSends(p) PROVE PlaceInv'
  BY <1>2, PlaceSame DEF PluginSends, serverVars
<1>3. ASSUME NEW p \in Plugins, PluginLeaves(p) PROVE PlaceInv'
  BY <1>3, PlaceLeaves
<1>4. ASSUME AcceptPlugin PROVE PlaceInv'
  BY <1>4, PlaceAccept
<1>5. ASSUME NEW t \in ClientSlots, ServeGone(t) PROVE PlaceInv'
  BY <1>5, PlaceGone
<1>6. ASSUME NEW t \in ClientSlots, NEW n \in 1 .. MaxCommands, ServeCommands(t, n) PROVE PlaceInv'
  BY <1>6, PlaceSame DEF ServeCommands
<1>7. ASSUME NEW n \in 1 .. ReadBuf, ReadSerialPort(n) PROVE PlaceInv'
  BY <1>7, PlaceSame DEF ReadSerialPort, serverVars, pluginVars
<1>8. ASSUME SendCopyAndServe PROVE PlaceInv'
  BY <1>8, PlaceSame DEF SendCopyAndServe, serverVars, pluginVars
<1>9. ASSUME UNCHANGED unixVars PROVE PlaceInv'
  BY <1>9, PlaceSame DEF unixVars
<1> QED
  BY <1>1, <1>2, <1>3, <1>4, <1>5, <1>6, <1>7, <1>8, <1>9 DEF UnixNext

LEMMA PlaceStart ==
    ASSUME UnixInit PROVE PlaceInv
<1>1. PlaceTypeOK /\ Queued = {} /\ Stored = {}
  <2>1. PlaceTypeOK
    <3>1. crowded \in BOOLEAN
      BY Zenon DEF UnixInit
    <3>2. backlog \in Seq(Plugins)
      BY DEF UnixInit
    <3>3. unix_server_clients \in [ClientSlots -> Plugins \cup {NoPlugin}]
      BY DEF UnixInit
    <3> QED
      BY <3>1, <3>2, <3>3 DEF UnixInit, PlaceTypeOK
  <2>2. Queued = {}
    BY DEF UnixInit, Queued
  <2>3. \A t \in ClientSlots : unix_server_clients[t] = NoPlugin
    BY DEF UnixInit
  <2>4. Stored = {}
    BY <2>3 DEF Stored
  <2> QED
    BY <2>1, <2>2, <2>4
<1>2. OnePlace
  BY <1>1 DEF UnixInit, OnePlace
<1>3. connected = {} /\ connected \ noticed = {}
  BY DEF UnixInit
<1>4. PlacesLast
  BY <1>3, FS_EmptySet DEF PlacesLast
<1> QED
  BY <1>1, <1>2, <1>4 DEF PlaceInv

LEMMA PlacesKept == UnixSpec => []PlaceInv
BY PlaceStart, PlaceNext, PTL DEF UnixSpec

\* For any number of plugins and slots: as long as no more plugins are there at
\* a time than there are slots, a plugin that was accepted keeps its place until
\* it leaves (the accept and recv() = 0 branches of control_main_air.c).
THEOREM PluginsKeepPlace == UnixSpec => []PluginKeepsPlace
<1>1. ASSUME PlaceInv PROVE PluginKeepsPlace
  <2> SUFFICES ASSUME ~crowded, NEW p \in connected \ left
               PROVE  p \in Stored \/ \E i \in 1 .. Len(backlog) : backlog[i] = p
    BY DEF PluginKeepsPlace
  <2>1. p \in connected \ noticed
    BY <1>1 DEF PlaceInv, PlaceTypeOK
  <2>2. p \in Stored \/ p \in Queued
    BY <1>1, <2>1 DEF PlaceInv, PlacesLast
  <2> QED
    BY <2>2 DEF Queued
<1> QED
  BY <1>1, PlacesKept, PTL

-----------------------------------------------------------------------------
(* The stream of a plugin.                                                 *)

\* Where writes stands in its round over the adapters.
LEMMA WritesAt ==
    ASSUME NEW k \in Nat
    PROVE  /\ LoopDone(k) => writes % NumAir = 0
           /\ \A a \in 1 .. NumAir, c \in 1 .. Retransmissions :
                 LoopAt(a, c, k) => writes % NumAir = NumAir - a
<1>1. ASSUME LoopDone(k) PROVE writes % NumAir = 0
  <2>1. writes = k * NumAir + 0 /\ 0 \in 0 .. NumAir - 1
    BY <1>1 DEF LoopDone
  <2> QED
    BY <2>1, RemainderOf
<1>2. ASSUME NEW a \in 1 .. NumAir, NEW c \in 1 .. Retransmissions, LoopAt(a, c, k)
      PROVE  writes % NumAir = NumAir - a
  <2>1. writes = k * NumAir + (NumAir - a) /\ NumAir - a \in 0 .. NumAir - 1
    BY <1>2 DEF LoopAt
  <2> QED
    BY <2>1, RemainderOf
<1> QED
  BY <1>1, <1>2

\* If the loop is done, nothing of the chunk is left to send, and only then.
LEMMA LoopPosition ==
    ASSUME LoopInv, ControlTypeOK
    PROVE  /\ copies_left = 0 => \E k \in Nat : LoopDone(k)
           /\ copies_left > 0 => \E k \in Nat, a \in 1 .. NumAir, c \in 1 .. Retransmissions :
                                   LoopAt(a, c, k)
<1>1. ASSUME NEW a \in 1 .. NumAir, NEW c \in 1 .. Retransmissions, NEW k \in Nat, LoopAt(a, c, k)
      PROVE  copies_left > 0
  <2>1. (a - 1) * Retransmissions \in Nat
    OBVIOUS
  <2> QED
    BY <1>1, <2>1 DEF LoopAt
<1> QED
  BY <1>1 DEF LoopInv, LoopDone

\* A read keeps the loop at its start, or begins a new one.
LEMMA LoopReads ==
    ASSUME LoopInv, ControlTypeOK, NEW n \in 1 .. ReadBuf, ReadSerial(n), writes' = writes
    PROVE  LoopInv' /\ chunked' = chunked /\ writes % NumAir = 0
<1>1. PICK k \in Nat : LoopDone(k)
  BY LoopPosition DEF ReadSerial
<1>2. /\ copies_left' = 0 \/ copies_left' = NumAir * Retransmissions
      /\ chunked' = chunked /\ serial_read_bytes' > 0
  BY DEF ReadSerial, ControlTypeOK
<1>3. CASE copies_left' = 0
  <2>1. LoopDone(k)'
    BY <1>1, <1>3 DEF LoopDone
  <2> QED
    BY <1>1, <1>2, <2>1, WritesAt DEF LoopInv
<1>4. CASE copies_left' = NumAir * Retransmissions
  <2>1. (NumAir - 1) * Retransmissions + Retransmissions = NumAir * Retransmissions
    OBVIOUS
  <2>2. NumAir \in 1 .. NumAir /\ Retransmissions \in 1 .. Retransmissions
    OBVIOUS
  <2>3. writes' = k * NumAir + (NumAir - NumAir)
    BY <1>1 DEF LoopDone
  <2>4. LoopAt(NumAir, Retransmissions, k)'
    BY <1>4, <2>1, <2>2, <2>3 DEF LoopAt
  <2> QED
    BY <1>1, <1>2, <2>2, <2>4, WritesAt DEF LoopInv
<1> QED
  BY <1>2, <1>3, <1>4

\* A copy moves the loop on; a write happens after the last copy of an adapter,
\* and the chunk is done after the last write.
LEMMA LoopSends ==
    ASSUME LoopInv, ControlTypeOK, ChunkCoversSerial, SendCopy,
           writes' = IF WritesNow THEN writes + 1 ELSE writes
    PROVE  /\ LoopInv' /\ serial' = serial
           /\ ~WritesNow => chunked' = chunked
           /\ WritesNow => IF writes' % NumAir = 0 THEN chunked' = serial ELSE chunked' = chunked
<1>1. copies_left > 0 /\ copies_left \in Nat /\ copies_left' = copies_left - 1 /\ serial' = serial
  BY DEF SendCopy, ControlTypeOK
<1>2. PICK k \in Nat, a \in 1 .. NumAir, c \in 1 .. Retransmissions : LoopAt(a, c, k)
  BY <1>1, LoopPosition
<1> DEFINE before == (a - 1) * Retransmissions
<1>3. before \in Nat /\ copies_left = before + c /\ writes = k * NumAir + (NumAir - a)
  BY <1>2 DEF LoopAt
<1>4. (copies_left - 1) % Retransmissions = c - 1
  <2>1. copies_left - 1 = (a - 1) * Retransmissions + (c - 1)
    BY <1>3
  <2>2. a - 1 \in Nat /\ c - 1 \in 0 .. Retransmissions - 1
    OBVIOUS
  <2> QED
    BY <2>1, <2>2, RemainderOf
<1>5. WritesNow <=> c = 1
  BY <1>4 DEF WritesNow
<1>6. copies_left = 1 <=> a = 1 /\ c = 1
  <2>1. a # 1 => before > 0
    <3>1. a # 1 => a - 2 \in Nat
      OBVIOUS
    <3>2. before = (a - 2) * Retransmissions + Retransmissions
      OBVIOUS
    <3>3. a # 1 => (a - 2) * Retransmissions \in Nat
      BY <3>1
    <3> HIDE DEF before
    <3> QED
      BY <3>2, <3>3
  <2>2. a = 1 => before = 0
    OBVIOUS
  <2> HIDE DEF before
  <2> QED
    BY <1>3, <2>1, <2>2
<1> HIDE DEF before
<1>7. CASE c # 1
  <2>1. writes' = writes /\ copies_left # 1 /\ copies_left' = before + (c - 1) /\ c - 1 \in 1 .. Retransmissions
    BY <1>1, <1>3, <1>5, <1>6, <1>7
  <2>2. LoopAt(a, c - 1, k)'
    BY <1>3, <2>1 DEF LoopAt, before
  <2>3. chunked' = chunked /\ serial_read_bytes' = serial_read_bytes
    BY <2>1 DEF SendCopy
  <2>4. LoopInv'
    BY <1>1, <2>1, <2>2, <2>3 DEF LoopInv
  <2> QED
    BY <1>1, <1>5, <1>7, <2>3, <2>4
<1>8. CASE c = 1 /\ a # 1
  <2>1. writes' = writes + 1 /\ copies_left # 1 /\ copies_left' = before
    BY <1>1, <1>3, <1>5, <1>6, <1>8
  <2>2. a - 1 \in 1 .. NumAir /\ Retransmissions \in 1 .. Retransmissions
    BY <1>8
  <2>3. before = ((a - 1) - 1) * Retransmissions + Retransmissions
    BY DEF before
  <2>4. writes' = k * NumAir + (NumAir - (a - 1))
    BY <1>3, <2>1
  <2>5. LoopAt(a - 1, Retransmissions, k)'
    BY <2>1, <2>2, <2>3, <2>4 DEF LoopAt
  <2>6. chunked' = chunked /\ serial_read_bytes' = serial_read_bytes
    BY <2>1 DEF SendCopy
  <2>7. LoopInv'
    BY <1>1, <2>2, <2>5, <2>6 DEF LoopInv
  <2>8. writes' % NumAir # 0
    <3>1. NumAir - (a - 1) \in 0 .. NumAir - 1 /\ NumAir - (a - 1) # 0
      BY <1>8
    <3> QED
      BY <2>4, <3>1, RemainderOf
  <2> QED
    BY <1>1, <1>5, <1>8, <2>6, <2>7, <2>8
<1>9. CASE c = 1 /\ a = 1
  <2>1. writes' = writes + 1 /\ copies_left = 1 /\ copies_left' = 0
    BY <1>1, <1>5, <1>6, <1>9
  <2>2. writes' = (k + 1) * NumAir
    BY <1>3, <1>9, <2>1
  <2>3. LoopDone(k + 1)'
    BY <2>1, <2>2 DEF LoopDone
  <2>4. chunked' = serial
    BY <2>1 DEF SendCopy, ChunkCoversSerial
  <2>5. LoopInv'
    BY <2>1, <2>3 DEF LoopInv
  <2>6. writes' % NumAir = 0
    <3>1. writes' = (k + 1) * NumAir + 0 /\ 0 \in 0 .. NumAir - 1 /\ k + 1 \in Nat
      BY <2>2
    <3> QED
      BY <3>1, RemainderOf
  <2> QED
    BY <1>1, <1>5, <1>9, <2>4, <2>5, <2>6
<1> QED
  BY <1>7, <1>8, <1>9

\* The part of a stream between two ends of rounds.
LEMMA SameRemainder ==
    ASSUME NEW n \in Nat \ {0}, NEW k \in Nat, NEW j \in Nat, NEW r \in 0 .. n - 1,
           NEW l \in Nat, l = k * n + r - j * n
    PROVE  l % n = r
<1>1. k >= j
  <2>1. ASSUME k < j PROVE FALSE
    <3>1. j - k - 1 \in Nat /\ j = k + 1 + (j - k - 1)
      BY <2>1
    <3>2. j * n = k * n + n + (j - k - 1) * n
      BY <3>1
    <3>3. (j - k - 1) * n \in Nat /\ k * n \in Nat
      BY <3>1
    <3> QED
      BY <3>2, <3>3
  <2> QED
    BY <2>1
<1>2. k - j \in Nat
  BY <1>1
<1>3. l = (k - j) * n + r
  BY <1>2
<1> QED
  BY <1>2, <1>3, RemainderOf

\* The chunk that is written holds the bytes since the last one.
LEMMA ChunkEnds ==
    ASSUME ControlTypeOK, ChunkCoversSerial, serial_read_bytes > 0
    PROVE  /\ <<Chunk[1], Chunk[Len(Chunk)]>> = <<chunked + 1, serial>>
           /\ <<chunked + 1, serial>> \in Nat \X Nat
<1>1. serial_read_bytes \in Nat /\ chunked \in Nat /\ serial = chunked + serial_read_bytes
  BY DEF ControlTypeOK, ChunkCoversSerial
<1>2. \A i \in 1 .. serial_read_bytes : i - 1 \in 0 .. serial_read_bytes - 1
  BY <1>1
<1>3. \A i \in 1 .. serial_read_bytes : Chunk[i] = chunked + (i - 1) + 1
  BY <1>2 DEF Chunk, ChunkCoversSerial
<1>4. Len(Chunk) = serial_read_bytes
  BY <1>1 DEF Chunk
<1>5. 1 \in 1 .. serial_read_bytes /\ serial_read_bytes \in 1 .. serial_read_bytes
  BY <1>1
<1> QED
  BY <1>1, <1>3, <1>4, <1>5

\* If the process goes on, every plugin in a slot was sent the chunk once.
LEMMA SentOnce ==
    ASSUME PlaceInv, Reached = ClientSlots, NEW p \in Plugins, got[p] \in Seq(Nat \X Nat),
           NEW e \in Nat \X Nat, e = <<Chunk[1], Chunk[Len(Chunk)]>>
    PROVE  Sent(p) = IF p \in Stored THEN Append(got[p], e) ELSE got[p]
<1> DEFINE at == {t \in Reached : unix_server_clients[t] = p}
<1>1. p # NoPlugin
  OBVIOUS
<1>2. Sent(p) = got[p] \o [i \in 1 .. Cardinality(at) |-> e]
  BY DEF Sent
<1>3. CASE p \in Stored
  <2>1. PICK t \in ClientSlots : unix_server_clients[t] = p
    BY <1>3 DEF Stored
  <2>2. at = {t}
    BY <1>1, <2>1 DEF PlaceInv, OnePlace
  <2>3. Cardinality(at) = 1
    BY <2>2, FS_Singleton
  <2>4. [i \in 1 .. 1 |-> e] = <<e>>
    OBVIOUS
  <2>5. got[p] \o <<e>> = Append(got[p], e)
    OBVIOUS
  <2> QED
    BY <1>2, <1>3, <2>3, <2>4, <2>5
<1>4. CASE p \notin Stored
  <2>1. at = {}
    BY <1>1, <1>4 DEF Stored
  <2>2. Cardinality(at) = 0
    BY <2>1, FS_EmptySet
  <2>3. [i \in 1 .. 0 |-> e] = <<>>
    OBVIOUS
  <2>4. got[p] \o <<>> = got[p]
    OBVIOUS
  <2> QED
    BY <1>2, <1>4, <2>2, <2>3, <2>4
<1> QED
  BY <1>3, <1>4

\* A chunk that continues a stream in order keeps it in order.
LEMMA OrderExtends ==
    ASSUME NEW g \in Seq(Nat \X Nat), InOrder(g), NEW e \in Nat \X Nat,
           g # <<>> => IF Len(g) % NumAir = 0 THEN e[1] = g[Len(g)][2] + 1 ELSE e = g[Len(g)]
    PROVE  /\ InOrder(Append(g, e)) /\ Len(Append(g, e)) = Len(g) + 1 /\ Len(g) \in Nat
           /\ Append(g, e)[Len(Append(g, e))] = e
<1> DEFINE l == Len(g)
           h == Append(g, e)
<1>1. l \in Nat /\ Len(h) = l + 1 /\ h[l + 1] = e /\ \A i \in 1 .. l : h[i] = g[i]
  OBVIOUS
<1>2. l # 0 => g # <<>>
  OBVIOUS
<1>3. l # 0 => IF l % NumAir = 0 THEN e[1] = g[l][2] + 1 ELSE e = g[l]
  BY <1>2
<1>4. \A i \in 1 .. l - 1 : IF i % NumAir = 0 THEN g[i + 1][1] = g[i][2] + 1 ELSE g[i + 1] = g[i]
  BY DEF InOrder
<1> HIDE DEF l, h
<1>5. ASSUME NEW i \in 1 .. l
      PROVE  IF i % NumAir = 0 THEN h[i + 1][1] = h[i][2] + 1 ELSE h[i + 1] = h[i]
  <2>1. CASE i = l
    <3>1. l # 0 /\ h[i + 1] = e /\ h[i] = g[l]
      BY <1>1, <2>1
    <3> QED
      BY <1>3, <2>1, <3>1
  <2>2. CASE i # l
    <3>1. i \in 1 .. l - 1 /\ i + 1 \in 1 .. l
      BY <1>1, <2>2
    <3>2. h[i] = g[i] /\ h[i + 1] = g[i + 1]
      BY <1>1, <3>1
    <3> QED
      BY <1>4, <3>1, <3>2
  <2> QED
    BY <2>1, <2>2
<1>6. Len(h) - 1 = l
  BY <1>1
<1>7. InOrder(h)
  BY <1>5, <1>6 DEF InOrder
<1> QED
  BY <1>1, <1>7 DEF l, h

\* How many chunks a plugin has got, counted in rounds over the adapters.
LEMMA LengthRemainder ==
    ASSUME LoopInv, StreamTypeOK, ControlTypeOK, copies_left > 0,
           NEW p \in Plugins, got[p] \in Seq(Nat \X Nat), Follows(p)
    PROVE  Len(got[p]) % NumAir = writes % NumAir
<1>1. Len(got[p]) \in Nat /\ Len(got[p]) = writes - joined[p]
  BY DEF Follows
<1>2. PICK j \in Nat : joined[p] = j * NumAir
  BY DEF Follows
<1>3. PICK k \in Nat, a \in 1 .. NumAir, c \in 1 .. Retransmissions : LoopAt(a, c, k)
  BY LoopPosition
<1>4. writes = k * NumAir + (NumAir - a) /\ writes % NumAir = NumAir - a
  BY <1>3, WritesAt DEF LoopAt
<1>5. NumAir - a \in 0 .. NumAir - 1
  OBVIOUS
<1>6. Len(got[p]) = k * NumAir + (NumAir - a) - j * NumAir
  BY <1>1, <1>2, <1>4
<1>7. Len(got[p]) % NumAir = NumAir - a
  <2> DEFINE l == Len(got[p])
             r == NumAir - a
  <2>1. l \in Nat /\ r \in 0 .. NumAir - 1 /\ l = k * NumAir + r - j * NumAir /\ NumAir \in Nat \ {0}
    BY <1>1, <1>5, <1>6
  <2> HIDE DEF l, r
  <2>2. l % NumAir = r
    BY <2>1, SameRemainder
  <2> QED
    BY <2>2 DEF l, r
<1> QED
  BY <1>4, <1>7

\* One more chunk keeps a plugin's stream in order.
LEMMA FollowsOn ==
    ASSUME LoopInv, StreamTypeOK, ControlTypeOK, copies_left > 0,
           NEW p \in Plugins, got[p] \in Seq(Nat \X Nat), Follows(p),
           NEW e \in Nat \X Nat, e = <<chunked + 1, serial>>,
           got'[p] = Append(got[p], e), writes' = writes + 1, joined' = joined, serial' = serial,
           IF writes' % NumAir = 0 THEN chunked' = serial ELSE chunked' = chunked
    PROVE  Follows(p)'
<1>1. InOrder(got[p]) /\ e[1] = chunked + 1 /\ e[2] = serial
  BY DEF Follows
<1>2. got[p] # <<>> => IF Len(got[p]) % NumAir = 0 THEN e[1] = got[p][Len(got[p])][2] + 1
                       ELSE e = got[p][Len(got[p])]
  BY <1>1, LengthRemainder DEF Follows, LastSent
<1>3. /\ InOrder(got'[p]) /\ Len(got'[p]) = Len(got[p]) + 1 /\ Len(got[p]) \in Nat
      /\ got'[p][Len(got'[p])] = e
  <2> DEFINE g == got[p]
  <2>1. g \in Seq(Nat \X Nat) /\ InOrder(g) /\ got'[p] = Append(g, e)
    BY <1>1
  <2>2. g # <<>> => IF Len(g) % NumAir = 0 THEN e[1] = g[Len(g)][2] + 1 ELSE e = g[Len(g)]
    BY <1>2
  <2> HIDE DEF g
  <2>3. /\ InOrder(Append(g, e)) /\ Len(Append(g, e)) = Len(g) + 1 /\ Len(g) \in Nat
        /\ Append(g, e)[Len(Append(g, e))] = e
    BY <2>1, <2>2, OrderExtends
  <2> QED
    BY <2>1, <2>3 DEF g
<1>4. LastSent(p)'
  BY <1>1, <1>3 DEF LastSent
<1>5. Len(got'[p]) = writes' - joined'[p]
  <2>1. Len(got[p]) = writes - joined[p] /\ writes \in Nat /\ joined[p] \in Nat
    BY DEF Follows, StreamTypeOK
  <2>2. writes + 1 - joined[p] = (writes - joined[p]) + 1
    BY <2>1
  <2> QED
    BY <1>3, <2>1, <2>2, SMTT(30)
<1>6. \E m \in Nat : joined'[p] = m * NumAir
  BY DEF Follows
<1> QED
  BY <1>3, <1>4, <1>5, <1>6 DEF Follows, InOrder

\* A copy keeps the streams of the plugins, as long as the process goes on.
LEMMA StreamSends ==
    ASSUME PlaceInv, LoopInv, StreamTypeOK, StreamInv, ControlTypeOK, ChunkCoversSerial,
           SendCopyAndServe
    PROVE  StreamInv' /\ StreamTypeOK' /\ LoopInv'
<1>1. /\ running /\ SendCopy /\ copies_left > 0
      /\ UNCHANGED <<unix_server_clients, backlog, connected, left, noticed, crowded, joined>>
  BY DEF SendCopyAndServe, SendCopy, serverVars, pluginVars
<1>2. writes' = IF WritesNow THEN writes + 1 ELSE writes
  BY DEF SendCopyAndServe
<1>3. /\ LoopInv' /\ serial' = serial /\ (~WritesNow => chunked' = chunked)
      /\ WritesNow => IF writes' % NumAir = 0 THEN chunked' = serial ELSE chunked' = chunked
  BY <1>1, <1>2, LoopSends
<1>4. Queued' = Queued /\ Stored' = Stored
  BY <1>1, PlaceSame
<1>5. StreamTypeOK'
  <2>1. running' \in BOOLEAN
    <3>1. CASE WritesNow
      BY <3>1, Zenon DEF SendCopyAndServe
    <3>2. CASE ~WritesNow
      BY <3>2 DEF SendCopyAndServe, StreamTypeOK
    <3> QED
      BY <3>1, <3>2
  <2> QED
    BY <1>1, <1>2, <2>1 DEF StreamTypeOK
<1>6. CASE ~WritesNow
  <2>1. got' = got /\ writes' = writes /\ running' = running /\ chunked' = chunked
    BY <1>3, <1>6 DEF SendCopyAndServe
  <2>2. ASSUME NEW p \in Stored, Follows(p) PROVE Follows(p)'
    BY <1>1, <1>3, <2>1, <2>2 DEF Follows, LastSent, InOrder
  <2>3. StreamInv'
    BY <1>1, <1>4, <2>1, <2>2 DEF StreamInv
  <2> QED
    BY <1>3, <1>5, <2>3
<1>7. CASE WritesNow
  <2>1. /\ got' = [p \in Plugins |-> Sent(p)] /\ writes' = writes + 1
        /\ running' = (Reached = ClientSlots)
    BY <1>7, Zenon DEF SendCopyAndServe
  <2> SUFFICES ASSUME running' PROVE StreamInv'
    BY <1>3, <1>5 DEF StreamInv
  <2>2. Reached = ClientSlots
    BY <2>1, Zenon
  <2>3. got \in [Plugins -> Seq(Nat \X Nat)] /\ \A p \in Stored : Follows(p)
    BY <1>1 DEF StreamInv
  <2> DEFINE e == <<chunked + 1, serial>>
  <2>4. serial_read_bytes > 0
    BY <1>1 DEF LoopInv
  <2>5. e \in Nat \X Nat /\ e = <<Chunk[1], Chunk[Len(Chunk)]>>
    BY <2>4, ChunkEnds
  <2> HIDE DEF e
  <2>6. \A p \in Plugins : got'[p] = IF p \in Stored THEN Append(got[p], e) ELSE got[p]
    <3>1. \A p \in Plugins : got[p] \in Seq(Nat \X Nat)
      BY <2>3
    <3>2. \A p \in Plugins : Sent(p) = IF p \in Stored THEN Append(got[p], e) ELSE got[p]
      BY <2>2, <2>5, <3>1, SentOnce
    <3> QED
      BY <2>1, <3>2
  <2>7. got' \in [Plugins -> Seq(Nat \X Nat)]
    <3>1. \A p \in Plugins : got[p] \in Seq(Nat \X Nat) /\ Append(got[p], e) \in Seq(Nat \X Nat)
      BY <2>3, <2>5
    <3>2. \A p \in Plugins : got'[p] \in Seq(Nat \X Nat)
      BY <2>6, <3>1
    <3> QED
      BY <2>1, <3>2
  <2>8. Stored \subseteq Plugins \cap connected /\ Queued \cap Stored = {}
    BY DEF PlaceInv, PlaceTypeOK, OnePlace
  <2>9. ASSUME NEW p \in Stored PROVE Follows(p)'
    <3>1. p \in Plugins /\ got[p] \in Seq(Nat \X Nat) /\ Follows(p) /\ got'[p] = Append(got[p], e)
      BY <2>3, <2>6, <2>8
    <3>2. e = <<chunked + 1, serial>>
      BY DEF e
    <3> QED
      BY <1>1, <1>3, <1>7, <2>1, <2>5, <3>1, <3>2, FollowsOn
  <2>10. \A p \in Plugins \ connected : got'[p] = <<>>
    BY <1>1, <2>6, <2>8 DEF StreamInv
  <2>11. \A p \in Queued : got'[p] = <<>>
    <3>1. Queued \subseteq Plugins
      BY DEF Queued
    <3> QED
      BY <1>1, <2>6, <2>8, <3>1 DEF StreamInv
  <2> QED
    BY <1>1, <1>4, <2>7, <2>9, <2>10, <2>11 DEF StreamInv
<1> QED
  BY <1>6, <1>7

\* What the streams, the loop and the chunk are together.
ServedInv ==
    /\ PlaceInv /\ LoopInv /\ StreamTypeOK /\ StreamInv
    /\ ControlTypeOK /\ ChunkCoversSerial

\* A plugin's stream is about these variables only.
LEMMA FollowsSame ==
    ASSUME NEW p, Follows(p), got' = got, writes' = writes, joined'[p] = joined[p],
           chunked' = chunked, serial' = serial \/ writes % NumAir = 0
    PROVE  Follows(p)'
<1>1. LastSent(p)'
  BY DEF Follows, LastSent
<1>2. InOrder(got[p])' /\ Len(got'[p]) = writes' - joined'[p] /\ \E k \in Nat : joined'[p] = k * NumAir
  BY DEF Follows, InOrder
<1> QED
  BY <1>1, <1>2 DEF Follows

\* A step that touches neither the loop nor the chunk.
LEMMA ControlSame ==
    ASSUME LoopInv, ControlTypeOK, ChunkCoversSerial, UNCHANGED <<controlVars, writes>>
    PROVE  LoopInv' /\ ControlTypeOK' /\ ChunkCoversSerial'
<1>1. UNCHANGED <<transparent_buffer, serial_read_bytes, copies_left, proxy_seq_number,
                  serial, chunked, frames>>
  BY DEF controlVars
<1>2. LoopInv'
  BY <1>1 DEF LoopInv, LoopDone, LoopAt
<1>3. ControlTypeOK' /\ ChunkCoversSerial'
  BY <1>1 DEF ControlTypeOK, ChunkCoversSerial, BufferSize
<1> QED
  BY <1>2, <1>3

\* A step that sends the plugins nothing keeps their streams, if nobody new
\* gets a slot and who comes to the backlog was sent nothing.
LEMMA StreamSame ==
    ASSUME StreamInv, StreamTypeOK,
           UNCHANGED <<running, got, writes, joined, chunked, serial>>,
           connected \subseteq connected', Stored' \subseteq Stored,
           \A p \in Queued' : p \in Queued \/ p \in Plugins \ connected
    PROVE  StreamInv' /\ StreamTypeOK'
<1>1. StreamTypeOK'
  BY DEF StreamTypeOK
<1>2. ASSUME running PROVE \A p \in Stored' : Follows(p)'
  BY <1>2, FollowsSame DEF StreamInv
<1>3. ASSUME running PROVE /\ got' \in [Plugins -> Seq(Nat \X Nat)]
                           /\ \A p \in Plugins \ connected' : got'[p] = <<>>
                           /\ \A p \in Queued' : got'[p] = <<>>
  BY <1>3 DEF StreamInv
<1>4. StreamInv'
  BY <1>2, <1>3 DEF StreamInv
<1> QED
  BY <1>1, <1>4

LEMMA StreamAccept ==
    ASSUME PlaceInv, LoopInv, StreamTypeOK, StreamInv, ControlTypeOK, AcceptPlugin
    PROVE  StreamInv' /\ StreamTypeOK'
<1>1. PICK p \in Queued, t \in ClientSlots :
              /\ p \notin Stored /\ p # NoPlugin /\ p = Head(backlog)
              /\ unix_server_clients' = [unix_server_clients EXCEPT ![t] = p]
              /\ Stored' \subseteq Stored \cup {p} /\ p \in Stored'
              /\ Queued' \subseteq Queued \ {p} /\ Queued \subseteq Queued' \cup {p}
              /\ ~crowded => Stored \subseteq Stored'
  BY AcceptOutcome
<1>2. /\ running /\ copies_left = 0 /\ joined' = [joined EXCEPT ![p] = writes]
      /\ UNCHANGED <<controlVars, running, connected, got, writes>>
  BY <1>1 DEF AcceptPlugin
<1>3. chunked' = chunked /\ serial' = serial
  BY <1>2 DEF controlVars
<1>4. p \in Plugins /\ Stored \subseteq Plugins
  BY DEF Queued, PlaceInv, PlaceTypeOK, OnePlace
<1>5. StreamTypeOK' /\ joined'[p] = writes /\ \A q \in Stored : joined'[q] = joined[q]
  BY <1>1, <1>2, <1>4 DEF StreamTypeOK
<1>6. got[p] = <<>>
  BY <1>2 DEF StreamInv
<1>7. PICK k \in Nat : LoopDone(k)
  BY <1>2, LoopPosition
<1>8. Follows(p)'
  <2>1. Len(got'[p]) = writes' - joined'[p]
    BY <1>2, <1>5, <1>6 DEF StreamTypeOK
  <2>2. \E m \in Nat : joined'[p] = m * NumAir
    BY <1>5, <1>7 DEF LoopDone
  <2>3. InOrder(got[p])' /\ LastSent(p)'
    BY <1>2, <1>6 DEF InOrder, LastSent
  <2> QED
    BY <2>1, <2>2, <2>3 DEF Follows
<1>9. \A q \in Stored : Follows(q)'
  BY <1>2, <1>3, <1>5, FollowsSame DEF StreamInv
<1>10. StreamInv'
  <2>1. \A q \in Stored' : Follows(q)'
    BY <1>1, <1>8, <1>9
  <2>2. /\ got' \in [Plugins -> Seq(Nat \X Nat)]
        /\ \A q \in Plugins \ connected' : got'[q] = <<>>
        /\ \A q \in Queued' : got'[q] = <<>>
    BY <1>1, <1>2 DEF StreamInv
  <2> QED
    BY <2>1, <2>2 DEF StreamInv
<1> QED
  BY <1>5, <1>10

LEMMA StreamReads ==
    ASSUME ServedInv, NEW n \in 1 .. ReadBuf, ReadSerialPort(n)
    PROVE  ServedInv'
<1>1. /\ ReadSerial(n)
      /\ UNCHANGED <<unix_server_clients, backlog, connected, left, noticed, crowded,
                     running, got, writes, joined>>
  BY DEF ReadSerialPort, serverVars, pluginVars
<1>2. ControlTypeOK' /\ ChunkCoversSerial'
  BY <1>1, ReadSerialStep DEF ServedInv
<1>3. LoopInv' /\ chunked' = chunked /\ writes % NumAir = 0
  BY <1>1, LoopReads DEF ServedInv
<1>4. PlaceInv' /\ Queued' = Queued /\ Stored' = Stored
  BY <1>1, PlaceSame DEF ServedInv
<1>5. StreamTypeOK' /\ StreamInv
  BY <1>1 DEF ServedInv, StreamTypeOK
<1>6. ASSUME running PROVE \A p \in Stored' : Follows(p)'
  BY <1>1, <1>3, <1>4, <1>5, <1>6, FollowsSame DEF StreamInv
<1>7. StreamInv'
  BY <1>1, <1>4, <1>5, <1>6 DEF StreamInv
<1> QED
  BY <1>2, <1>3, <1>4, <1>5, <1>7 DEF ServedInv

LEMMA ServedNext ==
    ASSUME ServedInv, [UnixNext]_unixVars PROVE ServedInv'
<1> USE DEF ServedInv
<1>1. ASSUME NEW p \in Plugins, PluginConnects(p) PROVE ServedInv'
  <2>1. /\ p \notin connected /\ connected' = connected \cup {p}
        /\ UNCHANGED <<controlVars, running, got, writes, joined>>
    BY <1>1 DEF PluginConnects, serverVars
  <2>2. chunked' = chunked /\ serial' = serial
    BY <2>1 DEF controlVars
  <2>3. PlaceInv' /\ Queued' = Queued \cup {p} /\ Stored' = Stored
    BY <1>1, PlaceConnects
  <2>4. StreamInv' /\ StreamTypeOK'
    BY <2>1, <2>2, <2>3, StreamSame
  <2> QED
    BY <2>1, <2>3, <2>4, ControlSame
<1>2. ASSUME NEW p \in Plugins, PluginLeaves(p) PROVE ServedInv'
  <2>1. UNCHANGED <<controlVars, connected, running, got, writes, joined>>
    BY <1>2 DEF PluginLeaves, serverVars
  <2>2. chunked' = chunked /\ serial' = serial
    BY <2>1 DEF controlVars
  <2>3. PlaceInv' /\ Queued' = Queued /\ Stored' = Stored
    BY <1>2, PlaceLeaves
  <2>4. StreamInv' /\ StreamTypeOK'
    BY <2>1, <2>2, <2>3, StreamSame
  <2> QED
    BY <2>1, <2>3, <2>4, ControlSame
<1>3. ASSUME UNCHANGED <<controlVars, unix_server_clients, backlog, connected, left, noticed,
                         running, got, writes, joined, crowded>>
      PROVE  ServedInv'
  <2>1. chunked' = chunked /\ serial' = serial
    BY <1>3 DEF controlVars
  <2>2. PlaceInv' /\ Queued' = Queued /\ Stored' = Stored
    BY <1>3, PlaceSame
  <2>3. StreamInv' /\ StreamTypeOK'
    BY <1>3, <2>1, <2>2, StreamSame
  <2> QED
    BY <1>3, <2>2, <2>3, ControlSame
<1>4. ASSUME NEW p \in Plugins, PluginSends(p) PROVE ServedInv'
  BY <1>3, <1>4 DEF PluginSends, serverVars
<1>5. ASSUME NEW t \in ClientSlots, NEW n \in 1 .. MaxCommands, ServeCommands(t, n) PROVE ServedInv'
  BY <1>3, <1>5 DEF ServeCommands
<1>6. ASSUME UNCHANGED unixVars PROVE ServedInv'
  BY <1>3, <1>6 DEF unixVars
<1>7. ASSUME AcceptPlugin PROVE ServedInv'
  <2>1. UNCHANGED <<controlVars, writes>>
    BY <1>7 DEF AcceptPlugin
  <2> QED
    BY <1>7, <2>1, PlaceAccept, StreamAccept, ControlSame
<1>8. ASSUME NEW t \in ClientSlots, ServeGone(t) PROVE ServedInv'
  <2>1. UNCHANGED <<controlVars, connected, running, got, writes, joined>>
    BY <1>8 DEF ServeGone
  <2>2. chunked' = chunked /\ serial' = serial
    BY <2>1 DEF controlVars
  <2>3. PlaceInv' /\ Queued' = Queued /\ Stored' \subseteq Stored
    BY <1>8, PlaceGone
  <2>4. StreamInv' /\ StreamTypeOK'
    BY <2>1, <2>2, <2>3, StreamSame
  <2> QED
    BY <2>1, <2>3, <2>4, ControlSame
<1>9. ASSUME NEW n \in 1 .. ReadBuf, ReadSerialPort(n) PROVE ServedInv'
  BY <1>9, StreamReads
<1>10. ASSUME SendCopyAndServe PROVE ServedInv'
  <2>1. SendCopy /\ UNCHANGED <<unix_server_clients, backlog, connected, left, noticed, crowded>>
    BY <1>10 DEF SendCopyAndServe, serverVars, pluginVars
  <2>2. PlaceInv' /\ ControlTypeOK' /\ ChunkCoversSerial'
    BY <2>1, PlaceSame, SendCopyStep
  <2> QED
    BY <1>10, <2>2, StreamSends
<1> QED
  BY <1>1, <1>2, <1>4, <1>5, <1>6, <1>7, <1>8, <1>9, <1>10 DEF UnixNext

LEMMA ServedStart ==
    ASSUME UnixInit PROVE ServedInv
<1>1. PlaceInv /\ ControlTypeOK /\ ChunkCoversSerial
  BY PlaceStart, ControlStart DEF UnixInit
<1>2. copies_left = 0 /\ writes = 0 /\ 0 \in Nat /\ 0 = 0 * NumAir
  BY DEF UnixInit, ControlInit
<1>3. LoopInv
  BY <1>2 DEF LoopInv, LoopDone
<1>4. StreamTypeOK
  <2>1. running \in BOOLEAN
    BY Zenon DEF UnixInit
  <2> QED
    BY <1>2, <2>1 DEF StreamTypeOK, UnixInit
<1>5. Stored = {} /\ Queued \subseteq Plugins
  <2>1. \A t \in ClientSlots : unix_server_clients[t] = NoPlugin
    BY DEF UnixInit
  <2> QED
    BY <2>1 DEF Stored, Queued
<1>6. got = [p \in Plugins |-> <<>>]
  BY DEF UnixInit
<1>7. StreamInv
  <2>1. <<>> \in Seq(Nat \X Nat)
    OBVIOUS
  <2> QED
    BY <1>5, <1>6, <2>1 DEF StreamInv
<1> QED
  BY <1>1, <1>3, <1>4, <1>7 DEF ServedInv

\* For any number of plugins, slots, adapters and copies, however read() cuts the
\* serial stream and whoever comes and leaves: a plugin that has a slot gets the
\* bytes of the flight controller from the chunk after its accept() on, without
\* a gap, every chunk once for every adapter (write_to_unix in the loop over the
\* adapters of control_main_air.c).
THEOREM PluginsGetStream == UnixSpec => []PluginGetsStream
<1>1. ASSUME ServedInv PROVE PluginGetsStream
  <2> SUFFICES ASSUME running, NEW p \in Stored \ left
               PROVE  /\ Len(got[p]) = writes - joined[p]
                      /\ joined[p] % NumAir = 0
                      /\ \A i \in 1 .. Len(got[p]) - 1 :
                            IF i % NumAir = 0 THEN got[p][i + 1][1] = got[p][i][2] + 1
                                              ELSE got[p][i + 1] = got[p][i]
                      /\ got[p] # <<>> =>
                            got[p][Len(got[p])][2] = IF writes % NumAir = 0 THEN chunked ELSE serial
    BY DEF PluginGetsStream
  <2>1. Follows(p)
    BY <1>1 DEF ServedInv, StreamInv
  <2>2. joined[p] % NumAir = 0
    <3>1. PICK k \in Nat : joined[p] = k * NumAir
      BY <2>1 DEF Follows
    <3>2. joined[p] = k * NumAir + 0 /\ 0 \in 0 .. NumAir - 1
      BY <3>1
    <3> QED
      BY <3>2, RemainderOf
  <2>3. got[p] # <<>> =>
            got[p][Len(got[p])][2] = IF writes % NumAir = 0 THEN chunked ELSE serial
    BY <2>1 DEF Follows, LastSent
  <2> QED
    BY <2>1, <2>2, <2>3 DEF Follows, InOrder
<1> QED
  BY <1>1, ServedStart, ServedNext, PTL DEF UnixSpec
=============================================================================
