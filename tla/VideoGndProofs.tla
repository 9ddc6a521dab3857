--------------------------- MODULE VideoGndProofs ---------------------------
(***************************************************************************)
(* The receiver of the video link, for every block layout.  First one      *)
(* block: what the selection loop of process_video_payload hands to        *)
(* fec_decode and what is published, for every way its packets can arrive. *)
(* Then what one call of process_video_payload does: it keeps the types,   *)
(* the order of the output and the claim that a block buffer holds packets *)
(* of its own block only.                                                  *)
(*                                                                         *)
(* The selection loop is a recursive function; the library's induction     *)
(* theorems have operators as parameters, so the module begins with forms  *)
(* of them that speak of sets.                                             *)
(***************************************************************************)
EXTENDS VideoGnd, MCVideoBlock, FiniteSetTheorems, TLAPS

-----------------------------------------------------------------------------
(* Induction and iteration.                                                *)

\* Every set of natural numbers has a least one.
LEMMA NatLeast ==
    ASSUME NEW T, T \subseteq Nat, T # {}
    PROVE  \E n \in T : \A m \in T : n <= m
<1>1. PICK n \in T : \A m \in T : ~(<<m, n>> \in OpToRel(<, Nat))
  BY NatLessThanWellFounded, WFMin
<1>2. \A m \in T : ~(m < n)
  BY <1>1 DEF OpToRel
<1> QED
  BY <1>2

\* Induction over the natural numbers.
LEMMA NatInductionSet ==
    ASSUME NEW P, 0 \in P, \A n \in Nat : n \in P => n + 1 \in P
    PROVE  \A n \in Nat : n \in P
<1> DEFINE bad == {n \in Nat : n \notin P}
<1> SUFFICES ASSUME bad # {} PROVE FALSE
  OBVIOUS
<1>1. PICK n \in bad : \A m \in bad : n <= m
  BY NatLeast
<1>2. n \in Nat /\ n # 0
  BY <1>1
<1>3. n - 1 \in Nat /\ n - 1 \notin bad /\ (n - 1) + 1 = n
  BY <1>1, <1>2
<1> QED
  BY <1>1, <1>3

\* The values of the first k iterations.
FirstValues(S, init, step, k, g) ==
    /\ g \in [0 .. k -> S]
    /\ g[0] = init
    /\ \A i \in 1 .. k : g[i] = step[g[i - 1]]

\* There are such values for every k, and only one choice of them.
LEMMA FirstValuesExist ==
    ASSUME NEW S, NEW init \in S, NEW step \in [S -> S]
    PROVE  \A k \in Nat : \E g : FirstValues(S, init, step, k, g)
<1> DEFINE P == {k \in Nat : \E g : FirstValues(S, init, step, k, g)}
<1>1. 0 \in P
  <2>1. FirstValues(S, init, step, 0, [i \in 0 .. 0 |-> init])
    BY DEF FirstValues
  <2> QED
    BY <2>1
<1>2. ASSUME NEW k \in Nat, k \in P PROVE k + 1 \in P
  <2>1. PICK g : FirstValues(S, init, step, k, g)
    BY <1>2
  <2> DEFINE h == [i \in 0 .. k + 1 |-> IF i = k + 1 THEN step[g[k]] ELSE g[i]]
  <2>2. g[k] \in S /\ step[g[k]] \in S
    BY <2>1 DEF FirstValues
  <2>3. \A i \in 0 .. k + 1 : i # k + 1 => i \in 0 .. k /\ g[i] \in S
    BY <2>1 DEF FirstValues
  <2>4. h \in [0 .. k + 1 -> S]
    BY <2>2, <2>3
  <2>5. h[0] = init
    BY <2>1 DEF FirstValues
  <2>6. ASSUME NEW i \in 1 .. k + 1 PROVE h[i] = step[h[i - 1]]
    <3>1. i - 1 \in 0 .. k /\ h[i - 1] = g[i - 1]
      OBVIOUS
    <3>2. CASE i = k + 1
      BY <3>1, <3>2
    <3>3. CASE i # k + 1
      <4>1. i \in 1 .. k /\ h[i] = g[i]
        BY <3>3
      <4> QED
        BY <2>1, <3>1, <4>1 DEF FirstValues
    <3> QED
      BY <3>2, <3>3
  <2>7. FirstValues(S, init, step, k + 1, h)
    <3> HIDE DEF h
    <3> QED
      BY <2>4, <2>5, <2>6 DEF FirstValues
  <2> QED
    BY <2>7
<1> HIDE DEF P
<1>3. \A k \in Nat : k \in P
  BY <1>1, <1>2, NatInductionSet
<1> QED
  BY <1>3 DEF P

LEMMA FirstValuesAgree ==
    ASSUME NEW S, NEW init \in S, NEW step \in [S -> S],
           NEW k \in Nat, NEW l \in Nat, k <= l,
           NEW g, FirstValues(S, init, step, k, g),
           NEW h, FirstValues(S, init, step, l, h)
    PROVE  \A i \in 0 .. k : g[i] = h[i]
<1> DEFINE P == {i \in Nat : i <= k => g[i] = h[i]}
<1>1. 0 \in P
  BY DEF FirstValues
<1>2. ASSUME NEW i \in Nat, i \in P PROVE i + 1 \in P
  <2> SUFFICES ASSUME i + 1 <= k PROVE g[i + 1] = h[i + 1]
    OBVIOUS
  <2>1. i + 1 \in 1 .. k /\ i + 1 \in 1 .. l /\ (i + 1) - 1 = i /\ g[i] = h[i]
    BY <1>2
  <2> QED
    BY <2>1 DEF FirstValues
<1> HIDE DEF P
<1>3. \A i \in Nat : i \in P
  BY <1>1, <1>2, NatInductionSet
<1> QED
  BY <1>3 DEF P

\* A function defined by iteration exists.
LEMMA IterationExists ==
    ASSUME NEW S, NEW init \in S, NEW step \in [S -> S]
    PROVE  \E f \in [Nat -> S] :
              f = [n \in Nat |-> IF n = 0 THEN init ELSE step[f[n - 1]]]
<1> DEFINE val(k) == CHOOSE g : FirstValues(S, init, step, k, g)
           f == [n \in Nat |-> val(n)[n]]
<1>1. \A k \in Nat : FirstValues(S, init, step, k, val(k))
  BY FirstValuesExist
<1> HIDE DEF val
<1>2. f \in [Nat -> S]
  BY <1>1 DEF FirstValues
<1>3. f[0] = init
  BY <1>1 DEF FirstValues
<1>4. ASSUME NEW n \in Nat, n # 0 PROVE f[n] = step[f[n - 1]]
  <2>1. n - 1 \in Nat /\ n - 1 <= n /\ n - 1 \in 0 .. n - 1 /\ n \in 1 .. n
    BY <1>4
  <2>2. val(n)[n] = step[val(n)[n - 1]]
    BY <1>1, <2>1 DEF FirstValues
  <2>3. val(n - 1)[n - 1] = val(n)[n - 1]
    BY <1>1, <2>1, FirstValuesAgree
  <2> QED
    BY <2>1, <2>2, <2>3
<1> HIDE DEF f
<1>5. f = [n \in Nat |-> IF n = 0 THEN init ELSE step[f[n - 1]]]
  BY <1>2, <1>3, <1>4
<1> QED
  BY <1>2, <1>5
-----------------------------------------------------------------------------
(* The layout of a block.                                                  *)

\* DATA and FEC packets have places inside the block.
LEMMA SlotRange ==
    /\ \A d \in DataIdx : DataSlot(d) \in Slots
    /\ \A f \in FecIdx : FecSlot(f) \in Slots
BY BlockAssumption DEF DataIdx, FecIdx, DataSlot, FecSlot, Slots, BlockSize

\* No two packets share a place.
LEMMA SlotsDiffer ==
    /\ \A d, e \in DataIdx : DataSlot(d) = DataSlot(e) => d = e
    /\ \A d \in DataIdx, f \in FecIdx : DataSlot(d) # FecSlot(f)
BY BlockAssumption DEF DataIdx, FecIdx, DataSlot, FecSlot

\* Index sets and their parts are finite.
LEMMA IndexFinite ==
    /\ IsFiniteSet(Slots) /\ IsFiniteSet(DataIdx) /\ IsFiniteSet(FecIdx)
    /\ \A T : T \subseteq Slots \/ T \subseteq DataIdx \/ T \subseteq FecIdx =>
          IsFiniteSet(T) /\ Cardinality(T) \in Nat /\ (Cardinality(T) = 0 <=> T = {})
<1>1. IsFiniteSet(Slots) /\ IsFiniteSet(DataIdx) /\ IsFiniteSet(FecIdx)
  BY FS_Interval, BlockAssumption DEF Slots, DataIdx, FecIdx, BlockSize
<1> QED
  BY <1>1, FS_Subset, FS_CardinalityType, FS_EmptySet

-----------------------------------------------------------------------------
(* The selection loop.                                                     *)

LoopStates == [di : 0 .. NumData, fi : 0 .. NumFec, missing : Int, good : Int,
               pairs : SUBSET (DataIdx \X FecIdx)]

MissingFrom(ps, i) == {d \in DataIdx : d >= i /\ Missing(ps[DataSlot(d)])}
CorruptFrom(ps, i) == {d \in DataIdx : d >= i /\ Corrupt(ps[DataSlot(d)])}
GoodFecsFrom(ps, i) == {f \in FecIdx : f >= i /\ Good(ps[FecSlot(f)])}

\* The flags of the packet buffers are set or not.
Flagged(ps) == \A p \in Slots : ps[p].valid \in BOOLEAN /\ ps[p].crc \in BOOLEAN

\* A pair joins a DATA packet that is not intact with a FEC packet that came.
PairsFit(ps, s) ==
    \A q \in s.pairs : /\ ~Good(ps[DataSlot(q[1])])
                       /\ ~Missing(ps[FecSlot(q[2])])

\* The counters are those of the packets not looked at yet, and no missing
\* DATA packet was passed over.
CountsRight(ps, s) ==
    /\ s.missing = Cardinality(MissingFrom(ps, s.di))
    /\ s.good = Cardinality(GoodFecsFrom(ps, s.fi))
    /\ \A d \in DataIdx : d < s.di /\ Missing(ps[DataSlot(d)]) => d \in ErasedBy(s.pairs)

\* With enough intact FEC packets there stay enough for the missing DATA
\* packets; if no FEC packet came damaged, there stay enough for all.
EnoughLeft(ps, s) == ~ReconstructionFailed(ps) => s.missing <= s.good

NoCorruptFecs(ps) == \A f \in FecIdx : ~Corrupt(ps[FecSlot(f)])

EnoughForAll(ps, s) ==
    ~ReconstructionFailed(ps) /\ NoCorruptFecs(ps) =>
        /\ s.missing + Cardinality(CorruptFrom(ps, s.di)) <= s.good
        /\ \A d \in DataIdx : d < s.di /\ ~Good(ps[DataSlot(d)]) => d \in ErasedBy(s.pairs)

AtEnd(s) == s.di = NumData \/ s.fi = NumFec

LoopInv(ps, s) ==
    /\ s \in LoopStates
    /\ PairsFit(ps, s)
    /\ CountsRight(ps, s)
    /\ EnoughLeft(ps, s)
    /\ EnoughForAll(ps, s)

\* Going on to the next DATA packet takes one from the count of its kind.
LEMMA CountData ==
    ASSUME NEW ps, NEW i \in DataIdx
    PROVE  /\ Cardinality(MissingFrom(ps, i + 1)) =
                 IF Missing(ps[DataSlot(i)]) THEN Cardinality(MissingFrom(ps, i)) - 1
                                             ELSE Cardinality(MissingFrom(ps, i))
           /\ Cardinality(CorruptFrom(ps, i + 1)) =
                 IF Corrupt(ps[DataSlot(i)]) THEN Cardinality(CorruptFrom(ps, i)) - 1
                                             ELSE Cardinality(CorruptFrom(ps, i))
<1>1. /\ MissingFrom(ps, i) \subseteq DataIdx /\ CorruptFrom(ps, i) \subseteq DataIdx
      /\ IsFiniteSet(MissingFrom(ps, i)) /\ IsFiniteSet(CorruptFrom(ps, i))
  BY IndexFinite DEF MissingFrom, CorruptFrom
<1>2. /\ MissingFrom(ps, i + 1) = MissingFrom(ps, i) \ {i}
      /\ CorruptFrom(ps, i + 1) = CorruptFrom(ps, i) \ {i}
  BY DEF MissingFrom, CorruptFrom, DataIdx
<1>3. /\ i \in MissingFrom(ps, i) <=> Missing(ps[DataSlot(i)])
      /\ i \in CorruptFrom(ps, i) <=> Corrupt(ps[DataSlot(i)])
  BY DEF MissingFrom, CorruptFrom, DataIdx
<1>4. /\ Cardinality(MissingFrom(ps, i) \ {i}) =
            IF i \in MissingFrom(ps, i) THEN Cardinality(MissingFrom(ps, i)) - 1
                                        ELSE Cardinality(MissingFrom(ps, i))
      /\ Cardinality(CorruptFrom(ps, i) \ {i}) =
            IF i \in CorruptFrom(ps, i) THEN Cardinality(CorruptFrom(ps, i)) - 1
                                        ELSE Cardinality(CorruptFrom(ps, i))
  BY <1>1, FS_RemoveElement
<1> QED
  BY <1>2, <1>3, <1>4

\* The same for the FEC packets.
LEMMA CountFecs ==
    ASSUME NEW ps, NEW i \in FecIdx
    PROVE  Cardinality(GoodFecsFrom(ps, i + 1)) =
              IF Good(ps[FecSlot(i)]) THEN Cardinality(GoodFecsFrom(ps, i)) - 1
                                      ELSE Cardinality(GoodFecsFrom(ps, i))
<1>1. GoodFecsFrom(ps, i) \subseteq FecIdx /\ IsFiniteSet(GoodFecsFrom(ps, i))
  BY IndexFinite DEF GoodFecsFrom
<1>2. GoodFecsFrom(ps, i + 1) = GoodFecsFrom(ps, i) \ {i}
  BY DEF GoodFecsFrom, FecIdx
<1>3. i \in GoodFecsFrom(ps, i) <=> Good(ps[FecSlot(i)])
  BY DEF GoodFecsFrom, FecIdx
<1> QED
  BY <1>1, <1>2, <1>3, FS_RemoveElement

\* What is left to look at is counted by natural numbers.
LEMMA CountsNat ==
    ASSUME NEW ps, NEW i
    PROVE  /\ Cardinality(MissingFrom(ps, i)) \in Nat
           /\ Cardinality(CorruptFrom(ps, i)) \in Nat
           /\ Cardinality(GoodFecsFrom(ps, i)) \in Nat
           /\ Cardinality(GoodFecsFrom(ps, i)) = 0 <=> GoodFecsFrom(ps, i) = {}
           /\ Cardinality(MissingFrom(ps, i)) = 0 <=> MissingFrom(ps, i) = {}
           /\ Cardinality(CorruptFrom(ps, i)) = 0 <=> CorruptFrom(ps, i) = {}
<1>1. /\ MissingFrom(ps, i) \subseteq DataIdx /\ CorruptFrom(ps, i) \subseteq DataIdx
      /\ GoodFecsFrom(ps, i) \subseteq FecIdx
  BY DEF MissingFrom, CorruptFrom, GoodFecsFrom
<1> QED
  BY <1>1, IndexFinite

\* Before the loop.
LEMMA LoopStart ==
    ASSUME NEW ps, Flagged(ps)
    PROVE  LoopInv(ps, SelectInit(ps))
<1> DEFINE s == SelectInit(ps)
<1>1. /\ s.di = 0 /\ s.fi = 0 /\ s.pairs = {}
      /\ s.missing = DatasMissing(ps) /\ s.good = GoodFecs(ps)
  BY DEF SelectInit
<1>2. /\ MissingFrom(ps, 0) = {d \in DataIdx : Missing(ps[DataSlot(d)])}
      /\ CorruptFrom(ps, 0) = {d \in DataIdx : Corrupt(ps[DataSlot(d)])}
      /\ GoodFecsFrom(ps, 0) = {f \in FecIdx : Good(ps[FecSlot(f)])}
  BY DEF MissingFrom, CorruptFrom, GoodFecsFrom, DataIdx, FecIdx
<1>3. /\ DatasMissing(ps) = Cardinality(MissingFrom(ps, 0))
      /\ DatasCorrupt(ps) = Cardinality(CorruptFrom(ps, 0))
      /\ GoodFecs(ps) = Cardinality(GoodFecsFrom(ps, 0))
  BY <1>2 DEF DatasMissing, DatasCorrupt, GoodFecs
<1>4. s.missing \in Nat /\ s.good \in Nat /\ DatasCorrupt(ps) \in Nat
  BY <1>1, <1>3, CountsNat
<1>5. s \in LoopStates
  BY <1>1, <1>4, BlockAssumption DEF LoopStates, SelectInit
<1>6. ~\E d \in DataIdx : d < 0
  BY DEF DataIdx
<1>7. PairsFit(ps, s) /\ CountsRight(ps, s)
  BY <1>1, <1>3, <1>6 DEF PairsFit, CountsRight
<1>8. EnoughLeft(ps, s) /\ EnoughForAll(ps, s)
  BY <1>1, <1>3, <1>4, <1>6 DEF EnoughLeft, EnoughForAll, ReconstructionFailed
<1> QED
  BY <1>5, <1>7, <1>8 DEF LoopInv

\* The flags of a packet the loop looks at.
LEMMA FlagCases ==
    ASSUME NEW ps, Flagged(ps), NEW p \in Slots
    PROVE  /\ Good(ps[p]) <=> ~Missing(ps[p]) /\ ~Corrupt(ps[p])
           /\ ~(Missing(ps[p]) /\ Corrupt(ps[p]))
           /\ ~Missing(ps[p]) => (Good(ps[p]) <=> ps[p].crc)
BY DEF Flagged, Good, Missing, Corrupt

\* A further pair erases one further DATA packet.
LEMMA ErasedWith ==
    ASSUME NEW pairs, NEW d, NEW f
    PROVE  ErasedBy(pairs \cup {<<d, f>>}) = ErasedBy(pairs) \cup {d}
<1> DEFINE new == <<d, f>>
<1>1. new[1] = d
  OBVIOUS
<1> HIDE DEF new
<1>2. ErasedBy(pairs \cup {new}) = ErasedBy(pairs) \cup {new[1]}
  BY Zenon DEF ErasedBy
<1> QED
  BY <1>1, <1>2 DEF new

\* One iteration keeps the invariant, and goes on unless the loop is over.
LEMMA LoopStep ==
    ASSUME NEW ps, Flagged(ps), NEW s, LoopInv(ps, s)
    PROVE  /\ LoopInv(ps, SelectStep(ps, s))
           /\ AtEnd(s) => SelectStep(ps, s) = s
           /\ ~AtEnd(s) => SelectStep(ps, s).di + SelectStep(ps, s).fi >= s.di + s.fi + 1
<1> DEFINE t == SelectStep(ps, s)
           data == ps[DataSlot(s.di)]
           fec  == ps[FecSlot(s.fi)]
<1>1. /\ s \in LoopStates /\ s.di \in 0 .. NumData /\ s.fi \in 0 .. NumFec
      /\ s.missing \in Int /\ s.good \in Int /\ s.pairs \subseteq DataIdx \X FecIdx
      /\ NumData \in Nat /\ NumFec \in Nat
  BY BlockAssumption DEF LoopInv, LoopStates
<1>2. CASE AtEnd(s)
  <2>1. t = s
    BY <1>1, <1>2 DEF SelectStep, AtEnd
  <2> QED
    BY <1>2, <2>1
<1>3. CASE ~AtEnd(s)
  <2>1. s.di \in DataIdx /\ s.fi \in FecIdx /\ s.di < NumData /\ s.fi < NumFec
    BY <1>1, <1>3 DEF AtEnd, DataIdx, FecIdx
  <2>2. DataSlot(s.di) \in Slots /\ FecSlot(s.fi) \in Slots
    BY <2>1, SlotRange
  <2>3. /\ Good(data) <=> ~Missing(data) /\ ~Corrupt(data)
        /\ ~(Missing(data) /\ Corrupt(data))
        /\ ~Missing(fec) => (Good(fec) <=> fec.crc)
        /\ Good(fec) <=> ~Missing(fec) /\ ~Corrupt(fec)
        /\ fec.crc \in BOOLEAN
    BY <2>2, FlagCases DEF Flagged
  <2>4. /\ Cardinality(MissingFrom(ps, s.di)) \in Nat
        /\ Cardinality(CorruptFrom(ps, s.di)) \in Nat
        /\ Cardinality(CorruptFrom(ps, s.di + 1)) \in Nat
        /\ Cardinality(GoodFecsFrom(ps, s.fi)) \in Nat
    BY CountsNat
  <2>5. /\ s.missing = Cardinality(MissingFrom(ps, s.di))
        /\ s.good = Cardinality(GoodFecsFrom(ps, s.fi))
        /\ \A d \in DataIdx : d < s.di /\ Missing(ps[DataSlot(d)]) => d \in ErasedBy(s.pairs)
    BY DEF LoopInv, CountsRight
  <2>6. /\ Cardinality(MissingFrom(ps, s.di + 1)) =
              IF Missing(data) THEN s.missing - 1 ELSE s.missing
        /\ Cardinality(CorruptFrom(ps, s.di + 1)) =
              IF Corrupt(data) THEN Cardinality(CorruptFrom(ps, s.di)) - 1
                               ELSE Cardinality(CorruptFrom(ps, s.di))
    BY <2>1, <2>5, CountData
  <2>7. Cardinality(GoodFecsFrom(ps, s.fi + 1)) = IF Good(fec) THEN s.good - 1 ELSE s.good
    BY <2>1, <2>5, CountFecs
  <2>8. NoCorruptFecs(ps) => ~Corrupt(fec)
    BY <2>1 DEF NoCorruptFecs
  <2>9. \A d \in DataIdx : d < s.di + 1 => d < s.di \/ d = s.di
    BY <2>1 DEF DataIdx
  <2>10. CASE PassOverData(data, s)
    <3>1. t = [s EXCEPT !.di = @ + 1]
      BY <2>1, <2>10 DEF SelectStep
    <3>2. /\ t.di = s.di + 1 /\ t.fi = s.fi /\ t.missing = s.missing /\ t.good = s.good
          /\ t.pairs = s.pairs /\ t \in LoopStates
      BY <1>1, <2>1, <3>1 DEF LoopStates
    <3> HIDE DEF t
    <3>3. ~Missing(data)
      BY <2>3, <2>10 DEF PassOverData
    <3>4. CountsRight(ps, t)
      BY <2>5, <2>6, <2>9, <3>2, <3>3 DEF CountsRight
    <3>5. PairsFit(ps, t) /\ EnoughLeft(ps, t)
      BY <3>2 DEF LoopInv, PairsFit, EnoughLeft
    <3>6. EnoughForAll(ps, t)
      <4> SUFFICES ASSUME ~ReconstructionFailed(ps), NoCorruptFecs(ps)
                   PROVE  /\ t.missing + Cardinality(CorruptFrom(ps, t.di)) <= t.good
                          /\ \A d \in DataIdx : d < t.di /\ ~Good(ps[DataSlot(d)])
                                                    => d \in ErasedBy(t.pairs)
        BY DEF EnoughForAll
      <4>1. /\ s.missing + Cardinality(CorruptFrom(ps, s.di)) <= s.good
            /\ \A d \in DataIdx : d < s.di /\ ~Good(ps[DataSlot(d)]) => d \in ErasedBy(s.pairs)
        BY DEF LoopInv, EnoughForAll
      <4>2. ~Corrupt(data)
        <5> SUFFICES ASSUME Corrupt(data) PROVE FALSE
          OBVIOUS
        <5>1. s.good <= s.missing
          BY <2>3, <2>10 DEF PassOverData
        <5> QED
          BY <1>1, <2>4, <2>6, <4>1, <5>1
      <4>3. Good(data)
        BY <2>3, <3>3, <4>2
      <4> QED
        BY <2>6, <2>9, <3>2, <4>1, <4>2, <4>3
    <3> QED
      BY <1>1, <1>3, <3>2, <3>4, <3>5, <3>6 DEF LoopInv, t
  <2>11. CASE ~PassOverData(data, s) /\ PassOverFec(fec, s)
    <3>1. t = [s EXCEPT !.fi = @ + 1]
      BY <2>1, <2>11 DEF SelectStep
    <3>2. /\ t.di = s.di /\ t.fi = s.fi + 1 /\ t.missing = s.missing /\ t.good = s.good
          /\ t.pairs = s.pairs /\ t \in LoopStates
      BY <1>1, <2>1, <3>1 DEF LoopStates
    <3> HIDE DEF t
    <3>3. ~Good(fec)
      BY <2>3, <2>11 DEF PassOverFec, Missing, Good
    <3>4. CountsRight(ps, t)
      BY <2>5, <2>7, <3>2, <3>3 DEF CountsRight
    <3>5. PairsFit(ps, t) /\ EnoughLeft(ps, t) /\ EnoughForAll(ps, t)
      BY <3>2 DEF LoopInv, PairsFit, EnoughLeft, EnoughForAll
    <3> QED
      BY <1>1, <1>3, <3>2, <3>4, <3>5 DEF LoopInv, t
  <2>12. CASE ~PassOverData(data, s) /\ ~PassOverFec(fec, s)
    <3>1. t = [di      |-> s.di + 1,
               fi      |-> s.fi + 1,
               missing |-> IF Missing(data) THEN s.missing - 1 ELSE s.missing,
               good    |-> IF fec.crc THEN s.good - 1 ELSE s.good,
               pairs   |-> s.pairs \cup {<<s.di, s.fi>>}]
      BY <2>1, <2>12 DEF SelectStep
    <3>2. /\ t.di = s.di + 1 /\ t.fi = s.fi + 1
          /\ t.missing = IF Missing(data) THEN s.missing - 1 ELSE s.missing
          /\ t.good = IF fec.crc THEN s.good - 1 ELSE s.good
          /\ t.pairs = s.pairs \cup {<<s.di, s.fi>>}
          /\ t \in LoopStates
      BY <1>1, <2>1, <3>1 DEF LoopStates
    <3> HIDE DEF t
    <3>3. ~Good(data) /\ ~Missing(fec) /\ (Good(fec) <=> fec.crc)
      BY <2>3, <2>12 DEF PassOverData, PassOverFec
    <3>4. ErasedBy(t.pairs) = ErasedBy(s.pairs) \cup {s.di}
      <4>1. t.pairs = s.pairs \cup {<<s.di, s.fi>>}
        BY <3>2
      <4>2. ErasedBy(s.pairs \cup {<<s.di, s.fi>>}) = ErasedBy(s.pairs) \cup {s.di}
        BY ErasedWith, Zenon
      <4> QED
        BY <4>1, <4>2, Zenon
    <3>5. CountsRight(ps, t)
      BY <2>5, <2>6, <2>7, <2>9, <3>2, <3>3, <3>4 DEF CountsRight
    <3>6. PairsFit(ps, t)
      BY <3>2, <3>3 DEF LoopInv, PairsFit
    <3>7. Corrupt(data) => s.good > s.missing
      BY <1>1, <2>12 DEF PassOverData
    <3>8. ~Missing(data) => Corrupt(data)
      BY <2>3, <3>3
    <3>9. EnoughLeft(ps, t)
      <4> SUFFICES ASSUME ~ReconstructionFailed(ps) PROVE t.missing <= t.good
        BY DEF EnoughLeft
      <4>1. s.missing <= s.good
        BY DEF LoopInv, EnoughLeft
      <4> QED
        BY <1>1, <3>2, <3>7, <3>8, <4>1
    <3>10. EnoughForAll(ps, t)
      <4> SUFFICES ASSUME ~ReconstructionFailed(ps), NoCorruptFecs(ps)
                   PROVE  /\ t.missing + Cardinality(CorruptFrom(ps, t.di)) <= t.good
                          /\ \A d \in DataIdx : d < t.di /\ ~Good(ps[DataSlot(d)])
                                                    => d \in ErasedBy(t.pairs)
        BY DEF EnoughForAll
      <4>1. /\ s.missing + Cardinality(CorruptFrom(ps, s.di)) <= s.good
            /\ \A d \in DataIdx : d < s.di /\ ~Good(ps[DataSlot(d)]) => d \in ErasedBy(s.pairs)
        BY DEF LoopInv, EnoughForAll
      <4>2. t.missing + Cardinality(CorruptFrom(ps, t.di)) <= t.good
        BY <1>1, <2>3, <2>4, <2>6, <3>2, <3>8, <4>1
      <4> QED
        BY <2>9, <3>2, <3>4, <4>1, <4>2
    <3> QED
      BY <1>1, <1>3, <3>2, <3>5, <3>6, <3>9, <3>10 DEF LoopInv, t
  <2> QED
    BY <2>10, <2>11, <2>12
<1> QED
  BY <1>2, <1>3

\* What is selected: see PairsFit, EnoughLeft and EnoughForAll.
LEMMA SelectedFacts ==
    ASSUME NEW ps, Flagged(ps)
    PROVE  /\ Selected(ps) \subseteq DataIdx \X FecIdx
           /\ \A q \in Selected(ps) : /\ ~Good(ps[DataSlot(q[1])])
                                      /\ ~Missing(ps[FecSlot(q[2])])
           /\ ~ReconstructionFailed(ps) =>
                 \A d \in DataIdx : Missing(ps[DataSlot(d)]) => d \in ErasedBy(Selected(ps))
           /\ ~ReconstructionFailed(ps) /\ NoCorruptFecs(ps) =>
                 \A d \in DataIdx : ~Good(ps[DataSlot(d)]) => d \in ErasedBy(Selected(ps))
<1> DEFINE S == {s \in LoopStates : LoopInv(ps, s)}
           init == SelectInit(ps)
           step == [s \in S |-> SelectStep(ps, s)]
           Eq(r) == r = [n \in Nat |-> IF n = 0 THEN init ELSE SelectStep(ps, r[n - 1])]
           run == CHOOSE r : Eq(r)
<1>1. init \in S /\ step \in [S -> S]
  BY LoopStart, LoopStep DEF LoopInv
<1>2. PICK f \in [Nat -> S] : f = [n \in Nat |-> IF n = 0 THEN init ELSE step[f[n - 1]]]
  <2> HIDE DEF init, step, S
  <2> QED
    BY <1>1, IterationExists
<1>3. Eq(f)
  <2>1. \A n \in Nat : n # 0 => n - 1 \in Nat /\ step[f[n - 1]] = SelectStep(ps, f[n - 1])
    BY <1>2
  <2> HIDE DEF init, step, S
  <2> QED
    BY <1>2, <2>1
<1>4. Eq(run)
  <2> HIDE DEF Eq
  <2> QED
    BY <1>3
<1>5. Selected(ps) = run[BlockSize].pairs
  BY DEF Selected
<1> HIDE DEF run
<1>6. run[0] = init /\ \A n \in Nat : run[n + 1] = SelectStep(ps, run[n])
  <2>1. \A n \in Nat : n + 1 # 0 /\ (n + 1) - 1 = n /\ n + 1 \in Nat
    OBVIOUS
  <2> HIDE DEF init
  <2> QED
    BY <1>4, <2>1
<1> HIDE DEF Eq, init, step, S
<1> DEFINE P == {n \in Nat : LoopInv(ps, run[n]) /\ (AtEnd(run[n]) \/ run[n].di + run[n].fi >= n)}
<1>7. 0 \in P
  <2>1. LoopInv(ps, run[0])
    BY <1>6, LoopStart DEF init
  <2>2. run[0].di + run[0].fi >= 0
    BY <1>6 DEF init, SelectInit
  <2> QED
    BY <2>1, <2>2
<1>8. ASSUME NEW n \in Nat, n \in P PROVE n + 1 \in P
  <2> DEFINE s == run[n]
  <2>1. /\ LoopInv(ps, s) /\ (AtEnd(s) \/ s.di + s.fi >= n)
        /\ run[n + 1] = SelectStep(ps, s)
    BY <1>6, <1>8
  <2> HIDE DEF s
  <2>2. /\ LoopInv(ps, run[n + 1])
        /\ AtEnd(s) => run[n + 1] = s
        /\ ~AtEnd(s) => run[n + 1].di + run[n + 1].fi >= s.di + s.fi + 1
    BY <2>1, LoopStep
  <2>3. AtEnd(run[n + 1]) \/ run[n + 1].di + run[n + 1].fi >= n + 1
    <3>1. s.di \in Nat /\ s.fi \in Nat /\ run[n + 1].di \in Nat /\ run[n + 1].fi \in Nat
      BY <2>1, <2>2, BlockAssumption DEF LoopInv, LoopStates
    <3> QED
      BY <2>1, <2>2, <3>1
  <2> QED
    BY <2>2, <2>3
<1>9. BlockSize \in P
  <2> HIDE DEF P
  <2>1. \A n \in Nat : n \in P
    BY <1>7, <1>8, NatInductionSet
  <2> QED
    BY <2>1, BlockAssumption DEF BlockSize
<1> DEFINE s == run[BlockSize]
<1>10. LoopInv(ps, s) /\ (AtEnd(s) \/ s.di + s.fi >= BlockSize)
  BY <1>9
<1> HIDE DEF s, P
<1>11. /\ s.di \in 0 .. NumData /\ s.fi \in 0 .. NumFec /\ s.pairs \subseteq DataIdx \X FecIdx
       /\ PairsFit(ps, s) /\ CountsRight(ps, s) /\ EnoughLeft(ps, s) /\ EnoughForAll(ps, s)
  BY <1>10 DEF LoopInv, LoopStates
<1>12. AtEnd(s)
  BY <1>10, <1>11, BlockAssumption DEF AtEnd, BlockSize
<1>13. s.fi = NumFec => s.good = 0
  <2>1. GoodFecsFrom(ps, NumFec) = {}
    BY BlockAssumption DEF GoodFecsFrom, FecIdx
  <2> QED
    BY <1>11, <2>1, CountsNat DEF CountsRight
<1>14. \A d \in DataIdx : s.di = NumData => d < s.di
  BY BlockAssumption DEF DataIdx
<1>15. ASSUME ~ReconstructionFailed(ps), NEW d \in DataIdx, Missing(ps[DataSlot(d)])
       PROVE  d \in ErasedBy(s.pairs)
  <2>1. CASE d < s.di
    BY <1>11, <1>15, <2>1 DEF CountsRight
  <2>2. CASE ~(d < s.di)
    <3>1. s.good = 0 /\ s.missing <= s.good
      BY <1>11, <1>12, <1>13, <1>14, <1>15, <2>2 DEF AtEnd, EnoughLeft
    <3>2. s.missing = Cardinality(MissingFrom(ps, s.di))
      BY <1>11 DEF CountsRight
    <3>3. MissingFrom(ps, s.di) = {}
      BY <3>1, <3>2, CountsNat
    <3>4. d \in MissingFrom(ps, s.di)
      BY <1>11, <1>15, <2>2 DEF MissingFrom, DataIdx
    <3> QED
      BY <3>3, <3>4
  <2> QED
    BY <2>1, <2>2
<1>16. ASSUME ~ReconstructionFailed(ps), NoCorruptFecs(ps), NEW d \in DataIdx,
              ~Good(ps[DataSlot(d)])
       PROVE  d \in ErasedBy(s.pairs)
  <2>1. CASE d < s.di
    BY <1>11, <1>16, <2>1 DEF EnoughForAll
  <2>2. CASE ~(d < s.di)
    <3>1. s.good = 0 /\ s.missing + Cardinality(CorruptFrom(ps, s.di)) <= s.good
      BY <1>11, <1>12, <1>13, <1>14, <1>16, <2>2 DEF AtEnd, EnoughForAll
    <3>2. s.missing = Cardinality(MissingFrom(ps, s.di))
      BY <1>11 DEF CountsRight
    <3>3. MissingFrom(ps, s.di) = {} /\ CorruptFrom(ps, s.di) = {}
      BY <3>1, <3>2, CountsNat
    <3>4. Missing(ps[DataSlot(d)]) \/ Corrupt(ps[DataSlot(d)])
      BY <1>16, SlotRange, FlagCases
    <3>5. d \in MissingFrom(ps, s.di) \/ d \in CorruptFrom(ps, s.di)
      BY <1>11, <2>2, <3>4 DEF MissingFrom, CorruptFrom, DataIdx
    <3> QED
      BY <3>3, <3>5
  <2> QED
    BY <2>1, <2>2
<1> QED
  BY <1>5, <1>11, <1>15, <1>16 DEF PairsFit, s

-----------------------------------------------------------------------------
(* What is published.                                                      *)

\* An erased DATA packet was not received intact, and a FEC packet that came
\* stands in for it.
LEMMA ErasedFacts ==
    ASSUME NEW ps, Flagged(ps), NEW d \in DataIdx, d \in ErasedBy(Selected(ps))
    PROVE  /\ ~Good(ps[DataSlot(d)])
           /\ \E p \in Slots : p \in Inputs(Selected(ps)) /\ ~Missing(ps[p])
                               /\ \E f \in FecIdx : p = FecSlot(f)
<1>1. PICK q \in Selected(ps) : d = q[1]
  BY Zenon DEF ErasedBy
<1>2. /\ ~Good(ps[DataSlot(q[1])]) /\ ~Missing(ps[FecSlot(q[2])])
      /\ q \in DataIdx \X FecIdx
  BY <1>1, SelectedFacts
<1>3. q[2] \in FecIdx /\ FecSlot(q[2]) \in Slots
  BY <1>2, SlotRange
<1>4. FecSlot(q[2]) \in Inputs(Selected(ps))
  BY <1>1, Zenon DEF Inputs, FecInputs
<1> QED
  BY <1>1, <1>2, <1>3, <1>4

\* Without anything to repair, all DATA packets were received intact.
LEMMA NothingToRepair ==
    ASSUME NEW ps, Flagged(ps), ~NeedsFec(ps), NEW d \in DataIdx
    PROVE  Good(ps[DataSlot(d)])
<1> DEFINE missing == {e \in DataIdx : Missing(ps[DataSlot(e)])}
           corrupt == {e \in DataIdx : Corrupt(ps[DataSlot(e)])}
<1>1. /\ Cardinality(missing) \in Nat /\ (Cardinality(missing) = 0 <=> missing = {})
      /\ Cardinality(corrupt) \in Nat /\ (Cardinality(corrupt) = 0 <=> corrupt = {})
  <2>1. missing \subseteq DataIdx /\ corrupt \subseteq DataIdx
    OBVIOUS
  <2> HIDE DEF missing, corrupt
  <2> QED
    BY <2>1, IndexFinite
<1>2. ~(Cardinality(missing) + Cardinality(corrupt) > 0)
  BY DEF NeedsFec, DatasMissing, DatasCorrupt
<1>3. missing = {} /\ corrupt = {}
  <2> HIDE DEF missing, corrupt
  <2> QED
    BY <1>1, <1>2
<1>4. ~Missing(ps[DataSlot(d)]) /\ ~Corrupt(ps[DataSlot(d)])
  BY <1>3
<1> QED
  BY <1>4, SlotRange, FlagCases

\* The sources fec_decode can name: encoded blocks that all inputs belong to.
Origins(ps) == {ps[p].data.org : p \in Slots} \ {NoOrigin}
Sources(ps) == {o \in Origins(ps) : Solvable(ps, Selected(ps), o)}

\* What is published for a DATA packet.
LEMMA PublishedItem ==
    ASSUME NEW ps, NEW d \in DataIdx
    PROVE  PublishedItems(ps)[d] =
             IF ~NeedsFec(ps) THEN ps[DataSlot(d)].data
             ELSE IF ReconstructionFailed(ps) /\ ~ps[DataSlot(d)].valid THEN NotPublished
             ELSE IF d \notin ErasedBy(Selected(ps)) THEN ps[DataSlot(d)].data
             ELSE IF Sources(ps) = {} THEN Junk
             ELSE [org |-> CHOOSE o \in Sources(ps) : TRUE, pos |-> DataSlot(d)]
<1>1. fec_decode(ps, Selected(ps))[d] =
          IF d \notin ErasedBy(Selected(ps)) THEN ps[DataSlot(d)].data
          ELSE IF Sources(ps) = {} THEN Junk
          ELSE [org |-> CHOOSE o \in Sources(ps) : TRUE, pos |-> DataSlot(d)]
  BY DEF fec_decode, Sources, Origins
<1>2. PublishedItems(ps)[d] =
          IF ~NeedsFec(ps) THEN ps[DataSlot(d)].data
          ELSE IF ~ReconstructionFailed(ps) \/ ps[DataSlot(d)].valid
               THEN fec_decode(ps, Selected(ps))[d] ELSE NotPublished
  BY DEF PublishedItems
<1> QED
  BY <1>1, <1>2

\* A DATA packet that was received intact is published as received.
LEMMA GoodPublished ==
    ASSUME NEW ps, Flagged(ps), NEW d \in DataIdx, Good(ps[DataSlot(d)])
    PROVE  PublishedItems(ps)[d] = ps[DataSlot(d)].data
<1>1. d \notin ErasedBy(Selected(ps))
  BY ErasedFacts
<1>2. ps[DataSlot(d)].valid
  BY DEF Good
<1> QED
  BY <1>1, <1>2, PublishedItem

\* Intact packets belong to the encoded blocks O, at their places, and damaged
\* ones hold junk; nothing is said of buffers without a packet.
HoldsOnly(ps, O) ==
    /\ Flagged(ps)
    /\ \A p \in Slots : Good(ps[p]) => \E o \in O : ps[p].data = [org |-> o, pos |-> p]
    /\ \A p \in Slots : Corrupt(ps[p]) => ps[p].data = Junk

\* Then whatever is published belongs to one of these blocks or is junk: what
\* buffers without a packet hold never leaves.
LEMMA PublishedOwn ==
    ASSUME NEW ps, NEW O, NoOrigin \notin O, HoldsOnly(ps, O), NEW d \in DataIdx
    PROVE  LET it == PublishedItems(ps)[d]
           IN  \/ it \in {Junk, NotPublished}
               \/ \E o \in O : it = [org |-> o, pos |-> DataSlot(d)]
<1> DEFINE data == ps[DataSlot(d)]
           it == PublishedItems(ps)[d]
<1>1. /\ DataSlot(d) \in Slots /\ Flagged(ps)
      /\ Good(data) <=> ~Missing(data) /\ ~Corrupt(data)
      /\ Good(data) => \E o \in O : data.data = [org |-> o, pos |-> DataSlot(d)]
      /\ Corrupt(data) => data.data = Junk
      /\ Missing(data) <=> ~data.valid
  BY SlotRange, FlagCases DEF HoldsOnly, Missing
<1>2. CASE ~NeedsFec(ps)
  <2>1. Good(data) /\ it = data.data
    BY <1>1, <1>2, NothingToRepair, PublishedItem
  <2> QED
    BY <1>1, <2>1
<1>3. CASE NeedsFec(ps) /\ d \notin ErasedBy(Selected(ps))
  <2>1. CASE Missing(data)
    <3>1. ReconstructionFailed(ps)
      BY <1>1, <1>3, <2>1, SelectedFacts
    <3>2. it = NotPublished
      BY <1>1, <1>3, <2>1, <3>1, PublishedItem
    <3> QED
      BY <3>2
  <2>2. CASE ~Missing(data)
    <3>1. it = data.data
      BY <1>1, <1>3, <2>2, PublishedItem
    <3> QED
      BY <1>1, <2>2, <3>1
  <2> QED
    BY <2>1, <2>2
<1>4. CASE NeedsFec(ps) /\ d \in ErasedBy(Selected(ps))
  <2>1. CASE it = NotPublished \/ it = Junk
    BY <2>1
  <2>2. CASE it # NotPublished /\ it # Junk
    <3> DEFINE src == CHOOSE o \in Sources(ps) : TRUE
    <3>1. Sources(ps) # {} /\ it = [org |-> src, pos |-> DataSlot(d)]
      BY <1>4, <2>2, PublishedItem
    <3>2. src \in Sources(ps)
      BY <3>1
    <3> HIDE DEF src
    <3>3. src # NoOrigin /\ Solvable(ps, Selected(ps), src)
      BY <3>2 DEF Sources, Origins
    <3>4. PICK p \in Slots : p \in Inputs(Selected(ps)) /\ ~Missing(ps[p])
      BY <1>1, <1>4, ErasedFacts
    <3>5. ps[p].data = [org |-> src, pos |-> p]
      BY <3>3, <3>4 DEF Solvable
    <3>6. ps[p].data # Junk /\ ps[p].data.org = src
      BY <3>3, <3>5 DEF Junk
    <3>7. Good(ps[p])
      BY <1>1, <3>4, <3>6, FlagCases DEF HoldsOnly
    <3>8. src \in O
      <4>1. PICK o \in O : ps[p].data = [org |-> o, pos |-> p]
        BY <3>4, <3>7 DEF HoldsOnly
      <4>2. ps[p].data.org = o
        BY <4>1
      <4> QED
        BY <3>6, <4>2
    <3> QED
      BY <3>1, <3>8
  <2> QED
    BY <2>1, <2>2
<1> QED
  BY <1>2, <1>3, <1>4

\* With as many intact FEC packets as lost or damaged DATA packets, and no FEC
\* packet damaged, the block is published complete.
LEMMA PublishedIntact ==
    ASSUME NEW ps, NEW o, o # NoOrigin, HoldsOnly(ps, {o}), NoCorruptFecs(ps),
           ~ReconstructionFailed(ps), NEW d \in DataIdx
    PROVE  PublishedItems(ps)[d] = [org |-> o, pos |-> DataSlot(d)]
<1> DEFINE pairs == Selected(ps)
<1>1. \A p \in Slots : Good(ps[p]) => ps[p].data = [org |-> o, pos |-> p]
  BY DEF HoldsOnly
<1>2. \A p \in Inputs(pairs) : p \in Slots /\ Good(ps[p])
  <2> SUFFICES ASSUME NEW p \in Inputs(pairs) PROVE p \in Slots /\ Good(ps[p])
    OBVIOUS
  <2>1. CASE \E e \in DataIdx \ ErasedBy(pairs) : p = DataSlot(e)
    BY <2>1, SelectedFacts, SlotRange DEF HoldsOnly
  <2>2. CASE \E q \in pairs : p = FecSlot(q[2])
    <3>1. PICK q \in pairs : p = FecSlot(q[2])
      BY <2>2
    <3>2. q \in DataIdx \X FecIdx /\ ~Missing(ps[p])
      BY <3>1, SelectedFacts DEF HoldsOnly
    <3>3. q[2] \in FecIdx /\ p \in Slots
      BY <3>1, <3>2, SlotRange
    <3>4. ~Corrupt(ps[p])
      BY <3>1, <3>3 DEF NoCorruptFecs
    <3> QED
      BY <3>2, <3>3, <3>4, FlagCases DEF HoldsOnly
  <2> QED
    BY <2>1, <2>2, Zenon DEF Inputs, FecInputs
<1>3. CASE d \notin ErasedBy(pairs) \/ ~NeedsFec(ps)
  <2>1. Good(ps[DataSlot(d)])
    BY <1>3, SelectedFacts, NothingToRepair DEF HoldsOnly
  <2> QED
    BY <1>1, <2>1, GoodPublished, SlotRange DEF HoldsOnly
<1>4. CASE d \in ErasedBy(pairs) /\ NeedsFec(ps)
  <2>1. PICK p \in Slots : p \in Inputs(pairs)
    BY <1>4, ErasedFacts DEF HoldsOnly
  <2>2. ps[p].data = [org |-> o, pos |-> p] /\ ps[p].data.org = o
    BY <1>1, <1>2, <2>1
  <2>3. o \in Origins(ps)
    BY <2>1, <2>2 DEF Origins
  <2>4. Solvable(ps, pairs, o)
    BY <1>1, <1>2 DEF Solvable
  <2>5. \A x : Solvable(ps, pairs, x) => x = o
    <3> SUFFICES ASSUME NEW x, Solvable(ps, pairs, x) PROVE x = o
      OBVIOUS
    <3>1. ps[p].data = [org |-> x, pos |-> p]
      BY <2>1 DEF Solvable
    <3>2. ps[p].data.org = x
      BY <3>1
    <3> QED
      BY <2>2, <3>2
  <2>6. Sources(ps) = {o}
    BY <2>3, <2>4, <2>5 DEF Sources
  <2>7. (CHOOSE x \in Sources(ps) : TRUE) = o /\ Sources(ps) # {}
    BY <2>6
  <2> QED
    BY <1>4, <2>7, PublishedItem
<1> QED
  BY <1>3, <1>4
-----------------------------------------------------------------------------
(* The packets of one video block.                                         *)

BufferContents == [org : {ThisBlock, LastBlock, NoOrigin}, pos : Int]

\* Intact packets belong to this block and sit at their places; damaged ones
\* hold junk; buffers without a packet may hold anything of the block before.
ArrivalInv ==
    /\ sl \in [Slots -> [valid : BOOLEAN, crc : BOOLEAN, data : BufferContents]]
    /\ HoldsOnly(sl, {ThisBlock})

\* What the buffers hold.
LEMMA ContentsOfBuffers ==
    /\ Junk \in BufferContents
    /\ \A p \in Slots : /\ [org |-> ThisBlock, pos |-> p] \in BufferContents
                        /\ [org |-> LastBlock, pos |-> p] \in BufferContents
  <1>1. \A p \in Slots : p \in Int
    BY DEF Slots
  <1> HIDE DEF ThisBlock, LastBlock, NoOrigin
  <1> QED
    BY <1>1 DEF BufferContents, Junk

\* Arrivals keep the invariant.
LEMMA ArrivalsKept == BlockSpec => []ArrivalInv
  <1>1. BlockInit => ArrivalInv
    <2> SUFFICES ASSUME BlockInit PROVE ArrivalInv
      OBVIOUS
    <2>1. PICK used \in SUBSET FecIdx :
              sl = [p \in Slots |->
                      [EmptySlot EXCEPT !.data =
                          IF p \in {FecSlot(f) : f \in used} THEN Junk
                          ELSE [org |-> LastBlock, pos |-> p]]]
      BY DEF BlockInit
    <2>2. ASSUME NEW p \in Slots
          PROVE  /\ sl[p] \in [valid : BOOLEAN, crc : BOOLEAN, data : BufferContents]
                 /\ ~sl[p].valid
      <3> DEFINE old == IF p \in {FecSlot(f) : f \in used} THEN Junk
                        ELSE [org |-> LastBlock, pos |-> p]
      <3>1. sl[p] = [valid |-> FALSE, crc |-> FALSE, data |-> old]
        BY <2>1 DEF EmptySlot
      <3>2. old \in BufferContents
        BY ContentsOfBuffers
      <3> HIDE DEF old
      <3> QED
        BY <3>1, <3>2
    <2>3. sl \in [Slots -> [valid : BOOLEAN, crc : BOOLEAN, data : BufferContents]]
      <3>1. sl = [p \in Slots |-> sl[p]]
        BY <2>1
      <3> QED
        BY <2>2, <3>1
    <2> QED
      BY <2>2, <2>3 DEF ArrivalInv, HoldsOnly, Flagged, Good, Corrupt
  <1>2. ArrivalInv /\ [BlockNext]_sl => ArrivalInv'
    <2> SUFFICES ASSUME ArrivalInv, [BlockNext]_sl PROVE ArrivalInv'
      OBVIOUS
    <2>1. CASE UNCHANGED sl
      BY <2>1 DEF ArrivalInv, HoldsOnly, Flagged, Good, Corrupt
    <2>2. ASSUME NEW p \in Slots, ArriveIntact(p) \/ ArriveDamaged(p)
          PROVE  ArrivalInv'
      <3> DEFINE good == [valid |-> TRUE, crc |-> TRUE, data |-> [org |-> ThisBlock, pos |-> p]]
                 bad  == [valid |-> TRUE, crc |-> FALSE, data |-> Junk]
      <3>1. PICK new \in {good, bad} : sl' = [sl EXCEPT ![p] = new]
        BY <2>2 DEF ArriveIntact, ArriveDamaged
      <3>2. new \in [valid : BOOLEAN, crc : BOOLEAN, data : BufferContents]
        <4> DEFINE own == [org |-> ThisBlock, pos |-> p]
        <4>1. own \in BufferContents /\ Junk \in BufferContents
          BY ContentsOfBuffers
        <4>2. new = [valid |-> TRUE, crc |-> TRUE, data |-> own]
              \/ new = [valid |-> TRUE, crc |-> FALSE, data |-> Junk]
          BY <3>1
        <4> HIDE DEF own
        <4>3. \A c \in BOOLEAN, x \in BufferContents :
                [valid |-> TRUE, crc |-> c, data |-> x]
                    \in [valid : BOOLEAN, crc : BOOLEAN, data : BufferContents]
          OBVIOUS
        <4> QED
          BY <4>1, <4>2, <4>3, Zenon
      <3>3. /\ Good(new) => \E o \in {ThisBlock} : new.data = [org |-> o, pos |-> p]
            /\ Corrupt(new) => new.data = Junk
        BY <3>1 DEF Good, Corrupt
      <3>4. /\ sl' \in [Slots -> [valid : BOOLEAN, crc : BOOLEAN, data : BufferContents]]
            /\ sl'[p] = new /\ \A q \in Slots : q # p => sl'[q] = sl[q]
        BY <3>1, <3>2 DEF ArrivalInv
      <3>5. \A q \in Slots :
              /\ Good(sl'[q]) => \E o \in {ThisBlock} : sl'[q].data = [org |-> o, pos |-> q]
              /\ Corrupt(sl'[q]) => sl'[q].data = Junk
        BY <3>3, <3>4 DEF ArrivalInv, HoldsOnly
      <3>6. \A q \in Slots : sl'[q].valid \in BOOLEAN /\ sl'[q].crc \in BOOLEAN
        BY <3>4
      <3> QED
        BY <3>4, <3>5, <3>6 DEF ArrivalInv, HoldsOnly, Flagged, Good, Corrupt
    <2> QED
      BY <2>1, <2>2 DEF BlockNext
  <1> QED
    BY <1>1, <1>2, PTL DEF BlockSpec

\* However the packets of a block arrive: with as many intact FEC packets as
\* lost or damaged DATA packets, and no FEC packet damaged, the block is
\* published complete, intact and in order.
THEOREM FecRepairsBlockHolds == BlockSpec => []FecRepairsBlock
  <1>1. ASSUME ArrivalInv PROVE FecRepairsBlock
    <2> SUFFICES ASSUME NoCorruptFec, DatasMissing(sl) + DatasCorrupt(sl) <= GoodFecs(sl),
                        NEW d \in DataIdx
                 PROVE  PublishedItems(sl)[d] = Intact(d)
      BY DEF FecRepairsBlock
    <2>1. ThisBlock # NoOrigin
      BY DEF ThisBlock, NoOrigin
    <2>2. NoCorruptFecs(sl)
      BY DEF NoCorruptFec, NoCorruptFecs
    <2>3. ~ReconstructionFailed(sl)
      <3>1. DatasMissing(sl) \in Nat /\ DatasCorrupt(sl) \in Nat /\ GoodFecs(sl) \in Nat
        BY IndexFinite DEF DatasMissing, DatasCorrupt, GoodFecs
      <3> QED
        BY <3>1 DEF ReconstructionFailed
    <2> QED
      BY <1>1, <2>1, <2>2, <2>3, PublishedIntact DEF ArrivalInv, Intact
  <1> QED
    BY <1>1, ArrivalsKept, PTL

\* However the packets of a block arrive, whatever the buffers hold of the
\* block before is not published again.
THEOREM NothingStalePublishedHolds == BlockSpec => []NothingStalePublished
  <1>1. ASSUME ArrivalInv, NEW d \in DataIdx
        PROVE  PublishedItems(sl)[d] \in {Intact(d), Junk, NotPublished}
    <2>1. NoOrigin \notin {ThisBlock}
      BY DEF ThisBlock, NoOrigin
    <2>2. \/ PublishedItems(sl)[d] \in {Junk, NotPublished}
          \/ \E o \in {ThisBlock} : PublishedItems(sl)[d] = [org |-> o, pos |-> DataSlot(d)]
      BY <1>1, <2>1, PublishedOwn DEF ArrivalInv
    <2> QED
      BY <2>2 DEF Intact
  <1>2. ArrivalInv => NothingStalePublished
    BY <1>1 DEF NothingStalePublished
  <1> QED
    BY <1>2, ArrivalsKept, PTL

\* However the packets of a block arrive, an intact DATA packet is published
\* as it came, also when the block cannot be repaired.
THEOREM GoodDataAlwaysPublishedHolds == BlockSpec => []GoodDataAlwaysPublished
  <1>1. ASSUME ArrivalInv, NEW d \in DataIdx, Good(sl[DataSlot(d)])
        PROVE  PublishedItems(sl)[d] = Intact(d)
    <2>1. sl[DataSlot(d)].data = Intact(d)
      BY <1>1, SlotRange DEF ArrivalInv, HoldsOnly, Intact
    <2> QED
      BY <1>1, <2>1, GoodPublished DEF ArrivalInv, HoldsOnly
  <1>2. ArrivalInv => GoodDataAlwaysPublished
    BY <1>1 DEF GoodDataAlwaysPublished
  <1> QED
    BY <1>2, ArrivalsKept, PTL

-----------------------------------------------------------------------------
(* One call of process_video_payload.                                      *)

OutputEntries == BlockEntries \cup {RestartEntry}
HandlerStates == [buf : BlockBuffers, max : Int, output : Seq(OutputEntries),
                  status : [Counters -> Nat]]
Seqs == 0 .. UintRange - 1

-----------------------------------------------------------------------------
(* The integer conversions.                                                *)

\* Sequence numbers split into a block number and a place in the block.
LEMMA SeqSplit ==
    ASSUME NEW seq \in Seqs
    PROVE  /\ BlockOf(seq) \in Nat /\ BlockOf(seq) <= seq /\ BlockOf(seq) \in Seqs
           /\ BlockSize >= 2 => 2 * BlockOf(seq) <= seq
           /\ PacketNum(seq) \in Slots
<1>1. BlockSize \in Nat /\ BlockSize > 0 /\ seq \in Nat /\ UintRange \in Nat /\ seq < UintRange
  BY BlockAssumption DEF BlockSize, Seqs
<1>2. \A n \in Nat : n > 0 => seq \div n \in Nat /\ seq \div n <= seq /\ seq % n \in 0 .. n - 1
  BY <1>1
<1>3. \A n \in Nat : n >= 2 => 2 * (seq \div n) <= seq
  BY <1>1
<1> QED
  BY <1>1, <1>2, <1>3 DEF BlockOf, PacketNum, Slots, Seqs

\* Block numbers stay in the lower half of the range.
LEMMA BlockNumbers ==
    ASSUME BlockSize >= 2, NEW seq \in Seqs, NEW blk, blk = BlockOf(seq)
    PROVE  /\ blk \in Seqs /\ blk \in Nat /\ 2 * blk <= UintRange /\ blk # UintRange - 1
           /\ WrapUint(blk + 1) = blk + 1 /\ 2 * (blk + 1) <= UintRange /\ blk + 1 \in Seqs
<1>1. blk \in Nat /\ 2 * blk <= seq
  BY SeqSplit
<1>2. UintRange \in Nat /\ UintRange >= 4
  BY BlockAssumption
<1>3. \E h \in Nat : UintRange = 2 * h
  BY BlockAssumption
<1>4. seq \in Nat /\ seq < UintRange
  BY <1>2 DEF Seqs
<1> QED
  BY <1>1, <1>2, <1>3, <1>4 DEF Seqs, WrapUint

\* Storing an unsigned number in an int and reading it back loses nothing.
LEMMA IntRoundTrip ==
    ASSUME NEW u \in Seqs
    PROVE  Int32(u) \in Int /\ Uint(Int32(u)) = u
BY BlockAssumption DEF Seqs, Int32, Uint

\* -1 reads as the largest unsigned number.
LEMMA MinusOne == Uint(-1) = UintRange - 1
BY BlockAssumption DEF Uint

-----------------------------------------------------------------------------
(* Types.                                                                  *)

\* The number of lost packets is a number.
LEMMA LostPerBlockType ==
    ASSUME NEW ps
    PROVE  LostPerBlock(ps) \in Nat
BY IndexFinite DEF LostPerBlock

\* Whatever is decoded is a payload.
LEMMA DecodeType ==
    ASSUME NEW ps \in [Slots -> PacketSlots], NEW pairs
    PROVE  fec_decode(ps, pairs) \in [DataIdx -> Payloads]
<1>1. \A d \in DataIdx : ps[DataSlot(d)].data \in Payloads /\ DataSlot(d) \in Int
  BY SlotRange DEF PacketSlots, Slots
<1>2. Junk \in Payloads
  BY DEF Junk, NoOrigin, Payloads
<1> DEFINE origins == {ps[p].data.org : p \in Slots} \ {NoOrigin}
           sources == {o \in origins : Solvable(ps, pairs, o)}
<1>3. \A o \in sources : o \in [ep : Int, blk : Int]
  BY DEF PacketSlots, Payloads
<1>4. sources # {} => (CHOOSE o \in sources : TRUE) \in [ep : Int, blk : Int]
  BY <1>3
<1> HIDE DEF sources
<1>5. fec_decode(ps, pairs) =
          [d \in DataIdx |->
              IF d \notin ErasedBy(pairs) THEN ps[DataSlot(d)].data
              ELSE IF sources = {} THEN Junk
              ELSE [org |-> CHOOSE o \in sources : TRUE, pos |-> DataSlot(d)]]
  BY DEF fec_decode, sources
<1>6. ASSUME NEW d \in DataIdx, sources # {}
      PROVE  [org |-> CHOOSE o \in sources : TRUE, pos |-> DataSlot(d)] \in Payloads
  BY <1>1, <1>4, <1>6 DEF Payloads
<1> QED
  BY <1>1, <1>2, <1>5, <1>6

\* Every DATA packet that is published is a payload.
LEMMA ItemsType ==
    ASSUME NEW ps \in [Slots -> PacketSlots]
    PROVE  PublishedItems(ps) \in [DataIdx -> Payloads]
<1>1. \A d \in DataIdx : ps[DataSlot(d)].data \in Payloads
  BY SlotRange DEF PacketSlots
<1>2. NotPublished \in Payloads
  BY DEF NotPublished, NoOrigin, Payloads
<1> DEFINE dec == fec_decode(ps, Selected(ps))
<1>3. dec \in [DataIdx -> Payloads]
  BY DecodeType
<1>4. PublishedItems(ps) =
        IF ~NeedsFec(ps) THEN [d \in DataIdx |-> ps[DataSlot(d)].data]
        ELSE [d \in DataIdx |->
                IF ~ReconstructionFailed(ps) \/ ps[DataSlot(d)].valid
                THEN dec[d] ELSE NotPublished]
  BY DEF PublishedItems
<1> HIDE DEF dec
<1> QED
  BY <1>1, <1>2, <1>3, <1>4

\* Decoding leaves packet buffers.
LEMMA DecodedSlotsType ==
    ASSUME NEW ps \in [Slots -> PacketSlots]
    PROVE  DecodedSlots(ps) \in [Slots -> PacketSlots]
<1> DEFINE pairs   == Selected(ps)
           dec     == fec_decode(ps, pairs)
           reduced == IF ErasedBy(pairs) = DataIdx THEN {} ELSE FecInputs(pairs)
           left(p) == IF \E d \in DataIdx : DataSlot(d) = p
                      THEN dec[CHOOSE d \in DataIdx : DataSlot(d) = p]
                      ELSE IF p \in reduced THEN Junk ELSE ps[p].data
<1>1. dec \in [DataIdx -> Payloads]
  BY DecodeType
<1>2. Junk \in Payloads
  BY DEF Junk, NoOrigin, Payloads
<1>3. DecodedSlots(ps) =
        IF ~NeedsFec(ps) THEN ps
        ELSE [p \in Slots |-> [valid |-> ps[p].valid, crc |-> ps[p].crc, data |-> left(p)]]
  BY DEF DecodedSlots
<1> HIDE DEF dec, reduced
<1>4. ASSUME NEW p \in Slots
      PROVE  left(p) \in Payloads
  <2>1. CASE \E d \in DataIdx : DataSlot(d) = p
    <3>1. (CHOOSE d \in DataIdx : DataSlot(d) = p) \in DataIdx
      BY <2>1
    <3> QED
      BY <1>1, <2>1, <3>1
  <2>2. CASE ~\E d \in DataIdx : DataSlot(d) = p
    BY <1>2, <1>4, <2>2 DEF PacketSlots
  <2> QED
    BY <2>1, <2>2
<1> HIDE DEF left
<1>5. \A p \in Slots : [valid |-> ps[p].valid, crc |-> ps[p].crc, data |-> left(p)] \in PacketSlots
  BY <1>4 DEF PacketSlots
<1> QED
  BY <1>3, <1>5

\* What is published for a block is an output entry.
LEMMA BlockEntryType ==
    ASSUME NEW b \in BlockBuffers
    PROVE  BlockEntry(b) \in BlockEntries
<1>1. b.slots \in [Slots -> PacketSlots] /\ b.block_num \in Int
  BY DEF BlockBuffers
<1>2. PublishedItems(b.slots) \in [DataIdx -> Payloads]
  BY <1>1, ItemsType
<1>3. Damaged(b.slots) \in BOOLEAN
  BY DEF Damaged
<1> QED
  BY <1>1, <1>2, <1>3 DEF BlockEntry, BlockEntries

\* Clearing the packet buffers leaves none valid.
LEMMA ClearSlotsFacts ==
    ASSUME NEW ps \in [Slots -> PacketSlots]
    PROVE  /\ ClearSlots(ps) \in [Slots -> PacketSlots]
           /\ \A p \in Slots : ~ClearSlots(ps)[p].valid
BY DEF ClearSlots, PacketSlots

\* block_buffer_list_reset leaves an unused, empty buffer.
LEMMA ResetType ==
    ASSUME NEW b \in BlockBuffers
    PROVE  /\ block_buffer_list_reset(b) \in BlockBuffers
           /\ block_buffer_list_reset(b).block_num = -1
           /\ \A p \in Slots : ~block_buffer_list_reset(b).slots[p].valid
<1>1. b.slots \in [Slots -> PacketSlots]
  BY DEF BlockBuffers
<1> QED
  BY <1>1, ClearSlotsFacts DEF block_buffer_list_reset, BlockBuffers

\* The counters stay counters.
LEMMA CountTypes ==
    ASSUME NEW cnt \in [Counters -> Nat], NEW ps
    PROVE  CountRestart(cnt) \in [Counters -> Nat] /\ CountBlock(cnt, ps) \in [Counters -> Nat]
<1>1. UintRange \in Nat /\ UintRange > 0
  BY BlockAssumption
<1>2. \A n \in Nat : n % UintRange \in Nat
  BY <1>1
<1>3. LostPerBlock(ps) \in Nat
  BY LostPerBlockType
<1>4. \A c \in Counters : (cnt[c] + 1) % UintRange \in Nat
                          /\ (cnt[c] + LostPerBlock(ps)) % UintRange \in Nat
                          /\ (cnt[c] + IF Damaged(ps) THEN 1 ELSE 0) % UintRange \in Nat
  BY <1>2, <1>3
<1> QED
  BY <1>3, <1>4 DEF CountRestart, CountBlock, Counters

-----------------------------------------------------------------------------
(* MakeRoom and Store.                                                     *)

\* A buffer that belongs to no block holds no packet.
EmptyIfUnused(b) == b.block_num = -1 => \A p \in Slots : ~b.slots[p].valid

\* The buffer is empty and belongs to the new block.
LEMMA MakeRoomFacts ==
    ASSUME NEW st \in HandlerStates, NEW blk \in Seqs, NEW r \in BOOLEAN
    PROVE  LET m == MakeRoom(st, blk, r)
           IN  /\ m \in HandlerStates
               /\ m.max = Int32(blk)
               /\ m.buf.block_num = Int32(blk)
               /\ m.buf.packet_buffer_len = 0
               /\ EmptyIfUnused(st.buf) => \A p \in Slots : ~m.buf.slots[p].valid
               /\ r => m.output = Append(st.output, RestartEntry)
               /\ ~r /\ st.buf.block_num # -1 =>
                     m.output = Append(st.output, BlockEntry(st.buf))
               /\ ~r /\ st.buf.block_num = -1 => m.output = st.output
<1> DEFINE b    == IF r THEN block_buffer_list_reset(st.buf) ELSE st.buf
           log  == IF r THEN Append(st.output, RestartEntry) ELSE st.output
           cnt  == IF r THEN CountRestart(st.status) ELSE st.status
           held == b.block_num # -1
           sls  == IF held THEN ClearSlots(DecodedSlots(b.slots)) ELSE b.slots
           out  == IF held THEN Append(log, BlockEntry(b)) ELSE log
           sta  == IF held THEN CountBlock(cnt, b.slots) ELSE cnt
<1>1. st.buf \in BlockBuffers /\ st.output \in Seq(OutputEntries) /\ st.status \in [Counters -> Nat]
  BY DEF HandlerStates
<1>2. b \in BlockBuffers /\ (r => ~held) /\ (EmptyIfUnused(st.buf) /\ ~held => \A p \in Slots : ~b.slots[p].valid)
  BY <1>1, ResetType DEF EmptyIfUnused
<1>3. log \in Seq(OutputEntries)
  BY <1>1 DEF OutputEntries
<1>4. cnt \in [Counters -> Nat]
  BY <1>1, CountTypes
<1>5. /\ sls \in [Slots -> PacketSlots]
      /\ EmptyIfUnused(st.buf) => \A p \in Slots : ~sls[p].valid
  <2>1. b.slots \in [Slots -> PacketSlots]
    BY <1>2 DEF BlockBuffers
  <2>2. CASE held
    BY <2>1, <2>2, ClearSlotsFacts, DecodedSlotsType
  <2>3. CASE ~held
    BY <2>1, <2>3, <1>2
  <2> QED
    BY <2>2, <2>3
<1>6. out \in Seq(OutputEntries)
  BY <1>2, <1>3, BlockEntryType DEF OutputEntries
<1>7. sta \in [Counters -> Nat]
  BY <1>4, CountTypes
<1>8. MakeRoom(st, blk, r) =
        [buf    |-> [block_num |-> Int32(blk), packet_buffer_len |-> 0, slots |-> sls],
         max    |-> Int32(blk),
         output |-> out,
         status |-> sta]
  BY DEF MakeRoom
<1>9. Int32(blk) \in Int
  BY IntRoundTrip
<1>10. /\ r => out = Append(st.output, RestartEntry)
       /\ ~r /\ st.buf.block_num # -1 => out = Append(st.output, BlockEntry(st.buf))
       /\ ~r /\ st.buf.block_num = -1 => out = st.output
  BY <1>2
<1> HIDE DEF b, log, cnt, held, sls, out, sta
<1>11. [block_num |-> Int32(blk), packet_buffer_len |-> 0, slots |-> sls] \in BlockBuffers
  BY <1>5, <1>9 DEF BlockBuffers
<1> QED
  BY <1>5, <1>6, <1>7, <1>8, <1>9, <1>10, <1>11 DEF HandlerStates

\* Storing a packet touches one packet buffer.
LEMMA StoreFacts ==
    ASSUME NEW b \in BlockBuffers, NEW p \in Slots, NEW crc \in BOOLEAN, NEW pay \in Payloads
    PROVE  /\ Store(b, p, crc, pay) \in BlockBuffers
           /\ Store(b, p, crc, pay).block_num = b.block_num
           /\ Store(b, p, crc, pay).packet_buffer_len
                  \in {b.packet_buffer_len, b.packet_buffer_len + 1}
           /\ \A q \in Slots : Good(Store(b, p, crc, pay).slots[q]) =>
                  \/ Good(b.slots[q]) /\ Store(b, p, crc, pay).slots[q] = b.slots[q]
                  \/ q = p /\ crc /\ Store(b, p, crc, pay).slots[q].data = pay
<1> DEFINE slot == [valid |-> TRUE, crc |-> crc, data |-> pay]
           sls  == [b.slots EXCEPT ![p] = slot]
<1>1. b.slots \in [Slots -> PacketSlots] /\ b.block_num \in Int /\ b.packet_buffer_len \in Nat
  BY DEF BlockBuffers
<1>2. slot \in PacketSlots
  BY DEF PacketSlots
<1>3. sls \in [Slots -> PacketSlots] /\ sls[p] = slot /\ \A q \in Slots : q # p => sls[q] = b.slots[q]
  BY <1>1, <1>2
<1>4. CASE b.slots[p].crc
  BY <1>4 DEF Store
<1>5. CASE ~b.slots[p].crc
  <2>1. Store(b, p, crc, pay) = [block_num |-> b.block_num,
                                 packet_buffer_len |-> b.packet_buffer_len + 1,
                                 slots |-> sls]
    BY <1>5 DEF Store
  <2> HIDE DEF sls
  <2> QED
    BY <1>1, <1>3, <2>1 DEF BlockBuffers, Good
<1> QED
  BY <1>4, <1>5

-----------------------------------------------------------------------------
(* The handler.                                                            *)

Current == [buf |-> buf, max |-> max_block_num, output |-> output, status |-> status]
WithBuffer(st, b) == [buf |-> b, max |-> st.max, output |-> st.output, status |-> st.status]

\* The stages of one call: after the window test, after storing the packet,
\* and at the end.
Stages(seq, crc, pay, st1, b, st2) ==
    LET blk   == BlockOf(seq)
        r     == TxRestart(blk)
        found == Uint(st1.buf.block_num) = blk
        len   == IF found THEN b.packet_buffer_len ELSE past_end
    IN  /\ st1 = IF (NewerBlock(blk) \/ r) /\ crc
                 THEN MakeRoom(Current, blk, r) ELSE Current
        /\ b = IF found THEN Store(st1.buf, PacketNum(seq), crc, pay) ELSE st1.buf
        /\ st2 = IF len = BlockSize /\ crc
                 THEN MakeRoom(WithBuffer(st1, b), WrapUint(blk + 1), r)
                 ELSE WithBuffer(st1, b)
        /\ buf' = st2.buf /\ max_block_num' = st2.max
        /\ output' = st2.output /\ status' = st2.status
        /\ past_end' = past_end

\* Every call goes through such stages.
LEMMA HandlerStages ==
    ASSUME NEW seq, NEW crc, NEW pay, process_video_payload(seq, crc, pay)
    PROVE  \E st1, b, st2 : Stages(seq, crc, pay, st1, b, st2)
<1> DEFINE blk == BlockOf(seq)
           r   == TxRestart(blk)
           Final(st) == /\ buf' = st.buf /\ max_block_num' = st.max
                        /\ output' = st.output /\ status' = st.status
                        /\ past_end' = past_end
           S2(st, b) == IF (IF Uint(st.buf.block_num) = blk
                            THEN b.packet_buffer_len ELSE past_end) = BlockSize /\ crc
                        THEN MakeRoom(WithBuffer(st, b), WrapUint(blk + 1), r)
                        ELSE WithBuffer(st, b)
           S1(st) == IF Uint(st.buf.block_num) = blk
                     THEN Store(st.buf, PacketNum(seq), crc, pay) ELSE st.buf
<1>1. PICK st1 \in {IF (NewerBlock(blk) \/ r) /\ crc
                    THEN MakeRoom(Current, blk, r) ELSE Current} :
        \E b \in {S1(st1)} : \E st2 \in {S2(st1, b)} : Final(st2)
  BY DEF process_video_payload, Holds, Current, WithBuffer
<1>2. PICK b \in {S1(st1)} : \E st2 \in {S2(st1, b)} : Final(st2)
  BY <1>1
<1>3. PICK st2 \in {S2(st1, b)} : Final(st2)
  BY <1>2
<1>4. Stages(seq, crc, pay, st1, b, st2)
  BY <1>1, <1>2, <1>3 DEF Stages
<1> QED
  BY <1>4

\* What the stages compute with: block numbers, flags and the current state.
LEMMA HandlerInputs ==
    ASSUME GndTypeOK, NEW seq \in Seqs
    PROVE  /\ BlockOf(seq) \in Seqs /\ WrapUint(BlockOf(seq) + 1) \in Seqs
           /\ PacketNum(seq) \in Slots /\ TxRestart(BlockOf(seq)) \in BOOLEAN
           /\ Current \in HandlerStates
<1>1. BlockOf(seq) \in Seqs /\ PacketNum(seq) \in Slots
  BY SeqSplit
<1>2. \A u \in Seqs : WrapUint(u + 1) \in Seqs
  BY BlockAssumption DEF Seqs, WrapUint
<1>3. TxRestart(BlockOf(seq)) \in BOOLEAN
  BY DEF TxRestart
<1>4. Current \in HandlerStates
  BY DEF GndTypeOK, HandlerStates, OutputEntries, Current
<1> QED
  BY <1>1, <1>2, <1>3, <1>4

\* The stages are well typed, whatever the past-end word is.
LEMMA StagesType ==
    ASSUME GndTypeOK, NEW seq \in Seqs, NEW crc \in BOOLEAN, NEW pay \in Payloads,
           NEW st1, NEW b, NEW st2, Stages(seq, crc, pay, st1, b, st2)
    PROVE  st1 \in HandlerStates /\ b \in BlockBuffers
           /\ WithBuffer(st1, b) \in HandlerStates /\ st2 \in HandlerStates
<1>1. st1 \in HandlerStates
  BY HandlerInputs, MakeRoomFacts DEF Stages
<1>2. b \in BlockBuffers
  BY <1>1, HandlerInputs, StoreFacts DEF Stages, HandlerStates
<1>3. WithBuffer(st1, b) \in HandlerStates
  BY <1>1, <1>2 DEF HandlerStates, WithBuffer
<1>4. st2 \in HandlerStates
  BY <1>3, HandlerInputs, MakeRoomFacts DEF Stages
<1> QED
  BY <1>1, <1>2, <1>3, <1>4

\* process_video_payload keeps the types.
LEMMA HandlerType ==
    ASSUME GndTypeOK, NEW seq \in Seqs, NEW crc \in BOOLEAN, NEW pay \in Payloads,
           process_video_payload(seq, crc, pay)
    PROVE  GndTypeOK'
<1>1. PICK st1, b, st2 : Stages(seq, crc, pay, st1, b, st2)
  BY HandlerStages
<1>2. st2 \in HandlerStates
  BY <1>1, StagesType
<1> QED
  BY <1>1, <1>2 DEF GndTypeOK, HandlerStates, OutputEntries, Stages

-----------------------------------------------------------------------------
(* What the block buffer holds and what is published of it.                *)

Empty(b) == (\A p \in Slots : ~b.slots[p].valid) /\ b.packet_buffer_len = 0

\* A set B of buffers is kept by a call if it contains the empty buffers of
\* the packet's block and of the next one, and if storing the packet in the
\* buffer of its block does not leave B; then buffers in B are published.
KeptBy(B, seq, crc, pay) ==
    /\ B \subseteq BlockBuffers
    /\ \A b \in B : EmptyIfUnused(b)
    /\ \A b \in BlockBuffers :
          /\ Empty(b)
          /\ b.block_num \in {Int32(BlockOf(seq)), Int32(WrapUint(BlockOf(seq) + 1))}
          => b \in B
    /\ \A b \in B : b.block_num # -1 /\ Uint(b.block_num) = BlockOf(seq)
          => Store(b, PacketNum(seq), crc, pay) \in B

\* The entries that a call adds to the output report a restart or a buffer in B.
NewEntries(out, new, B) ==
    \A i \in 1 .. Len(new) :
        \/ i \in 1 .. Len(out) /\ new[i] = out[i]
        \/ new[i] = RestartEntry
        \/ \E b \in B : b.block_num # -1 /\ new[i] = BlockEntry(b)

\* Making room leaves an empty buffer and adds such entries.
LEMMA MakeRoomBuffer ==
    ASSUME NEW st \in HandlerStates, NEW n \in Seqs, NEW r \in BOOLEAN,
           NEW B, st.buf \in B, EmptyIfUnused(st.buf),
           \A b \in BlockBuffers : Empty(b) /\ b.block_num = Int32(n) => b \in B,
           NEW out, NewEntries(out, st.output, B),
           NEW m, m = MakeRoom(st, n, r)
    PROVE  m.buf \in B /\ NewEntries(out, m.output, B)
<1>1. /\ m \in HandlerStates /\ m.buf.block_num = Int32(n) /\ m.buf.packet_buffer_len = 0
      /\ \A p \in Slots : ~m.buf.slots[p].valid
      /\ r => m.output = Append(st.output, RestartEntry)
      /\ ~r /\ st.buf.block_num # -1 => m.output = Append(st.output, BlockEntry(st.buf))
      /\ ~r /\ st.buf.block_num = -1 => m.output = st.output
  BY MakeRoomFacts
<1>2. m.buf \in B
  BY <1>1 DEF HandlerStates, Empty
<1>3. ASSUME NEW e, e = RestartEntry \/ \E b \in B : b.block_num # -1 /\ e = BlockEntry(b)
      PROVE  NewEntries(out, Append(st.output, e), B)
  <2>1. st.output \in Seq(OutputEntries)
    BY DEF HandlerStates
  <2> DEFINE new == Append(st.output, e)
  <2>2. /\ Len(st.output) \in Nat /\ Len(new) = Len(st.output) + 1
        /\ new[Len(st.output) + 1] = e
        /\ \A i \in 1 .. Len(st.output) : new[i] = st.output[i]
    BY <2>1
  <2> HIDE DEF new
  <2>3. \A i \in 1 .. Len(new) : i \in 1 .. Len(st.output) \/ i = Len(st.output) + 1
    BY <2>2
  <2>4. NewEntries(out, new, B)
    BY <1>3, <2>2, <2>3 DEF NewEntries
  <2> QED
    BY <2>4 DEF new
<1>4. CASE r
  BY <1>1, <1>2, <1>3, <1>4
<1>5. CASE ~r /\ st.buf.block_num # -1
  BY <1>1, <1>2, <1>3, <1>5
<1>6. CASE ~r /\ st.buf.block_num = -1
  BY <1>1, <1>2, <1>6
<1> QED
  BY <1>4, <1>5, <1>6

\* A call keeps the block buffer in B and publishes buffers in B only.
LEMMA HandlerBuffer ==
    ASSUME BlockSize >= 2, GndTypeOK,
           NEW seq \in Seqs, NEW crc \in BOOLEAN, NEW pay \in Payloads,
           process_video_payload(seq, crc, pay),
           NEW B, buf \in B, KeptBy(B, seq, crc, pay)
    PROVE  buf' \in B /\ NewEntries(output, output', B)
<1>1. PICK st1, b, st2 : Stages(seq, crc, pay, st1, b, st2)
  BY HandlerStages
<1> DEFINE blk  == BlockOf(seq)
           next == WrapUint(blk + 1)
           r    == TxRestart(blk)
           kept == WithBuffer(st1, b)
<1>2. blk \in Seqs /\ blk # UintRange - 1 /\ next \in Seqs /\ r \in BOOLEAN
      /\ Current \in HandlerStates
  BY SeqSplit, BlockAssumption, HandlerInputs DEF Seqs
<1>3. \A c \in BlockBuffers : Empty(c) /\ c.block_num \in {Int32(blk), Int32(next)} => c \in B
  BY DEF KeptBy
<1>4. \A c \in B : EmptyIfUnused(c)
  BY DEF KeptBy
<1>5. st1.buf \in B /\ NewEntries(output, st1.output, B)
  <2>1. CASE st1 = Current
    BY <2>1 DEF Current, NewEntries
  <2>2. CASE st1 = MakeRoom(Current, blk, r)
    <3>1. Current.buf \in B /\ NewEntries(output, Current.output, B)
      BY DEF Current, NewEntries
    <3> HIDE DEF blk, r
    <3> QED
      BY <1>2, <1>3, <1>4, <2>2, <3>1, MakeRoomBuffer
  <2> QED
    BY <1>1, <2>1, <2>2 DEF Stages
<1>6. b \in B
  <2>1. CASE b = st1.buf
    BY <1>5, <2>1
  <2>2. CASE Uint(st1.buf.block_num) = blk /\ b = Store(st1.buf, PacketNum(seq), crc, pay)
    <3>1. st1.buf.block_num # -1
      BY <1>2, <2>2, MinusOne
    <3> QED
      BY <1>5, <2>2, <3>1 DEF KeptBy
  <2> QED
    BY <1>1, <2>1, <2>2 DEF Stages
<1>7. st2.buf \in B /\ NewEntries(output, st2.output, B)
  <2>1. kept.buf \in B /\ kept \in HandlerStates /\ NewEntries(output, kept.output, B)
    BY <1>1, <1>5, <1>6, StagesType DEF WithBuffer
  <2>2. st2 = kept \/ st2 = MakeRoom(kept, next, r)
    BY <1>1 DEF Stages
  <2> HIDE DEF kept, next, r
  <2> QED
    BY <1>2, <1>3, <1>4, <2>1, <2>2, MakeRoomBuffer
<1> QED
  BY <1>1, <1>7 DEF Stages

-----------------------------------------------------------------------------
(* Blocks are not mixed up.                                                *)

\* The encoded blocks with a block number, of any run of the transmitter.
OriginsOf(n) == {o \in [ep : Int, blk : Nat] : o.blk % BlocksPerRange = Uint(n)}

\* An intact packet of a buffer belongs to the buffer's block and sits at its
\* place, a damaged one holds junk.  A buffer without a block is handed over
\* without being cleared, so it has to be empty.
OwnBuffers ==
    {b \in BlockBuffers : EmptyIfUnused(b) /\ HoldsOnly(b.slots, OriginsOf(b.block_num))}

OwnEntry(e) ==
    IsBlock(e) => \A d \in DataIdx :
        \/ e.items[d] \in {NotPublished, Junk}
        \/ InPlace(e.items[d], e.blk, DataSlot(d))

\* SlotsHoldOwnBlock and PublishesOwnBlock with what makes them inductive.
OwnInv ==
    /\ GndTypeOK
    /\ buf \in OwnBuffers
    /\ \A i \in 1 .. Len(output) : OwnEntry(output[i])

\* The flags of a buffer are flags.
LEMMA BufferFlags ==
    ASSUME NEW b \in BlockBuffers
    PROVE  Flagged(b.slots) /\ \A p \in Slots : b.slots[p] \in PacketSlots
BY DEF BlockBuffers, PacketSlots, Flagged

\* An empty buffer has no packet of another block.
LEMMA EmptyIsOwn ==
    ASSUME NEW b \in BlockBuffers, Empty(b)
    PROVE  b \in OwnBuffers
BY BufferFlags DEF OwnBuffers, Empty, EmptyIfUnused, HoldsOnly, Good, Corrupt

\* Storing a packet of one of the blocks, or a damaged one that is junk, keeps
\* what a buffer holds.
LEMMA StoreHolds ==
    ASSUME NEW b \in BlockBuffers, NEW O, HoldsOnly(b.slots, O),
           NEW p \in Slots, NEW crc \in BOOLEAN, NEW pay \in Payloads,
           IF crc THEN \E o \in O : pay = [org |-> o, pos |-> p] ELSE pay = Junk
    PROVE  HoldsOnly(Store(b, p, crc, pay).slots, O)
<1> DEFINE s == Store(b, p, crc, pay)
<1>1. s \in BlockBuffers
  BY StoreFacts
<1>2. ASSUME NEW q \in Slots
      PROVE  \/ s.slots[q] = b.slots[q]
             \/ q = p /\ s.slots[q] = [valid |-> TRUE, crc |-> crc, data |-> pay]
  BY <1>2 DEF Store, BlockBuffers
<1> HIDE DEF s
<1>3. Flagged(s.slots)
  BY <1>1, BufferFlags
<1>4. ASSUME NEW q \in Slots
      PROVE  /\ Good(s.slots[q]) => \E o \in O : s.slots[q].data = [org |-> o, pos |-> q]
             /\ Corrupt(s.slots[q]) => s.slots[q].data = Junk
  <2>1. CASE s.slots[q] = b.slots[q]
    BY <2>1 DEF HoldsOnly
  <2>2. CASE q = p /\ s.slots[q] = [valid |-> TRUE, crc |-> crc, data |-> pay]
    BY <2>2 DEF Good, Corrupt
  <2> QED
    BY <1>2, <2>1, <2>2
<1> QED
  BY <1>3, <1>4 DEF HoldsOnly, s

\* If an intact packet is what its sequence number says, and a damaged one is
\* junk, storing it keeps the buffer's own.
LEMMA StoreOwn ==
    ASSUME NEW b \in OwnBuffers, NEW p \in Slots, NEW crc \in BOOLEAN, NEW pay \in Payloads,
           b.block_num # -1,
           IF crc THEN \E o \in OriginsOf(b.block_num) : pay = [org |-> o, pos |-> p]
                  ELSE pay = Junk
    PROVE  Store(b, p, crc, pay) \in OwnBuffers
<1>1. b \in BlockBuffers /\ HoldsOnly(b.slots, OriginsOf(b.block_num))
  BY DEF OwnBuffers
<1>2. Store(b, p, crc, pay) \in BlockBuffers /\ Store(b, p, crc, pay).block_num = b.block_num
  BY <1>1, StoreFacts
<1>3. HoldsOnly(Store(b, p, crc, pay).slots, OriginsOf(b.block_num))
  BY <1>1, StoreHolds
<1> QED
  BY <1>2, <1>3 DEF OwnBuffers, EmptyIfUnused

\* What is published of such a buffer belongs to its block.
LEMMA EntryOwn ==
    ASSUME NEW b \in OwnBuffers
    PROVE  OwnEntry(BlockEntry(b))
<1> DEFINE O == OriginsOf(b.block_num)
<1>1. NoOrigin \notin O
  BY DEF NoOrigin, OriginsOf
<1>2. HoldsOnly(b.slots, O)
  BY DEF OwnBuffers
<1>3. ASSUME NEW d \in DataIdx, NEW it, it = PublishedItems(b.slots)[d]
      PROVE  it \in {NotPublished, Junk} \/ InPlace(it, b.block_num, DataSlot(d))
  <2>1. it \in {Junk, NotPublished} \/ \E o \in O : it = [org |-> o, pos |-> DataSlot(d)]
    <3> HIDE DEF O
    <3> QED
      BY <1>1, <1>2, <1>3, PublishedOwn
  <2>2. ASSUME NEW o \in O, it = [org |-> o, pos |-> DataSlot(d)]
        PROVE  InPlace(it, b.block_num, DataSlot(d))
    BY <2>2 DEF OriginsOf, InPlace
  <2> QED
    BY <2>1, <2>2
<1>4. BlockEntry(b).items = PublishedItems(b.slots) /\ BlockEntry(b).blk = b.block_num
  BY DEF BlockEntry
<1> QED
  BY <1>3, <1>4 DEF OwnEntry

\* If an intact packet is what its sequence number says, the call keeps OwnInv.
LEMMA HandlerOwn ==
    ASSUME BlockSize >= 2,
           OwnInv, NEW seq \in Seqs, NEW crc \in BOOLEAN, NEW pay \in Payloads,
           crc => /\ pay.pos = PacketNum(seq) /\ pay.org.blk \in Nat
                  /\ pay.org.blk % BlocksPerRange = BlockOf(seq),
           ~crc => pay = Junk,
           process_video_payload(seq, crc, pay)
    PROVE  OwnInv'
<1>1. GndTypeOK /\ GndTypeOK' /\ buf \in OwnBuffers
  BY HandlerType DEF OwnInv
<1>2. PacketNum(seq) \in Slots
  BY SeqSplit
<1>3. KeptBy(OwnBuffers, seq, crc, pay)
  <2>1. \A b \in OwnBuffers : b \in BlockBuffers /\ EmptyIfUnused(b)
    BY DEF OwnBuffers
  <2>2. ASSUME NEW b \in OwnBuffers, b.block_num # -1, Uint(b.block_num) = BlockOf(seq)
        PROVE  Store(b, PacketNum(seq), crc, pay) \in OwnBuffers
    <3>1. ASSUME crc
          PROVE  /\ pay.org \in OriginsOf(b.block_num)
                 /\ pay = [org |-> pay.org, pos |-> PacketNum(seq)]
      BY <2>2, <3>1 DEF Payloads, OriginsOf
    <3> QED
      BY <1>2, <2>2, <3>1, StoreOwn
  <2> QED
    BY <2>1, <2>2, EmptyIsOwn DEF KeptBy
<1>4. buf' \in OwnBuffers /\ NewEntries(output, output', OwnBuffers)
  BY <1>1, <1>3, HandlerBuffer
<1>5. \A i \in 1 .. Len(output') : OwnEntry(output'[i])
  <2>1. OwnEntry(RestartEntry)
    BY DEF OwnEntry, IsBlock, RestartEntry
  <2> QED
    BY <1>4, <2>1, EntryOwn DEF NewEntries, OwnInv
<1>6. (buf \in OwnBuffers)'
  BY <1>4 DEF OwnBuffers
<1>7. (\A i \in 1 .. Len(output) : OwnEntry(output[i]))'
  BY <1>5 DEF OwnEntry
<1> QED
  BY <1>1, <1>6, <1>7 DEF OwnInv

-----------------------------------------------------------------------------
(* As long as no packet arrives damaged: packet_buffer_len.                *)

ValidSlots(ps) == {p \in Slots : ps[p].valid}

\* No packet buffer holds a damaged packet, and the length counts the others.
CountedBuffers ==
    {b \in BlockBuffers : /\ EmptyIfUnused(b)
                          /\ \A p \in Slots : b.slots[p].valid => b.slots[p].crc
                          /\ b.packet_buffer_len = Cardinality(ValidSlots(b.slots))}

\* An empty buffer counts nothing.
LEMMA EmptyIsCounted ==
    ASSUME NEW b \in BlockBuffers, Empty(b)
    PROVE  b \in CountedBuffers
<1>1. ValidSlots(b.slots) = {}
  BY DEF ValidSlots, Empty
<1>2. Cardinality(ValidSlots(b.slots)) = 0
  BY <1>1, FS_EmptySet
<1> QED
  BY <1>2 DEF CountedBuffers, Empty, EmptyIfUnused

\* An intact packet is counted when it is stored, and only once.
LEMMA StoreCounted ==
    ASSUME NEW b \in CountedBuffers, NEW p \in Slots, NEW pay \in Payloads, b.block_num # -1
    PROVE  Store(b, p, TRUE, pay) \in CountedBuffers
<1>1. /\ b \in BlockBuffers /\ b.slots \in [Slots -> PacketSlots]
      /\ \A q \in Slots : b.slots[q].valid => b.slots[q].crc
      /\ b.packet_buffer_len = Cardinality(ValidSlots(b.slots))
  BY DEF CountedBuffers, BlockBuffers
<1>2. CASE b.slots[p].crc
  BY <1>2 DEF Store
<1>3. CASE ~b.slots[p].crc
  <2> DEFINE slot == [valid |-> TRUE, crc |-> TRUE, data |-> pay]
             s == Store(b, p, TRUE, pay)
  <2>1. /\ s.block_num = b.block_num /\ s.packet_buffer_len = b.packet_buffer_len + 1
        /\ s.slots = [b.slots EXCEPT ![p] = slot]
    BY <1>3 DEF Store
  <2>2. s \in BlockBuffers
    BY <1>1, StoreFacts
  <2> HIDE DEF s
  <2>3. /\ s.slots[p].valid /\ s.slots[p].crc
        /\ \A q \in Slots : q # p => s.slots[q] = b.slots[q]
    BY <1>1, <2>1
  <2>4. ValidSlots(s.slots) = ValidSlots(b.slots) \cup {p} /\ p \notin ValidSlots(b.slots)
    BY <1>1, <1>3, <2>3 DEF ValidSlots
  <2>5. IsFiniteSet(ValidSlots(b.slots))
    BY IndexFinite DEF ValidSlots
  <2>6. Cardinality(ValidSlots(s.slots)) = Cardinality(ValidSlots(b.slots)) + 1
    BY <2>4, <2>5, FS_AddElement
  <2>7. \A q \in Slots : s.slots[q].valid => s.slots[q].crc
    BY <1>1, <2>3
  <2> QED
    BY <1>1, <2>1, <2>2, <2>6, <2>7 DEF CountedBuffers, EmptyIfUnused, s
<1> QED
  BY <1>2, <1>3

\* A call with an intact packet keeps the length right.
LEMMA HandlerCounted ==
    ASSUME BlockSize >= 2, GndTypeOK, buf \in CountedBuffers,
           NEW seq \in Seqs, NEW pay \in Payloads,
           process_video_payload(seq, TRUE, pay)
    PROVE  (buf \in CountedBuffers)'
<1>1. PacketNum(seq) \in Slots
  BY SeqSplit
<1>2. \A b \in CountedBuffers : b \in BlockBuffers /\ EmptyIfUnused(b)
  BY DEF CountedBuffers
<1>3. KeptBy(CountedBuffers, seq, TRUE, pay)
  BY <1>1, <1>2, EmptyIsCounted, StoreCounted DEF KeptBy
<1>4. buf' \in CountedBuffers
  BY <1>3, HandlerBuffer
<1> QED
  BY <1>4 DEF CountedBuffers

-----------------------------------------------------------------------------
(* As long as no packet arrives damaged and the transmitter runs through:  *)
(* a block that is not counted as damaged is published intact.             *)

FirstRun(n) == [ep |-> 0, blk |-> n]

\* A buffer holds packets of its block of the first run, none of them damaged.
IntactBuffers ==
    {b \in BlockBuffers :
        /\ EmptyIfUnused(b)
        /\ b.block_num = -1 \/ b.block_num \in Nat
        /\ \A p \in Slots : b.slots[p].valid =>
              b.slots[p].crc /\ b.slots[p].data = [org |-> FirstRun(b.block_num), pos |-> p]}

IntactEntry(e) ==
    IsBlock(e) /\ ~e.damaged => \A d \in DataIdx :
        e.items[d] = [org |-> FirstRun(e.blk), pos |-> DataSlot(d)]

\* Storing a packet of the buffer's block.
LEMMA StoreIntact ==
    ASSUME NEW b \in IntactBuffers, NEW p \in Slots, b.block_num # -1,
           NEW pay \in Payloads, pay = [org |-> FirstRun(b.block_num), pos |-> p]
    PROVE  Store(b, p, TRUE, pay) \in IntactBuffers
<1> DEFINE s == Store(b, p, TRUE, pay)
<1>1. b \in BlockBuffers
  BY DEF IntactBuffers
<1>2. s \in BlockBuffers /\ s.block_num = b.block_num
  BY <1>1, StoreFacts
<1>3. ASSUME NEW q \in Slots
      PROVE  \/ s.slots[q] = b.slots[q]
             \/ q = p /\ s.slots[q] = [valid |-> TRUE, crc |-> TRUE, data |-> pay]
  BY <1>1, <1>3 DEF Store, BlockBuffers
<1> HIDE DEF s
<1>4. ASSUME NEW q \in Slots, s.slots[q].valid
      PROVE  s.slots[q].crc /\ s.slots[q].data = [org |-> FirstRun(b.block_num), pos |-> q]
  <2>1. CASE s.slots[q] = b.slots[q]
    BY <1>4, <2>1 DEF IntactBuffers
  <2>2. CASE q = p /\ s.slots[q] = [valid |-> TRUE, crc |-> TRUE, data |-> pay]
    BY <2>2
  <2> QED
    BY <1>3, <2>1, <2>2
<1> QED
  BY <1>2, <1>4 DEF IntactBuffers, EmptyIfUnused, s

\* What is published of such a buffer is damaged or intact.
LEMMA EntryIntact ==
    ASSUME NEW b \in IntactBuffers, b.block_num # -1
    PROVE  IntactEntry(BlockEntry(b))
<1> DEFINE o == FirstRun(b.block_num)
<1>1. /\ BlockEntry(b).items = PublishedItems(b.slots) /\ BlockEntry(b).blk = b.block_num
      /\ BlockEntry(b).damaged = Damaged(b.slots)
  BY DEF BlockEntry
<1>2. SUFFICES ASSUME ~Damaged(b.slots), NEW d \in DataIdx
               PROVE  PublishedItems(b.slots)[d] = [org |-> o, pos |-> DataSlot(d)]
  BY <1>1 DEF IntactEntry
<1>3. b \in BlockBuffers /\ b.block_num \in Nat
  BY DEF IntactBuffers
<1>4. o # NoOrigin
  BY <1>3 DEF NoOrigin, FirstRun
<1> HIDE DEF o
<1>5. \A p \in Slots : b.slots[p].valid =>
          b.slots[p].crc /\ b.slots[p].data = [org |-> o, pos |-> p]
  BY DEF IntactBuffers, o
<1>6. HoldsOnly(b.slots, {o})
  BY <1>3, <1>5, BufferFlags DEF HoldsOnly, Good, Corrupt
<1>7. NoCorruptFecs(b.slots)
  BY <1>5, SlotRange DEF NoCorruptFecs, Corrupt
<1>8. ~ReconstructionFailed(b.slots)
  <2>1. /\ DatasMissing(b.slots) \in Nat /\ DatasCorrupt(b.slots) \in Nat
        /\ GoodFecs(b.slots) \in Nat
    BY IndexFinite DEF DatasMissing, DatasCorrupt, GoodFecs
  <2> QED
    BY <1>2, <2>1 DEF Damaged, NeedsFec, ReconstructionFailed
<1> QED
  BY <1>4, <1>6, <1>7, <1>8, PublishedIntact

\* A call with an intact packet of the first run keeps all that.
LEMMA HandlerIntact ==
    ASSUME BlockSize >= 2, GndTypeOK, buf \in IntactBuffers,
           \A i \in 1 .. Len(output) : IntactEntry(output[i]),
           NEW seq \in Seqs, NEW pay \in Payloads, 2 * (BlockOf(seq) + 1) < UintRange,
           pay = [org |-> FirstRun(BlockOf(seq)), pos |-> PacketNum(seq)],
           process_video_payload(seq, TRUE, pay)
    PROVE  /\ (buf \in IntactBuffers)'
           /\ (\A i \in 1 .. Len(output) : IntactEntry(output[i]))'
<1> DEFINE blk == BlockOf(seq)
<1>1. PacketNum(seq) \in Slots /\ blk \in Nat /\ WrapUint(blk + 1) = blk + 1
  BY SeqSplit, BlockNumbers
<1>2. Int32(blk) = blk /\ Int32(blk + 1) = blk + 1
  BY <1>1, BlockAssumption DEF Int32
<1>3. KeptBy(IntactBuffers, seq, TRUE, pay)
  <2>1. \A b \in IntactBuffers : b \in BlockBuffers /\ EmptyIfUnused(b)
    BY DEF IntactBuffers
  <2>2. ASSUME NEW b \in BlockBuffers, Empty(b), b.block_num \in {Int32(blk), Int32(blk + 1)}
        PROVE  b \in IntactBuffers
    BY <1>1, <1>2, <2>2 DEF IntactBuffers, Empty, EmptyIfUnused
  <2>3. ASSUME NEW b \in IntactBuffers, b.block_num # -1, Uint(b.block_num) = blk
        PROVE  Store(b, PacketNum(seq), TRUE, pay) \in IntactBuffers
    <3>1. b.block_num = blk
      BY <2>3, BlockAssumption DEF IntactBuffers, Uint
    <3> QED
      BY <1>1, <2>3, <3>1, StoreIntact
  <2> QED
    BY <1>1, <2>1, <2>2, <2>3 DEF KeptBy
<1>4. buf' \in IntactBuffers /\ NewEntries(output, output', IntactBuffers)
  BY <1>3, HandlerBuffer
<1>5. \A i \in 1 .. Len(output') : IntactEntry(output'[i])
  <2>1. IntactEntry(RestartEntry)
    BY DEF IntactEntry, IsBlock, RestartEntry
  <2> QED
    BY <1>4, <2>1, EntryIntact DEF NewEntries
<1> QED
  BY <1>4, <1>5 DEF IntactBuffers, IntactEntry

-----------------------------------------------------------------------------
(* The three outcomes of a call, for blocks of at least two packets and a  *)
(* past-end word that is not taken for a full buffer.                      *)

Stored(seq, crc, pay, b) == Store(b, PacketNum(seq), crc, pay)

BecomesState(st) ==
    buf' = st.buf /\ max_block_num' = st.max /\ output' = st.output /\ status' = st.status

\* The packet is stored in the buffer of its block, or it is ignored.
JustStores(seq, crc, pay) ==
    LET blk == BlockOf(seq)
    IN  /\ ~((NewerBlock(blk) \/ TxRestart(blk)) /\ crc)
        /\ buf' = IF Uint(buf.block_num) = blk THEN Stored(seq, crc, pay, buf) ELSE buf
        /\ max_block_num' = max_block_num /\ output' = output /\ status' = status

\* The packet opens a new block.
OpensBlock(seq, crc, pay) ==
    LET blk == BlockOf(seq)
        r   == TxRestart(blk)
        m   == MakeRoom(Current, blk, r)
    IN  /\ crc /\ (NewerBlock(blk) \/ r)
        /\ ~r => max_block_num # -1 /\ Uint(max_block_num) < blk
        /\ BecomesState(WithBuffer(m, Stored(seq, crc, pay, m.buf)))

\* The packet completes its block, which is published.
CompletesBlock(seq, crc, pay) ==
    LET blk == BlockOf(seq)
    IN  /\ crc /\ ~TxRestart(blk)
        /\ max_block_num # -1 /\ Uint(max_block_num) = blk
        /\ BecomesState(MakeRoom(WithBuffer(Current, Stored(seq, crc, pay, buf)), blk + 1, FALSE))

\* Every call has one of these outcomes.
LEMMA HandlerCases ==
    ASSUME BlockSize >= 2, BlockSize \notin PastEndWords,
           GndTypeOK, buf.block_num = max_block_num,
           NEW seq \in Seqs, NEW crc \in BOOLEAN, NEW pay \in Payloads,
           process_video_payload(seq, crc, pay)
    PROVE  \/ JustStores(seq, crc, pay)
           \/ OpensBlock(seq, crc, pay)
           \/ CompletesBlock(seq, crc, pay)
<1>1. PICK st1, b, st2 : Stages(seq, crc, pay, st1, b, st2)
  BY HandlerStages
<1> DEFINE blk == BlockOf(seq)
           r   == TxRestart(blk)
<1>2. /\ blk \in Seqs /\ blk \in Nat /\ blk # UintRange - 1 /\ WrapUint(blk + 1) = blk + 1
  BY BlockNumbers
<1>3. /\ Current.buf = buf /\ Current.max = max_block_num /\ Current.output = output
      /\ Current.status = status
      /\ Current \in HandlerStates /\ PacketNum(seq) \in Slots /\ r \in BOOLEAN
  BY HandlerInputs DEF Current
<1>4. st1 \in HandlerStates /\ b \in BlockBuffers
  BY <1>1, StagesType
<1>5. BecomesState(st2)
  BY <1>1 DEF Stages, BecomesState
<1>6. max_block_num \in Int /\ past_end # BlockSize /\ UintRange \in Nat
  BY BlockAssumption DEF GndTypeOK
<1>7. CASE (NewerBlock(blk) \/ r) /\ crc
  <2> DEFINE m == MakeRoom(Current, blk, r)
  <2>1. st1 = m
    BY <1>1, <1>7 DEF Stages
  <2>2. ~r => max_block_num # -1 /\ Uint(max_block_num) < blk
    <3> SUFFICES ASSUME ~r PROVE max_block_num # -1 /\ Uint(max_block_num) < blk
      OBVIOUS
    <3>1. Uint(max_block_num) \in Int /\ Uint(max_block_num) < blk
      BY <1>2, <1>6, <1>7 DEF NewerBlock, Uint, Seqs
    <3> QED
      BY <3>1, <1>2, <1>6, MinusOne DEF Seqs
  <2>3. m.buf.block_num = Int32(blk) /\ m.buf.packet_buffer_len = 0 /\ m.buf \in BlockBuffers
    BY <1>2, <1>3, MakeRoomFacts DEF HandlerStates
  <2> HIDE DEF m
  <2>4. b = Stored(seq, crc, pay, m.buf)
    BY <1>1, <1>2, <2>1, <2>3, IntRoundTrip DEF Stages, Stored
  <2>5. b.packet_buffer_len # BlockSize
    <3>1. b.packet_buffer_len \in {0, 0 + 1}
      BY <1>3, <2>3, <2>4, StoreFacts DEF Stored
    <3> QED
      BY <3>1
  <2>6. st2 = WithBuffer(m, b)
    BY <1>1, <1>2, <2>1, <2>3, <2>5, IntRoundTrip DEF Stages
  <2>7. OpensBlock(seq, crc, pay)
    BY <1>5, <1>7, <2>2, <2>4, <2>6 DEF OpensBlock, m
  <2> QED
    BY <2>7
<1>8. CASE ~((NewerBlock(blk) \/ r) /\ crc)
  <2>1. st1 = Current
    BY <1>1, <1>8 DEF Stages
  <2>2. b = IF Uint(buf.block_num) = blk THEN Stored(seq, crc, pay, buf) ELSE buf
    BY <1>1, <1>3, <2>1 DEF Stages, Stored
  <2>3. CASE st2 = WithBuffer(st1, b)
    <3>1. st2.buf = b /\ st2.max = max_block_num /\ st2.output = output /\ st2.status = status
      BY <1>3, <2>1, <2>3 DEF WithBuffer
    <3>2. JustStores(seq, crc, pay)
      BY <1>5, <1>8, <2>2, <3>1 DEF JustStores, BecomesState
    <3> QED
      BY <3>2
  <2>4. CASE st2 # WithBuffer(st1, b)
    <3>1. /\ Uint(buf.block_num) = blk /\ crc
          /\ st2 = MakeRoom(WithBuffer(Current, b), blk + 1, r)
      BY <1>1, <1>2, <1>3, <1>6, <2>1, <2>4 DEF Stages
    <3>2. ~r /\ max_block_num # -1 /\ Uint(max_block_num) = blk
      BY <1>2, <1>8, <3>1, MinusOne
    <3>3. r = FALSE
      BY <1>3, <3>2
    <3>4. CompletesBlock(seq, crc, pay)
      BY <1>5, <2>2, <3>1, <3>2, <3>3 DEF CompletesBlock
    <3> QED
      BY <3>4
  <2> QED
    BY <2>3, <2>4
<1> QED
  BY <1>7, <1>8

-----------------------------------------------------------------------------
(* The order of the output.                                                *)

Ordered(out) ==
    \A i \in 1 .. Len(out) - 1 :
        IsBlock(out[i]) /\ IsBlock(out[i + 1]) => Uint(out[i].blk) < Uint(out[i + 1].blk)

\* The block published last, if any since the last restart, is older than the
\* newest block m.
LastOlder(out, m) ==
    Len(out) > 0 /\ IsBlock(out[Len(out)]) => m # -1 /\ Uint(out[Len(out)].blk) < Uint(m)

\* OutputInOrder with what makes it inductive: the buffer always belongs to the
\* newest block, whose number stays in the lower half of the unsigned range (so
\* that it is never mistaken for -1), and what was published is older.
OrderInv ==
    /\ GndTypeOK
    /\ buf.block_num = max_block_num
    /\ max_block_num = -1 \/ 2 * Uint(max_block_num) <= UintRange
    /\ LastOlder(output, max_block_num)
    /\ Ordered(output)

\* Appending a restart, or a block newer than the last one, keeps the order.
LEMMA AppendOrdered ==
    ASSUME NEW out \in Seq(OutputEntries), Ordered(out), NEW e \in OutputEntries,
           \/ ~IsBlock(e)
           \/ Len(out) > 0 /\ IsBlock(out[Len(out)]) => Uint(out[Len(out)].blk) < Uint(e.blk)
    PROVE  Ordered(Append(out, e))
<1> DEFINE new == Append(out, e)
<1>1. /\ Len(out) \in Nat /\ Len(new) = Len(out) + 1 /\ new[Len(out) + 1] = e
      /\ \A i \in 1 .. Len(out) : new[i] = out[i]
  OBVIOUS
<1> HIDE DEF new
<1> SUFFICES ASSUME NEW i \in 1 .. Len(new) - 1, IsBlock(new[i]), IsBlock(new[i + 1])
             PROVE  Uint(new[i].blk) < Uint(new[i + 1].blk)
  BY DEF Ordered, new
<1>2. CASE i < Len(out)
  <2>1. i \in 1 .. Len(out) - 1 /\ new[i] = out[i] /\ new[i + 1] = out[i + 1]
    BY <1>1, <1>2
  <2> QED
    BY <2>1 DEF Ordered
<1>3. CASE i = Len(out)
  <2>1. new[i] = out[Len(out)] /\ new[i + 1] = e /\ Len(out) > 0
    BY <1>1, <1>3
  <2> QED
    BY <2>1
<1> QED
  BY <1>1, <1>2, <1>3

\* The last entry of an extended output.
LEMMA AppendLast ==
    ASSUME NEW out \in Seq(OutputEntries), NEW e \in OutputEntries
    PROVE  Append(out, e)[Len(Append(out, e))] = e
OBVIOUS

\* Making room for a newer block keeps order and window, and so does making
\* room after a restart.
LEMMA MakeRoomOrder ==
    ASSUME NEW st \in HandlerStates, NEW blk \in Seqs, NEW r \in BOOLEAN,
           2 * blk <= UintRange,
           st.buf.block_num = st.max,
           Ordered(st.output), LastOlder(st.output, st.max),
           ~r => st.max # -1 /\ Uint(st.max) < blk,
           NEW m, m = MakeRoom(st, blk, r)
    PROVE  /\ m.buf.block_num = m.max /\ m.max # -1 /\ Uint(m.max) = blk
           /\ LastOlder(m.output, m.max)
           /\ Ordered(m.output)
<1>1. /\ st.output \in Seq(OutputEntries) /\ st.buf \in BlockBuffers
      /\ m.max = Int32(blk) /\ m.buf.block_num = Int32(blk)
      /\ r => m.output = Append(st.output, RestartEntry)
      /\ ~r /\ st.buf.block_num # -1 => m.output = Append(st.output, BlockEntry(st.buf))
  BY MakeRoomFacts DEF HandlerStates
<1>2. Uint(m.max) = blk
  BY <1>1, IntRoundTrip
<1>3. m.max # -1
  BY <1>2, MinusOne, BlockAssumption DEF Seqs
<1>4. CASE r
  <2>1. RestartEntry \in OutputEntries /\ ~IsBlock(RestartEntry)
    BY DEF OutputEntries, RestartEntry, IsBlock
  <2>2. Ordered(m.output)
    BY <1>1, <1>4, <2>1, AppendOrdered
  <2>3. m.output[Len(m.output)] = RestartEntry
    <3>1. m.output = Append(st.output, RestartEntry)
      BY <1>1, <1>4
    <3>2. Append(st.output, RestartEntry)[Len(Append(st.output, RestartEntry))] = RestartEntry
      BY <1>1, <2>1, AppendLast
    <3> QED
      BY <3>1, <3>2
  <2> QED
    BY <1>1, <1>2, <1>3, <2>1, <2>2, <2>3 DEF LastOlder
<1>5. CASE ~r
  <2> DEFINE e == BlockEntry(st.buf)
  <2>1. e \in OutputEntries
    BY <1>1, BlockEntryType DEF OutputEntries
  <2>2. e.blk = st.max
    BY DEF BlockEntry
  <2> HIDE DEF e
  <2>3. m.output = Append(st.output, e)
    BY <1>1, <1>5 DEF e
  <2>4. Ordered(m.output)
    BY <1>1, <2>1, <2>2, <2>3, AppendOrdered DEF LastOlder
  <2>5. m.output[Len(m.output)] = e
    BY <1>1, <2>1, <2>3
  <2>6. Uint(e.blk) < Uint(m.max)
    BY <1>2, <1>5, <2>2
  <2> QED
    BY <1>1, <1>2, <1>3, <2>4, <2>5, <2>6 DEF LastOlder
<1> QED
  BY <1>4, <1>5

\* With blocks of at least two packets and a past-end word that is not taken
\* for a full buffer, every call keeps the order.
LEMMA HandlerOrder ==
    ASSUME BlockSize >= 2, BlockSize \notin PastEndWords,
           OrderInv, NEW seq \in Seqs, NEW crc \in BOOLEAN, NEW pay \in Payloads,
           process_video_payload(seq, crc, pay)
    PROVE  OrderInv'
<1> DEFINE blk == BlockOf(seq)
           r   == TxRestart(blk)
<1>1. /\ GndTypeOK /\ GndTypeOK' /\ buf \in BlockBuffers /\ buf.block_num = max_block_num
      /\ Ordered(output) /\ LastOlder(output, max_block_num)
  BY HandlerType DEF OrderInv, GndTypeOK
<1>2. /\ blk \in Seqs /\ 2 * blk <= UintRange
      /\ blk + 1 \in Seqs /\ 2 * (blk + 1) <= UintRange /\ blk \in Nat
  BY BlockNumbers
<1>3. /\ Current.buf = buf /\ Current.max = max_block_num /\ Current.output = output
      /\ Current \in HandlerStates /\ PacketNum(seq) \in Slots /\ r \in BOOLEAN
  BY <1>1, HandlerInputs DEF Current
<1>4. \A b \in BlockBuffers : /\ Stored(seq, crc, pay, b) \in BlockBuffers
                              /\ Stored(seq, crc, pay, b).block_num = b.block_num
  BY <1>3, StoreFacts DEF Stored
<1>5. ASSUME NEW st, BecomesState(st), st.buf.block_num = st.max, 2 * Uint(st.max) <= UintRange,
             LastOlder(st.output, st.max), Ordered(st.output)
      PROVE  OrderInv'
  BY <1>1, <1>5 DEF BecomesState, OrderInv, LastOlder, Ordered
<1>6. CASE JustStores(seq, crc, pay)
  <2>1. buf'.block_num = max_block_num' /\ max_block_num' = max_block_num /\ output' = output
    BY <1>1, <1>4, <1>6 DEF JustStores
  <2> QED
    BY <1>1, <2>1 DEF OrderInv, LastOlder, Ordered
<1>7. CASE OpensBlock(seq, crc, pay)
  <2> DEFINE m  == MakeRoom(Current, blk, r)
             st == WithBuffer(m, Stored(seq, crc, pay, m.buf))
  <2>1. BecomesState(st) /\ (~r => Current.max # -1 /\ Uint(Current.max) < blk)
    BY <1>3, <1>7 DEF OpensBlock
  <2>2. /\ m.buf.block_num = m.max /\ m.max # -1 /\ Uint(m.max) = blk
        /\ LastOlder(m.output, m.max) /\ Ordered(m.output) /\ m.buf \in BlockBuffers
    <3> HIDE DEF blk, r
    <3>1. m.buf \in BlockBuffers
      BY <1>2, <1>3, MakeRoomFacts DEF HandlerStates
    <3> QED
      BY <1>1, <1>2, <1>3, <2>1, <3>1, MakeRoomOrder
  <2>3. /\ st.buf.block_num = st.max /\ 2 * Uint(st.max) <= UintRange
        /\ LastOlder(st.output, st.max) /\ Ordered(st.output)
    <3> HIDE DEF m, blk
    <3> QED
      BY <1>2, <1>4, <2>2 DEF WithBuffer
  <2> HIDE DEF st
  <2> QED
    BY <1>5, <2>1, <2>3
<1>8. CASE CompletesBlock(seq, crc, pay)
  <2> DEFINE kept == WithBuffer(Current, Stored(seq, crc, pay, buf))
             nb   == blk + 1
             m    == MakeRoom(kept, nb, FALSE)
  <2>1. BecomesState(m) /\ max_block_num # -1 /\ Uint(max_block_num) = blk
    BY <1>8 DEF CompletesBlock
  <2>2. /\ kept.buf.block_num = kept.max /\ kept.max = max_block_num /\ kept.output = output
        /\ kept \in HandlerStates
    BY <1>1, <1>3, <1>4 DEF WithBuffer, HandlerStates
  <2>3. nb \in Seqs /\ 2 * nb <= UintRange /\ Uint(max_block_num) < nb
    BY <1>2, <2>1
  <2> HIDE DEF kept, nb
  <2>4. /\ m.buf.block_num = m.max /\ m.max # -1 /\ Uint(m.max) = nb
        /\ LastOlder(m.output, m.max) /\ Ordered(m.output)
    BY <1>1, <2>1, <2>2, <2>3, MakeRoomOrder
  <2> HIDE DEF m
  <2> QED
    BY <1>5, <2>1, <2>3, <2>4
<1> QED
  BY <1>1, <1>6, <1>7, <1>8, HandlerCases

\* The initial state of the receiver satisfies the types and the invariants.
LEMMA GndInitInv == GndInit => /\ OwnInv /\ OrderInv
                               /\ buf \in CountedBuffers /\ buf \in IntactBuffers
                               /\ output = <<>> /\ Len(output) = 0
<1> SUFFICES ASSUME GndInit
             PROVE  /\ OwnInv /\ OrderInv
                    /\ buf \in CountedBuffers /\ buf \in IntactBuffers
                    /\ output = <<>> /\ Len(output) = 0
  OBVIOUS
<1>1. EmptySlot \in PacketSlots
  BY DEF EmptySlot, Junk, NoOrigin, PacketSlots, Payloads
<1>2. buf \in BlockBuffers /\ buf.block_num = -1 /\ Empty(buf)
  BY <1>1 DEF GndInit, EmptyBuffer, BlockBuffers, EmptySlot, Empty
<1>3. GndTypeOK
  BY <1>2 DEF GndInit, GndTypeOK, Counters
<1>4. Len(output) = 0
  BY DEF GndInit
<1>5. OrderInv
  BY <1>2, <1>3, <1>4 DEF GndInit, OrderInv, LastOlder, Ordered
<1>6. buf \in IntactBuffers
  BY <1>2 DEF IntactBuffers, Empty, EmptyIfUnused
<1> QED
  BY <1>2, <1>3, <1>4, <1>5, <1>6, EmptyIsOwn, EmptyIsCounted DEF OwnInv, GndInit
=============================================================================
