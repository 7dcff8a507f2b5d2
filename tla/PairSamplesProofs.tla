-------------------------- MODULE PairSamplesProofs --------------------------
(***************************************************************************)
(* The pairing is sound for every number of channels and samples, every    *)
(* gap and whatever timestamps and latencies the threads bring, increasing *)
(* or not.  What the invariant adds to the property is the place of the    *)
(* windows: they are past the pair that was formed last.                   *)
(*                                                                         *)
(* Where the timestamps do not decrease, the loop also finds as many pairs *)
(* as there can be: no way to pair samples is ever behind the windows.     *)
(* The percentiles cover their share of whatever was paired.               *)
(***************************************************************************)
EXTENDS PairSamples, FiniteSetTheorems, WellFoundedInduction, TLAPS

Windows == [ChannelIds -> Nat]

\* Pair k is formed of samples within the gap, and its value is their lowest latency.
PairIsClose(k) == /\ Spread(paired[k]) < MAX_PAIR_GAP
                  /\ effective[k] = Min(LatenciesAt(paired[k]))

\* Window w is further than window v on every channel.
Past(v, w) == \A c \in ChannelIds : v[c] < w[c]

Types == /\ indices \in Windows /\ paired \in Seq(Windows)
         /\ effective \in Seq({Min(LatenciesAt(w)) : w \in Windows})
         /\ Len(effective) = Len(paired)

PairsClose == \A k \in 1 .. Len(paired) : PairIsClose(k)
PairsMove == \A k \in 1 .. Len(paired) - 1 : Past(paired[k], paired[k + 1])
WindowsMove == paired # <<>> => Past(paired[Len(paired)], indices)

Inv == Types /\ PairsClose /\ PairsMove /\ WindowsMove

\* The samples stay, so what is said of a pair stays true of it.
LEMMA SamplesStay ==
  ASSUME UNCHANGED samples
  PROVE  \A w : /\ Spread(w)' = Spread(w) /\ LatenciesAt(w)' = LatenciesAt(w)
                /\ Min(LatenciesAt(w))' = Min(LatenciesAt(w))
BY DEF samples, Spread, TimestampsAt, LatenciesAt

\* A pair is appended at the windows, and the windows move past it.
LEMMA PairInv ==
  ASSUME Inv, Pair
  PROVE  Inv'
<1> USE DEF Inv
<1>1. /\ Spread(indices) < MAX_PAIR_GAP
      /\ effective' = Append(effective, Min(LatenciesAt(indices)))
      /\ paired' = Append(paired, indices)
      /\ indices' = [c \in ChannelIds |-> indices[c] + 1]
      /\ UNCHANGED samples
  BY DEF Pair
<1> DEFINE n == Len(paired)
           Values == {Min(LatenciesAt(w)) : w \in Windows}
<1>2. /\ n \in Nat /\ indices \in Windows /\ paired \in Seq(Windows)
      /\ effective \in Seq(Values) /\ Len(effective) = n
      /\ Min(LatenciesAt(indices)) \in Values
  BY DEF Types
<1>3. Values' = Values
  BY <1>1, SamplesStay
<1> HIDE DEF Values
<1>4. /\ Len(paired') = n + 1 /\ Len(effective') = n + 1
      /\ paired'[n + 1] = indices /\ effective'[n + 1] = Min(LatenciesAt(indices))
      /\ \A k \in 1 .. n : paired'[k] = paired[k] /\ effective'[k] = effective[k]
      /\ paired' \in Seq(Windows) /\ effective' \in Seq(Values)
  BY <1>1, <1>2
<1>5. indices' \in Windows /\ Past(indices, indices')
  BY <1>1, <1>2 DEF Windows, Past
<1>6. Types'
  BY <1>3, <1>4, <1>5 DEF Types, Values, Windows
<1>7. PairsClose'
  <2>1. ASSUME NEW k \in 1 .. n + 1
        PROVE  /\ Spread(paired'[k]) < MAX_PAIR_GAP
               /\ effective'[k] = Min(LatenciesAt(paired'[k]))
    <3>1. CASE k = n + 1
      BY <3>1, <1>1, <1>4
    <3>2. CASE k # n + 1
      <4>1. k \in 1 .. n
        BY <3>2, <1>2
      <4> QED BY <4>1, <1>4 DEF PairsClose, PairIsClose
    <3> QED BY <3>1, <3>2
  <2>2. timestamp' = timestamp /\ latency' = latency
    BY <1>1 DEF samples
  <2> HIDE DEF n
  <2>3. ASSUME NEW k \in 1 .. n + 1
        PROVE  PairIsClose(k)'
    <3>1. /\ TimestampsAt(paired[k])' = {timestamp[c][paired'[k][c]] : c \in ChannelIds}
          /\ LatenciesAt(paired[k])' = {latency[c][paired'[k][c]] : c \in ChannelIds}
      BY <2>2 DEF TimestampsAt, LatenciesAt
    <3>2. /\ Spread(paired[k])' < MAX_PAIR_GAP
          /\ effective'[k] = Min(LatenciesAt(paired[k])')
      BY <2>1, <3>1 DEF Spread, TimestampsAt, LatenciesAt
    <3> QED BY <3>2 DEF PairIsClose
  <2> QED BY <2>3, <1>4 DEF PairsClose
<1>8. PairsMove'
  <2>1. ASSUME NEW k \in 1 .. n
        PROVE  Past(paired'[k], paired'[k + 1])
    <3>1. CASE k = n
      <4>1. paired # <<>>
        BY <3>1, <1>2
      <4> QED BY <3>1, <4>1, <1>2, <1>4 DEF WindowsMove
    <3>2. CASE k # n
      <4>1. k \in 1 .. n - 1 /\ k + 1 \in 1 .. n
        BY <3>2, <1>2
      <4> QED BY <4>1, <1>4 DEF PairsMove
    <3> QED BY <3>1, <3>2
  <2> QED BY <2>1, <1>2, <1>4 DEF PairsMove
<1>9. WindowsMove'
  BY <1>2, <1>4, <1>5 DEF WindowsMove
<1> QED BY <1>6, <1>7, <1>8, <1>9

\* The lagging window moves on; whichever it is, none moves back.
LEMMA AdvanceInv ==
  ASSUME Inv, AdvanceLagging
  PROVE  Inv'
<1> USE DEF Inv
<1>1. /\ indices' = [indices EXCEPT ![min_idx_channel] = @ + 1]
      /\ UNCHANGED <<effective, paired>> /\ UNCHANGED samples
  BY DEF AdvanceLagging
<1>2. indices \in Windows /\ indices' \in Windows
      /\ \A c \in ChannelIds : indices[c] <= indices'[c]
  <2>1. indices \in [ChannelIds -> Nat]
    BY DEF Types, Windows
  <2> DEFINE m == min_idx_channel
  <2> HIDE DEF m
  <2>2. indices' = [c \in ChannelIds |-> IF c = m THEN indices[c] + 1 ELSE indices[c]]
    <3>1. indices' = [indices EXCEPT ![m] = @ + 1]
      BY <1>1 DEF m
    <3> QED BY <2>1, <3>1
  <2>3. indices' \in [ChannelIds -> Nat]
    BY <2>1, <2>2
  <2> QED BY <2>1, <2>2, <2>3 DEF Windows
<1>3. Types'
  BY <1>1, <1>2, SamplesStay DEF Types
<1>4. PairsClose' /\ PairsMove'
  BY <1>1, SamplesStay DEF PairsClose, PairIsClose, PairsMove
<1>5. WindowsMove'
  <2>1. ASSUME paired # <<>>, NEW c \in ChannelIds
        PROVE  paired[Len(paired)][c] < indices'[c]
    <3>1. paired[Len(paired)] \in Windows
      BY <2>1 DEF Types
    <3> QED BY <2>1, <3>1, <1>2 DEF WindowsMove, Past, Windows
  <2> QED BY <2>1, <1>1 DEF WindowsMove, Past
<1> QED BY <1>3, <1>4, <1>5

\* Before the first pair there is nothing to say.
LEMMA InitInv == Init => Inv
BY DEF Init, Inv, Types, PairsClose, PairsMove, WindowsMove, Windows

\* Every step keeps the invariant; the samples never change.
LEMMA NextInv == Inv /\ [Next]_vars => Inv'
<1> SUFFICES ASSUME Inv, [Next]_vars PROVE Inv'
  OBVIOUS
<1>1. CASE PairingEnds \/ UNCHANGED vars
  <2>1. UNCHANGED samples /\ UNCHANGED <<indices, effective, paired>>
    BY <1>1 DEF PairingEnds, vars, samples
  <2> QED BY <2>1, SamplesStay DEF Inv, Types, PairsClose, PairIsClose, PairsMove, WindowsMove,
             Past
<1> QED BY <1>1, PairInv, AdvanceInv DEF Next

\* Every value that is reported is the lowest latency of samples within the gap, and no
\* sample is counted twice (benchmark.cpp, lines 332-381).
THEOREM PairingIsSound == Spec => []PairsAreSound
<1>1. Inv => PairsAreSound
  <2> SUFFICES ASSUME Inv PROVE PairsAreSound
    OBVIOUS
  <2>1. DOMAIN paired = 1 .. Len(paired)
    BY DEF Inv, Types
  <2> QED BY <2>1 DEF Inv, PairsClose, PairIsClose, PairsMove, Past, PairsAreSound
<1> QED BY <1>1, InitInv, NextInv, PTL DEF Spec

-----------------------------------------------------------------------------
(* Numbers *)

\* A nonempty set of natural numbers has a least one.
LEMMA LeastExists ==
  ASSUME NEW S \in SUBSET Nat, S # {}
  PROVE  \E x \in S : \A y \in S : x <= y
<1> DEFINE Below(x) == 0 .. x - 1
           B == {Below(x) : x \in S}
<1>1. B \subseteq FiniteSubsetsOf(Nat)
  <2>1. ASSUME NEW x \in S
        PROVE  Below(x) \in FiniteSubsetsOf(Nat)
    <3>1. 0 \in Int /\ x - 1 \in Int
      OBVIOUS
    <3>2. IsFiniteSet(Below(x)) /\ Below(x) \subseteq Nat
      BY <3>1, FS_Interval
    <3> QED BY <3>2 DEF FiniteSubsetsOf
  <2> QED BY <2>1
<1>2. PICK b \in B : \A u \in B : <<u, b>> \notin StrictSubsetOrdering(Nat)
  <2>1. B # {}
    OBVIOUS
  <2> HIDE DEF B
  <2> QED BY <1>1, <2>1, FS_StrictSubsetOrderingWellFounded, WFMin
<1>3. PICK x \in S : b = Below(x)
  OBVIOUS
<1>4. ASSUME NEW y \in S, ~(x <= y)
      PROVE  FALSE
  <2>1. /\ Below(y) \subseteq Below(x) /\ y \in Below(x) /\ y \notin Below(y)
        /\ Below(x) \subseteq Nat /\ Below(y) \subseteq Nat
    BY <1>4
  <2>2. <<Below(y), Below(x)>> \in StrictSubsetOrdering(Nat)
    <3> HIDE DEF Below
    <3>1. Below(y) # Below(x)
      BY <2>1
    <3> QED BY <2>1, <3>1 DEF StrictSubsetOrdering
  <2>3. Below(y) \in B
    OBVIOUS
  <2> QED BY <1>2, <1>3, <2>2, <2>3
<1> QED BY <1>4

\* Induction, for a set of natural numbers.
LEMMA SetInduction ==
  ASSUME NEW S \in SUBSET Nat, 0 \in S, \A n \in S : n + 1 \in S
  PROVE  S = Nat
<1>1. ASSUME Nat \ S # {}
      PROVE  FALSE
  <2>1. PICK x \in Nat \ S : \A y \in Nat \ S : x <= y
    <3>1. Nat \ S \in SUBSET Nat
      OBVIOUS
    <3> QED BY <1>1, <3>1, LeastExists
  <2>2. x - 1 \in Nat /\ ~(x <= x - 1) /\ (x - 1) + 1 = x
    BY <2>1
  <2> QED BY <2>1, <2>2
<1> QED BY <1>1

\* Of finitely many numbers one is the largest.
LEMMA LargestExists ==
  ASSUME NEW n \in Nat \ {0}, NEW f \in [1 .. n -> Nat]
  PROVE  \E m \in 1 .. n : \A k \in 1 .. n : f[m] >= f[k]
<1> DEFINE Largest(k) == \E m \in 1 .. k : \A j \in 1 .. k : f[m] >= f[j]
           S == {k \in Nat : k \in 1 .. n => Largest(k)}
<1>1. 0 \in S
  OBVIOUS
<1>2. ASSUME NEW k \in S
      PROVE  k + 1 \in S
  <2>1. CASE k + 1 \notin 1 .. n
    BY <2>1
  <2>2. CASE k = 0
    BY <2>2
  <2>3. CASE k # 0 /\ k + 1 \in 1 .. n
    <3>1. PICK m \in 1 .. k : \A j \in 1 .. k : f[m] >= f[j]
      BY <2>3
    <3>2. m \in 1 .. k + 1 /\ k + 1 \in 1 .. k + 1 /\ f[m] \in Nat /\ f[k + 1] \in Nat
      BY <2>3
    <3>3. \A j \in 1 .. k + 1 : (j \in 1 .. k \/ j = k + 1) /\ f[j] \in Nat
      BY <2>3
    <3>4. CASE f[m] >= f[k + 1]
      BY <3>1, <3>2, <3>3, <3>4, SMTT(20)
    <3>5. CASE f[k + 1] >= f[m]
      <4>1. \A j \in 1 .. k + 1 : f[k + 1] >= f[j]
        BY <3>1, <3>2, <3>3, <3>5
      <4> QED BY <3>2, <4>1, SMTT(20)
    <3> QED BY <3>2, <3>4, <3>5
  <2> QED BY <2>1, <2>2, <2>3
<1>3. S = Nat
  <2>1. S \in SUBSET Nat
    OBVIOUS
  <2> HIDE DEF S
  <2> QED BY <1>1, <1>2, <2>1, SetInduction
<1>4. n \in S
  <2> HIDE DEF S
  <2> QED BY <1>3
<1>5. n \in 1 .. n
  OBVIOUS
<1> QED BY <1>4, <1>5

-----------------------------------------------------------------------------
(* No pair is lost *)

Positions == [ChannelIds -> SampleIds]

\* Increasing, or the zeros of a thread that gave up.
SamplesOrdered ==
  /\ timestamp \in [ChannelIds -> [SampleIds -> Nat]]
  /\ \A c \in ChannelIds : \A i, j \in SampleIds :
       i <= j => timestamp[c][i] <= timestamp[c][j]

\* However samples are paired, the pair that is formed next is not behind the windows.
NoneMissed ==
  \A n \in Nat : \A s \in Pairings(n) :
    Len(paired) < n => \A c \in ChannelIds : indices[c] <= s[Len(paired) + 1][c]

Ends == pc = "done" /\ Channels > 1 => out_of_bounds

MostInv == Types /\ SamplesOrdered /\ NoneMissed /\ Ends

\* The timestamps at windows within the samples have a lowest and a highest, which
\* Min and Max find.
LEMMA TimestampBounds ==
  ASSUME SamplesOrdered, NEW w \in Positions
  PROVE  /\ \A c \in ChannelIds :
              /\ timestamp[c][w[c]] \in Nat
              /\ Min(TimestampsAt(w)) <= timestamp[c][w[c]]
              /\ timestamp[c][w[c]] <= Max(TimestampsAt(w))
         /\ \E c \in ChannelIds : timestamp[c][w[c]] = Min(TimestampsAt(w))
         /\ \E c \in ChannelIds : timestamp[c][w[c]] = Max(TimestampsAt(w))
         /\ Min(TimestampsAt(w)) \in Nat /\ Max(TimestampsAt(w)) \in Nat
<1> DEFINE f == [c \in ChannelIds |-> timestamp[c][w[c]]]
<1>1. Channels \in Nat \ {0} /\ ChannelIds = 1 .. Channels
  BY PairAssumption DEF ChannelIds
<1>2. f \in [ChannelIds -> Nat] /\ TimestampsAt(w) = {f[c] : c \in ChannelIds}
  <2>1. \A c \in ChannelIds : timestamp[c] \in [SampleIds -> Nat] /\ w[c] \in SampleIds
    BY DEF SamplesOrdered, Positions
  <2> QED BY <2>1 DEF TimestampsAt
<1>3. PICK m \in ChannelIds : \A c \in ChannelIds : f[m] >= f[c]
  <2> HIDE DEF f
  <2> QED BY <1>1, <1>2, LargestExists
<1>4. PICK l \in ChannelIds : \A c \in ChannelIds : f[l] <= f[c]
  <2> HIDE DEF f
  <2>1. TimestampsAt(w) \in SUBSET Nat /\ TimestampsAt(w) # {}
    BY <1>1, <1>2
  <2>2. PICK x \in TimestampsAt(w) : \A y \in TimestampsAt(w) : x <= y
    BY <2>1, LeastExists
  <2> QED BY <1>2, <2>2
<1>5. Max(TimestampsAt(w)) = f[m]
  <2> HIDE DEF f
  <2>1. f[m] \in TimestampsAt(w) /\ \A y \in TimestampsAt(w) : f[m] >= y /\ y \in Nat
    BY <1>2, <1>3
  <2>2. \A x \in TimestampsAt(w) : (\A y \in TimestampsAt(w) : x >= y) => x = f[m]
    BY <2>1
  <2> QED BY <2>1, <2>2 DEF Max
<1>6. Min(TimestampsAt(w)) = f[l]
  <2> HIDE DEF f
  <2>1. f[l] \in TimestampsAt(w) /\ \A y \in TimestampsAt(w) : f[l] <= y /\ y \in Nat
    BY <1>2, <1>4
  <2>2. \A x \in TimestampsAt(w) : (\A y \in TimestampsAt(w) : x <= y) => x = f[l]
    BY <2>1
  <2> QED BY <2>1, <2>2 DEF Min
<1> QED BY <1>2, <1>3, <1>4, <1>5, <1>6

\* The lagging channel is one whose timestamp is the lowest.
LEMMA LaggingChannel ==
  ASSUME SamplesOrdered, indices \in Positions
  PROVE  /\ min_idx_channel \in ChannelIds
         /\ timestamp[min_idx_channel][indices[min_idx_channel]]
              = Min(TimestampsAt(indices))
<1> DEFINE S == {c \in ChannelIds : timestamp[c][indices[c]] = Min(TimestampsAt(indices))}
<1>1. S # {}
  BY TimestampBounds
<1>2. S \in SUBSET Nat
  BY PairAssumption DEF ChannelIds
<1>3. Min(S) \in S
  <2> HIDE DEF S
  <2>1. \E x \in S : \A y \in S : x <= y
    BY <1>1, <1>2, LeastExists
  <2> QED BY <2>1 DEF Min
<1>4. min_idx_channel = Min(S)
  BY DEF min_idx_channel
<1> QED BY <1>3, <1>4

\* A pair in a pairing lies within the samples, and close together.
LEMMA PairingFacts ==
  ASSUME NEW n \in Nat, NEW s \in Pairings(n), NEW k \in 1 .. n
  PROVE  /\ s[k] \in Positions /\ Spread(s[k]) < MAX_PAIR_GAP
         /\ k + 1 \in 1 .. n => \A c \in ChannelIds : s[k][c] < s[k + 1][c]
<1>1. s[k] \in {w \in Positions : Spread(w) < MAX_PAIR_GAP}
  BY DEF Pairings, Positions
<1>2. k + 1 \in 1 .. n => k \in 1 .. n - 1
  OBVIOUS
<1> QED BY <1>1, <1>2 DEF Pairings

\* Windows that are not out of bounds are at samples.
LEMMA WindowsInBounds ==
  ASSUME Types, ~out_of_bounds
  PROVE  indices \in Positions
BY PairAssumption DEF Types, Windows, out_of_bounds, Positions, SampleIds

\* The timestamps stay, so the ways to pair samples do.
LEMMA PairingsStay ==
  ASSUME UNCHANGED samples
  PROVE  /\ \A n : Pairings(n)' = Pairings(n)
         /\ SamplesOrdered => SamplesOrdered'
<1>1. timestamp' = timestamp /\ latency' = latency
  BY DEF samples
<1> QED BY <1>1 DEF Pairings, Spread, TimestampsAt, SamplesOrdered

\* Where a pair is formed every pairing is past it with its next pair.
LEMMA PairMost ==
  ASSUME MostInv, Types', Pair
  PROVE  NoneMissed'
<1>1. /\ UNCHANGED samples /\ paired' = Append(paired, indices)
      /\ indices' = [c \in ChannelIds |-> indices[c] + 1]
  BY DEF Pair
<1>2. /\ Len(paired) \in Nat /\ Len(paired') = Len(paired) + 1
      /\ indices \in [ChannelIds -> Nat]
  BY <1>1 DEF MostInv, Types, Windows
<1> DEFINE k == Len(paired) + 1
<1>3. ASSUME NEW n \in Nat, NEW s \in Pairings(n), Len(paired') < n, NEW c \in ChannelIds
      PROVE  indices'[c] <= s[k + 1][c]
  <2>1. k \in 1 .. n /\ k + 1 \in 1 .. n /\ Len(paired) < n
    BY <1>2, <1>3
  <2>2. s[k][c] < s[k + 1][c] /\ s[k] \in Positions /\ s[k + 1] \in Positions
    BY <2>1, PairingFacts
  <2>3. indices[c] <= s[k][c]
    BY <2>1 DEF MostInv, NoneMissed
  <2>4. s[k][c] \in Nat /\ s[k + 1][c] \in Nat /\ indices[c] \in Nat
    BY <2>2, <1>2, PairAssumption DEF Positions, SampleIds
  <2> QED BY <1>1, <2>2, <2>3, <2>4
<1>4. \A n : Pairings(n)' = Pairings(n)
  BY <1>1, PairingsStay
<1>5. Len(paired)' + 1 = k + 1 /\ Len(paired)' = Len(paired')
  BY <1>2
<1> QED BY <1>3, <1>4, <1>5 DEF NoneMissed

\* The window that moves on alone leaves a sample that no pairing pairs any more: whatever
\* it is not past on the other channels is too far ahead.
LEMMA AdvanceMost ==
  ASSUME MostInv, Types', AdvanceLagging
  PROVE  NoneMissed'
<1> DEFINE m == min_idx_channel
           k == Len(paired) + 1
<1>1. /\ UNCHANGED samples /\ paired' = paired /\ ~out_of_bounds
      /\ Spread(indices) >= MAX_PAIR_GAP
      /\ indices' = [indices EXCEPT ![m] = @ + 1]
  BY DEF AdvanceLagging
<1>2. indices \in Positions /\ Len(paired) \in Nat
  BY <1>1, WindowsInBounds DEF MostInv, Types
<1>3. m \in ChannelIds /\ timestamp[m][indices[m]] = Min(TimestampsAt(indices))
  BY <1>2, LaggingChannel DEF MostInv
<1>4. PICK h \in ChannelIds : timestamp[h][indices[h]] = Max(TimestampsAt(indices))
  BY <1>2, TimestampBounds DEF MostInv
<1> HIDE DEF m
<1>5. ASSUME NEW n \in Nat, NEW s \in Pairings(n), Len(paired) < n
      PROVE  \A c \in ChannelIds : indices'[c] <= s[k][c]
  <2>1. k \in 1 .. n
    BY <1>2, <1>5
  <2>2. s[k] \in Positions /\ Spread(s[k]) < MAX_PAIR_GAP
    BY <2>1, PairingFacts
  <2>3. \A c \in ChannelIds : indices[c] <= s[k][c]
    BY <1>5 DEF MostInv, NoneMissed
  <2>4. \A c \in ChannelIds : indices[c] \in SampleIds /\ s[k][c] \in SampleIds
    BY <1>2, <2>2 DEF Positions
  <2>5. ASSUME s[k][m] = indices[m]
        PROVE  FALSE
    <3> DEFINE w == s[k]
    <3>1. timestamp[h][indices[h]] <= timestamp[h][w[h]]
      BY <1>4, <2>3, <2>4 DEF MostInv, SamplesOrdered
    <3>2. /\ Min(TimestampsAt(w)) \in Nat /\ Max(TimestampsAt(w)) \in Nat
          /\ Min(TimestampsAt(w)) <= timestamp[m][w[m]]
          /\ timestamp[h][w[h]] <= Max(TimestampsAt(w))
          /\ timestamp[h][w[h]] \in Nat
      BY <1>3, <2>2, TimestampBounds DEF MostInv
    <3>3. Min(TimestampsAt(indices)) \in Nat /\ Max(TimestampsAt(indices)) \in Nat
      BY <1>2, TimestampBounds DEF MostInv
    <3>4. /\ Max(TimestampsAt(indices)) - Min(TimestampsAt(indices)) >= MAX_PAIR_GAP
          /\ Max(TimestampsAt(w)) - Min(TimestampsAt(w)) < MAX_PAIR_GAP
      BY <1>1, <2>2 DEF Spread
    <3>5. /\ Min(TimestampsAt(w)) <= Min(TimestampsAt(indices))
          /\ Max(TimestampsAt(indices)) <= timestamp[h][w[h]]
      BY <1>3, <1>4, <2>5, <3>1, <3>2
    <3> HIDE DEF w
    <3>6. MAX_PAIR_GAP \in Nat
      BY PairAssumption
    <3> QED BY <3>2, <3>3, <3>4, <3>5, <3>6
  <2>6. \A c \in ChannelIds : indices'[c] = IF c = m THEN indices[c] + 1 ELSE indices[c]
    BY <1>1, <1>2 DEF Positions
  <2>7. \A c \in ChannelIds : indices[c] \in Nat /\ s[k][c] \in Nat
    BY <2>4, PairAssumption DEF SampleIds
  <2> HIDE DEF k
  <2> QED BY <1>3, <2>3, <2>5, <2>6, <2>7
<1>6. \A n : Pairings(n)' = Pairings(n)
  BY <1>1, PairingsStay
<1>7. Len(paired)' = Len(paired)
  BY <1>1
<1> QED BY <1>5, <1>6, <1>7 DEF NoneMissed

\* Before the first pair the windows are at the first samples.
LEMMA InitMost == Init => MostInv
<1> SUFFICES ASSUME Init PROVE MostInv
  OBVIOUS
<1>1. PICK taken \in [ChannelIds -> ChannelSamples] :
        timestamp = [c \in ChannelIds |-> taken[c][1]]
  BY DEF Init
<1>2. ASSUME NEW q \in ChannelSamples
      PROVE  /\ q[1] \in [SampleIds -> Nat]
             /\ \A i, j \in SampleIds : i <= j => q[1][i] <= q[1][j]
  <2>1. CASE q \in Increasing \X [SampleIds -> Latencies]
    <3>1. q[1] \in Increasing
      BY <2>1
    <3>2. q[1] \in [SampleIds -> Nat]
      BY <3>1, PairAssumption DEF Increasing
    <3>3. \A i, j \in SampleIds : i < j => q[1][i] < q[1][j]
      BY <3>1 DEF Increasing
    <3>4. \A i, j \in SampleIds : i <= j => (i < j \/ i = j)
      BY PairAssumption DEF SampleIds
    <3> QED BY <3>2, <3>3, <3>4
  <2>2. CASE q = <<Zeroed, Zeroed>>
    BY <2>2 DEF Zeroed
  <2> QED BY <2>1, <2>2 DEF ChannelSamples
<1>3. SamplesOrdered
  BY <1>1, <1>2 DEF SamplesOrdered
<1>4. NoneMissed
  <2>1. ASSUME NEW n \in Nat, NEW s \in Pairings(n), 0 < n, NEW c \in ChannelIds
        PROVE  0 <= s[1][c]
    <3>1. s[1] \in Positions
      BY <2>1, PairingFacts
    <3> QED BY <3>1, PairAssumption DEF Positions, SampleIds
  <2>2. Len(paired) = 0 /\ indices = [c \in ChannelIds |-> 0]
    BY DEF Init
  <2> QED BY <2>1, <2>2 DEF NoneMissed
<1>5. Types /\ Ends
  BY InitInv DEF Inv, Init, Ends
<1> QED BY <1>3, <1>4, <1>5 DEF MostInv

\* Every step keeps it; the loop is left where a channel has no more samples.
LEMMA NextMost == Types' /\ MostInv /\ [Next]_vars => MostInv'
<1> SUFFICES ASSUME Types', MostInv, [Next]_vars PROVE MostInv'
  OBVIOUS
<1>1. UNCHANGED samples
  BY DEF Next, Pair, AdvanceLagging, PairingEnds, vars, samples
<1>2. SamplesOrdered' /\ \A n : Pairings(n)' = Pairings(n)
  BY <1>1, PairingsStay DEF MostInv
<1>3. CASE Pair
  BY <1>2, <1>3, PairMost DEF MostInv, Pair, Ends
<1>4. CASE AdvanceLagging
  BY <1>2, <1>4, AdvanceMost DEF MostInv, AdvanceLagging, Ends
<1>5. CASE PairingEnds \/ UNCHANGED vars
  <2>1. indices' = indices /\ paired' = paired
    BY <1>5 DEF PairingEnds, vars
  <2>2. NoneMissed'
    BY <1>2, <2>1 DEF MostInv, NoneMissed
  <2>3. Ends'
    BY <1>5, <2>1, PairAssumption DEF MostInv, Ends, PairingEnds, vars, out_of_bounds
  <2> QED BY <1>2, <2>2, <2>3 DEF MostInv
<1> QED BY <1>3, <1>4, <1>5 DEF Next

\* The greedy loop finds as many pairs as there can be, for every number of channels and
\* samples and every gap (benchmark.cpp, lines 346-388).
THEOREM PairingFindsMost == Spec => []FindsMostPairs
<1>1. MostInv => FindsMostPairs
  <2> SUFFICES ASSUME MostInv, pc = "done", Channels > 1,
                      NEW s \in Pairings(Len(paired) + 1)
               PROVE  FALSE
    BY DEF FindsMostPairs
  <2> DEFINE k == Len(paired) + 1
  <2>1. Len(paired) \in Nat
    BY DEF MostInv, Types
  <2>2. PICK c \in ChannelIds : indices[c] >= num_samples
    BY DEF MostInv, Ends, out_of_bounds
  <2>3. k \in Nat /\ Len(paired) < k /\ k \in 1 .. k
    BY <2>1
  <2>4. indices[c] <= s[k][c]
    BY <2>3 DEF MostInv, NoneMissed
  <2>5. s[k][c] \in SampleIds
    BY <2>3, PairingFacts DEF Positions
  <2>6. indices[c] \in Nat
    BY DEF MostInv, Types, Windows
  <2> HIDE DEF k
  <2> QED BY <2>2, <2>4, <2>5, <2>6, PairAssumption DEF SampleIds
<1>2. Inv => Types
  BY DEF Inv
<1>3. Spec => []Inv
  BY InitInv, NextInv, PTL DEF Spec
<1> QED BY <1>1, <1>2, <1>3, InitMost, NextMost, PTL DEF Spec

-----------------------------------------------------------------------------
(* The percentiles *)

\* Orders in which the numbers f do not decrease.
Sorting(n, f) ==
  {order \in Bijection(1 .. n, 1 .. n) :
     \A i, j \in 1 .. n : i <= j => f[order[i]] <= f[order[j]]}

\* A bijection, spelt out.
LEMMA Bijections ==
  ASSUME NEW S, NEW T, NEW f
  PROVE  f \in Bijection(S, T) <=>
           /\ f \in [S -> T]
           /\ \A x, y \in S : f[x] = f[y] => x = y
           /\ \A y \in T : \E x \in S : f[x] = y
BY DEF Bijection, Injection, Surjection, IsInjective

\* A sorting order, spelt out.
LEMMA Orderings ==
  ASSUME NEW n, NEW f, NEW order
  PROVE  order \in Sorting(n, f) <=>
           /\ order \in [1 .. n -> 1 .. n]
           /\ \A i, j \in 1 .. n : order[i] = order[j] => i = j
           /\ \A k \in 1 .. n : \E i \in 1 .. n : order[i] = k
           /\ \A i, j \in 1 .. n : i <= j => f[order[i]] <= f[order[j]]
<1>1. order \in Bijection(1 .. n, 1 .. n) <=>
           /\ order \in [1 .. n -> 1 .. n]
           /\ \A i, j \in 1 .. n : order[i] = order[j] => i = j
           /\ \A k \in 1 .. n : \E i \in 1 .. n : order[i] = k
  BY Bijections, Zenon
<1>2. order \in Sorting(n, f) <=>
           /\ order \in Bijection(1 .. n, 1 .. n)
           /\ \A i, j \in 1 .. n : i <= j => f[order[i]] <= f[order[j]]
  BY Zenon DEF Sorting
<1> QED BY <1>1, <1>2, Zenon

\* A largest number goes to the end, and the last takes its place among the others.
LEMMA SortNext ==
  ASSUME NEW n \in Nat, NEW f \in [1 .. n + 1 -> Nat],
         \A g \in [1 .. n -> Nat] : Sorting(n, g) # {}
  PROVE  Sorting(n + 1, f) # {}
<1>1. PICK m \in 1 .. n + 1 : \A k \in 1 .. n + 1 : f[m] >= f[k]
  <2>1. n + 1 \in Nat \ {0}
    OBVIOUS
  <2> QED BY <2>1, LargestExists
<1> DEFINE g == [k \in 1 .. n |-> IF k = m THEN f[n + 1] ELSE f[k]]
<1>2. g \in [1 .. n -> Nat]
  OBVIOUS
<1>3. PICK q \in Sorting(n, g) : TRUE
  BY <1>2
<1>4. /\ q \in [1 .. n -> 1 .. n]
      /\ \A i, j \in 1 .. n : q[i] = q[j] => i = j
      /\ \A k \in 1 .. n : \E i \in 1 .. n : q[i] = k
      /\ \A i, j \in 1 .. n : i <= j => g[q[i]] <= g[q[j]]
  <2> HIDE DEF g
  <2> QED BY <1>3, Orderings, Zenon
<1> DEFINE Moved(k) == IF k = m THEN n + 1 ELSE k
           p == [i \in 1 .. n + 1 |-> IF i = n + 1 THEN m ELSE Moved(q[i])]
<1>5. \A i \in 1 .. n + 1 : i \in 1 .. n \/ i = n + 1
  OBVIOUS
<1>6. ASSUME NEW i \in 1 .. n
      PROVE  /\ q[i] \in 1 .. n /\ i # n + 1 /\ i \in 1 .. n + 1
             /\ p[i] = Moved(q[i]) /\ p[i] \in 1 .. n + 1 /\ f[p[i]] = g[q[i]]
  <2>1. q[i] \in 1 .. n /\ i # n + 1 /\ i \in 1 .. n + 1 /\ q[i] \in 1 .. n + 1
    <3>1. q[i] \in 1 .. n
      BY <1>4
    <3>2. \A k \in 1 .. n : k # n + 1 /\ k \in 1 .. n + 1
      OBVIOUS
    <3> QED BY <3>1, <3>2
  <2>2. p[i] = Moved(q[i])
    BY <2>1
  <2>3. f[p[i]] = g[q[i]] /\ p[i] \in 1 .. n + 1
    BY <2>1, <2>2
  <2> QED BY <2>1, <2>2, <2>3
<1>7. p[n + 1] = m /\ f[p[n + 1]] = f[m]
  OBVIOUS
<1>8. p \in [1 .. n + 1 -> 1 .. n + 1]
  <2>1. \A i \in 1 .. n + 1 : p[i] \in 1 .. n + 1
    BY <1>5, <1>6, <1>7
  <2>2. p = [i \in 1 .. n + 1 |-> p[i]]
    OBVIOUS
  <2> HIDE DEF p
  <2> QED BY <2>1, <2>2
<1> HIDE DEF p
<1>9. ASSUME NEW i \in 1 .. n + 1, NEW j \in 1 .. n + 1, p[i] = p[j]
      PROVE  i = j
  <2>1. ASSUME NEW a \in 1 .. n
        PROVE  p[a] # m
    BY <1>1, <1>6
  <2>2. CASE i \in 1 .. n /\ j \in 1 .. n
    <3>1. q[i] = q[j]
      BY <1>6, <1>9, <2>2
    <3> QED BY <1>4, <2>2, <3>1
  <2> QED BY <1>5, <1>7, <1>9, <2>1, <2>2
<1>10. ASSUME NEW k \in 1 .. n + 1
       PROVE  \E i \in 1 .. n + 1 : p[i] = k
  <2>1. CASE k = m
    <3>1. n + 1 \in 1 .. n + 1
      OBVIOUS
    <3> QED BY <1>7, <2>1, <3>1
  <2>2. CASE k # m /\ k \in 1 .. n
    <3>1. PICK i \in 1 .. n : q[i] = k
      BY <1>4, <2>2
    <3> QED BY <1>6, <2>2, <3>1
  <2>3. CASE k # m /\ k = n + 1
    <3>1. m \in 1 .. n
      BY <1>1, <2>3
    <3>2. PICK i \in 1 .. n : q[i] = m
      BY <1>4, <3>1
    <3> QED BY <1>6, <2>3, <3>2
  <2> QED BY <1>5, <2>1, <2>2, <2>3
<1>11. ASSUME NEW i \in 1 .. n + 1, NEW j \in 1 .. n + 1, i <= j
       PROVE  f[p[i]] <= f[p[j]]
  <2>1. CASE j = n + 1
    BY <1>1, <1>7, <1>8, <2>1
  <2>2. CASE j \in 1 .. n
    <3>1. i \in 1 .. n
      BY <1>11, <2>2
    <3> QED BY <1>4, <1>6, <1>11, <2>2, <3>1
  <2> QED BY <1>5, <2>1, <2>2
<1>12. p \in Sorting(n + 1, f)
  BY <1>8, <1>9, <1>10, <1>11, Orderings, Zenon
<1> QED BY <1>12

\* Numbers can be sorted.
LEMMA SortingExists ==
  ASSUME NEW n \in Nat, NEW f \in [1 .. n -> Nat]
  PROVE  Sorting(n, f) # {}
<1> DEFINE S == {k \in Nat : \A g \in [1 .. k -> Nat] : Sorting(k, g) # {}}
<1>1. 0 \in S
  <2>1. ASSUME NEW g \in [1 .. 0 -> Nat]
        PROVE  Sorting(0, g) # {}
    <3> DEFINE id == [i \in 1 .. 0 |-> i]
    <3>1. 1 .. 0 = {}
      OBVIOUS
    <3>2. id \in [1 .. 0 -> 1 .. 0]
      BY <3>1
    <3> HIDE DEF id
    <3>3. id \in Bijection(1 .. 0, 1 .. 0)
      BY <3>1, <3>2, Bijections
    <3> QED BY <3>1, <3>3 DEF Sorting
  <2> QED BY <2>1
<1>2. ASSUME NEW k \in S
      PROVE  k + 1 \in S
  <2>1. k \in Nat /\ \A g \in [1 .. k -> Nat] : Sorting(k, g) # {}
    OBVIOUS
  <2>2. \A g \in [1 .. k + 1 -> Nat] : Sorting(k + 1, g) # {}
    BY <2>1, SortNext
  <2> QED BY <2>1, <2>2
<1>3. S \in SUBSET Nat
  OBVIOUS
<1>4. n \in S
  <2> HIDE DEF S
  <2> QED BY <1>1, <1>2, <1>3, SetInduction
<1> QED BY <1>4

\* What is counted is positive-sized, and an index stays within the values; at least the
\* named share of them comes before the next.
LEMMA IndexCovers ==
  ASSUME NEW n \in Nat \ {0}, NEW q \in Quantiles
  PROVE  /\ PercentileIndex(n, q) \in 0 .. n - 1
         /\ (PercentileIndex(n, q) + 1) * 10000 >= q * n
<1>1. q \in {5000, 9000, 9500, 9900, 9990, 9999}
  BY DEF Quantiles
<1>2. Rank(n, q) \in 0 .. n - 1 /\ (Rank(n, q) + 1) * 10000 >= q * n
  BY <1>1 DEF Rank
<1>3. n - 1 \in Nat /\ Rank(n, q) <= n - 1 /\ Rank(n, q) \in Nat
  BY <1>2
<1>4. Min({n - 1, Rank(n, q)}) = Rank(n, q)
  <2>1. \A x \in {n - 1, Rank(n, q)} :
          (\A y \in {n - 1, Rank(n, q)} : x <= y) <=> x = Rank(n, q)
    BY <1>3
  <2> QED BY <2>1 DEF Min
<1>5. PercentileIndex(n, q) = Rank(n, q)
  BY <1>4 DEF PercentileIndex
<1> QED BY <1>2, <1>5

\* The latencies are numbers, and so is every value.
LatenciesNat == latency \in [ChannelIds -> [SampleIds -> Nat]]
ValuesNat == effective \in Seq(Nat)

\* The lowest of the latencies at windows within the samples is one of them.
LEMMA LatencyIsNat ==
  ASSUME LatenciesNat, NEW w \in Positions
  PROVE  Min(LatenciesAt(w)) \in Nat
<1>1. LatenciesAt(w) \in SUBSET Nat /\ LatenciesAt(w) # {}
  BY PairAssumption DEF LatenciesNat, LatenciesAt, Positions, ChannelIds
<1>2. \E x \in LatenciesAt(w) : \A y \in LatenciesAt(w) : x <= y
  BY <1>1, LeastExists
<1> QED BY <1>1, <1>2 DEF Min

\* Samples come with latencies; before the first pair there is no value.
LEMMA InitValues == Init => LatenciesNat /\ ValuesNat
<1> SUFFICES ASSUME Init PROVE LatenciesNat /\ ValuesNat
  OBVIOUS
<1>1. PICK taken \in [ChannelIds -> ChannelSamples] :
        latency = [c \in ChannelIds |-> taken[c][2]]
  BY DEF Init
<1>2. ASSUME NEW q \in ChannelSamples
      PROVE  q[2] \in [SampleIds -> Nat]
  <2>1. CASE q \in Increasing \X [SampleIds -> Latencies]
    BY <2>1, PairAssumption
  <2>2. CASE q = <<Zeroed, Zeroed>>
    BY <2>2 DEF Zeroed
  <2> QED BY <2>1, <2>2 DEF ChannelSamples
<1> QED BY <1>1, <1>2 DEF LatenciesNat, ValuesNat, Init

\* Every value that is appended is one of them.
LEMMA NextValues ==
  Types /\ LatenciesNat /\ ValuesNat /\ [Next]_vars => LatenciesNat' /\ ValuesNat'
<1> SUFFICES ASSUME Types, LatenciesNat, ValuesNat, [Next]_vars
             PROVE  LatenciesNat' /\ ValuesNat'
  OBVIOUS
<1>1. latency' = latency
  BY DEF Next, Pair, AdvanceLagging, PairingEnds, vars, samples
<1>2. CASE Pair
  <2>1. effective' = Append(effective, Min(LatenciesAt(indices)))
        /\ Min(LatenciesAt(indices)) \in Nat
    BY <1>2, WindowsInBounds, LatencyIsNat DEF Pair
  <2> QED BY <1>1, <2>1 DEF LatenciesNat, ValuesNat
<1>3. CASE AdvanceLagging \/ PairingEnds \/ UNCHANGED vars
  BY <1>1, <1>3 DEF AdvanceLagging, PairingEnds, vars, LatenciesNat, ValuesNat
<1> QED BY <1>2, <1>3 DEF Next

\* The values at the first places of an order are as many as those places.
LEMMA FirstOfOrder ==
  ASSUME NEW n \in Nat, NEW f \in [1 .. n -> Nat], NEW order \in Sorting(n, f),
         NEW x \in 1 .. n
  PROVE  x <= Cardinality({k \in 1 .. n : f[k] <= f[order[x]]})
<1> DEFINE L == {k \in 1 .. n : f[k] <= f[order[x]]}
           first == [i \in 1 .. x |-> order[i]]
<1>1. /\ order \in [1 .. n -> 1 .. n]
      /\ \A i, j \in 1 .. n : order[i] = order[j] => i = j
      /\ \A i, j \in 1 .. n : i <= j => f[order[i]] <= f[order[j]]
  BY Orderings, Zenon
<1>2. \A i \in 1 .. x : i \in 1 .. n /\ i <= x
  OBVIOUS
<1>3. first \in [1 .. x -> L] /\ \A i, j \in 1 .. x : first[i] = first[j] => i = j
  BY <1>1, <1>2
<1>4. IsFiniteSet(L)
  <2>1. IsFiniteSet(1 .. n) /\ L \in SUBSET (1 .. n)
    BY FS_Interval
  <2> QED BY <2>1, FS_Subset
<1> HIDE DEF L, first
<1>5. first \in Injection(1 .. x, L)
  BY <1>3 DEF Injection, IsInjective
<1>6. Cardinality(1 .. x) <= Cardinality(L)
  BY <1>4, <1>5, FS_Injection
<1>7. Cardinality(1 .. x) = x
  BY FS_Interval
<1> QED BY <1>6, <1>7 DEF L

\* Every percentile exists and covers the share of the values it is named for, for every
\* number of values (stats.cpp, lines 59-82).
THEOREM PercentilesDoCover == Spec => []PercentilesCover
<1>1. ValuesNat => PercentilesCover
  <2> SUFFICES ASSUME ValuesNat, effective # <<>>, NEW q \in Quantiles
               PROVE  /\ PercentileIndex(Len(effective), q) + 1 \in DOMAIN sorted
                      /\ Cardinality({k \in DOMAIN effective :
                                        effective[k] <= Percentile(q)}) * 10000
                           >= q * Len(effective)
    BY DEF PercentilesCover
  <2> DEFINE n == Len(effective)
             x == PercentileIndex(n, q) + 1
  <2>1. n \in Nat \ {0} /\ DOMAIN effective = 1 .. n /\ effective \in [1 .. n -> Nat]
    BY DEF ValuesNat
  <2>2. x \in 1 .. n /\ x * 10000 >= q * n
    <3>1. /\ PercentileIndex(n, q) \in 0 .. n - 1
          /\ (PercentileIndex(n, q) + 1) * 10000 >= q * n
      BY <2>1, IndexCovers
    <3> DEFINE j == PercentileIndex(n, q)
    <3>2. x = j + 1 /\ j \in 0 .. n - 1 /\ (j + 1) * 10000 >= q * n
      BY <3>1
    <3> HIDE DEF n, j, x
    <3> QED BY <2>1, <3>2
  <2>3. Orders = Sorting(n, effective) /\ Orders # {}
    <3>1. Orders = Sorting(n, effective)
      BY <2>1 DEF Orders, Sorting
    <3> QED BY <2>1, <3>1, SortingExists
  <2>4. PICK order \in Sorting(n, effective) : sorted = [i \in 1 .. n |-> effective[order[i]]]
    BY <2>1, <2>3 DEF sorted
  <2>5. x \in DOMAIN sorted /\ Percentile(q) = effective[order[x]]
    BY <2>2, <2>4 DEF Percentile
  <2> DEFINE covered == Cardinality({k \in DOMAIN effective : effective[k] <= Percentile(q)})
  <2>6. x <= covered /\ covered \in Nat
    <3>1. x <= Cardinality({k \in 1 .. n : effective[k] <= effective[order[x]]})
      BY <2>1, <2>2, FirstOfOrder, SMTT(20)
    <3>2. IsFiniteSet(1 .. n)
          /\ {k \in 1 .. n : effective[k] <= effective[order[x]]} \in SUBSET (1 .. n)
      BY <2>1, FS_Interval
    <3>3. Cardinality({k \in 1 .. n : effective[k] <= effective[order[x]]}) \in Nat
      BY <3>2, FS_Subset, FS_CardinalityType
    <3> QED BY <2>1, <2>5, <3>1, <3>3
  <2>7. covered * 10000 >= q * n
    <3> HIDE DEF covered, x, n
    <3>1. q \in Nat
      BY DEF Quantiles
    <3> QED BY <2>1, <2>2, <2>6, <3>1
  <2> QED BY <2>5, <2>7
<1>2. Inv => Types
  BY DEF Inv
<1>3. Spec => []Inv
  BY InitInv, NextInv, PTL DEF Spec
<1> QED BY <1>1, <1>2, <1>3, InitValues, NextValues, PTL DEF Spec
==============================================================================
