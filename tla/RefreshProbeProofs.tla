-------------------------- MODULE RefreshProbeProofs --------------------------
(***************************************************************************)
(* The analysis of the tREFI probe counts every interval under exactly one *)
(* heading, and the page is released on every way out, for every command   *)
(* line, number of reads, latencies and distances.  The invariant of the   *)
(* analysis says how many intervals were counted so far; that no interval  *)
(* falls under two headings needs that the reads are ordered in time.      *)
(* The spikes kept are the first ones, and the reported peak is the mode   *)
(* of the intervals near T.                                                *)
(***************************************************************************)
EXTENDS RefreshProbe, FiniteSetTheorems, TLAPS

Read == [tsc : Nat, latency : Nat]
Setup == {"parse", "privilege", "allocate", "calibrate", "probe"}
Analysis == {"classify", "histogram", "peak", "verdict"}
Final == {"cleanup", "returned"}

------------------------------------------------------------------------------
(* What is held *)

\* The page is held only between its allocation and the clean-up, the privilege from its
\* acquisition on; what fails to be given back is reported.
Held ==
  /\ privilege => pc \notin {"parse", "privilege"}
  /\ page = "held" => pc \in {"calibrate", "probe", "cleanup"} \cup Analysis
  /\ pc = "returned" /\ status = 0 => ~privilege

\* Every step, and every exit, keeps track of what is held.
LEMMA NextHeld == Held /\ [Next]_vars => Held'
<1> SUFFICES ASSUME Held, [Next]_vars PROVE Held'
  OBVIOUS
<1> USE DEF Held, Goto, Returns, held, Analysis
<1>1. CASE Parse
  BY <1>1 DEF Parse
<1>2. CASE AcquirePrivilege
  BY <1>2 DEF AcquirePrivilege
<1>3. CASE AllocatePage
  BY <1>3 DEF AllocatePage
<1>4. CASE Calibrate
  BY <1>4 DEF Calibrate
<1>5. CASE Probe \/ ProbingEnds
  BY <1>5 DEF Probe, ProbingEnds
<1>6. CASE Classify \/ FillHistogram \/ FindPeak \/ Judge
  <2>1. pc \in Analysis /\ pc' \in Analysis \cup {"cleanup"} /\ UNCHANGED <<privilege, page>>
    BY <1>6 DEF Classify, FillHistogram, FindPeak, Judge, Advance
  <2> QED BY <2>1
<1>7. CASE Cleanup
  BY <1>7 DEF Cleanup
<1>8. CASE UNCHANGED vars
  BY <1>8 DEF vars
<1> QED BY <1>1, <1>2, <1>3, <1>4, <1>5, <1>6, <1>7, <1>8 DEF Next

\* The page never outlives the program, and a run that reports success has given the
\* privilege back (trefi_probe.cpp, lines 126-133, 218-223 and 340-350).
THEOREM ProbeReleasedAtExit == Spec => []ReleasedAtExit
<1>1. Init => Held
  BY DEF Init, Held
<1>2. Held => ReleasedAtExit
  BY DEF Held, Analysis, ReleasedAtExit
<1> QED BY <1>1, <1>2, NextHeld, PTL DEF Spec

------------------------------------------------------------------------------
(* What is counted *)

Types ==
  /\ T \in Nat /\ at \in Nat \ {0}
  /\ probes \in Seq(Read) /\ spikes \in Seq(Read)
  /\ harmonics \in [1 .. 3 -> Nat] /\ count_other \in Nat
  /\ pc \in Setup \cup Analysis \cup Final

\* The spikes are ordered in time, and none is later than the last read.
Ordered ==
  /\ \A i \in 1 .. Len(spikes) - 1 : spikes[i].tsc < spikes[i + 1].tsc
  /\ spikes # <<>> => probes # <<>> /\ spikes[Len(spikes)].tsc <= probes[Len(probes)].tsc

Near(i, k) == 100 * Deviation(intervals[i], k) <= 15 * T

\* The first m intervals were counted, each under one heading.
CountedTo(m) ==
  /\ harmonic + count_other = m
  /\ \A k \in 1 .. 3 : harmonics[k] = Cardinality({i \in 1 .. m : Near(i, k)})

Counting ==
  /\ pc \in Setup => /\ at = 1 /\ harmonics = [k \in 1 .. 3 |-> 0] /\ count_other = 0
                     /\ verdict = "none"
  /\ pc \in Analysis => Len(spikes) > 1
  /\ pc = "classify" => at \in 1 .. Len(spikes) - 1 /\ CountedTo(at - 1)
  /\ pc \in {"histogram", "peak", "verdict"} => CountedTo(Len(spikes) - 1)
  /\ Analysed => /\ Len(spikes) > 1 /\ CountedTo(Len(spikes) - 1)
                 /\ verdict = "periodic" <=> 100 * harmonic > 30 * (Len(spikes) - 1)

Inv == Types /\ Ordered /\ Counting

\* Two spikes have an interval between them.
LEMMA SpikesCount ==
  ASSUME Types, Len(spikes) > 1
  PROVE  Len(spikes) - 1 \in Nat \ {0}
<1>1. Len(spikes) \in Nat
  BY DEF Types
<1>2. \A l \in Nat : l > 1 => l - 1 \in Nat \ {0}
  OBVIOUS
<1> QED BY <1>1, <1>2

\* The intervals between spikes, which take time.
LEMMA Intervals ==
  ASSUME Types, Ordered, Len(spikes) > 1
  PROVE  /\ Len(intervals) = Len(spikes) - 1 /\ DOMAIN intervals = 1 .. Len(spikes) - 1
         /\ \A i \in 1 .. Len(spikes) - 1 : intervals[i] \in Nat \ {0}
<1> DEFINE n == Len(spikes) - 1
<1>1. n \in Nat \ {0} /\ intervals = [i \in 1 .. n |-> spikes[i + 1].tsc - spikes[i].tsc]
  BY SMTT(20) DEF Types, intervals
<1>2. \A i \in 1 .. n : spikes[i + 1].tsc \in Nat /\ spikes[i].tsc \in Nat
  <2>1. \A j \in 1 .. Len(spikes) : spikes[j] \in Read
    BY DEF Types
  <2>2. \A j \in 1 .. Len(spikes) : spikes[j].tsc \in Nat
    BY <2>1 DEF Read
  <2>3. \A i \in 1 .. n : i \in 1 .. Len(spikes) /\ i + 1 \in 1 .. Len(spikes)
    BY <1>1
  <2> QED BY <2>2, <2>3
<1>3. \A i \in 1 .. n : intervals[i] \in Nat \ {0}
  BY <1>1, <1>2 DEF Ordered
<1>4. intervals \in Seq(Nat) /\ Len(intervals) = n
  <2> HIDE DEF n
  <2> QED BY <1>1, <1>3
<1> QED BY <1>1, <1>3, <1>4

\* A band around a multiple is the intervals that deviate little from it, and an interval
\* lies in one band at most.
LEMMA Bands ==
  ASSUME T \in Nat, NEW x \in Nat \ {0}
  PROVE  /\ \A k \in 1 .. 3 : NearHarmonic(x, k) <=> 100 * Deviation(x, k) <= 15 * T
         /\ \A k, j \in 1 .. 3 : NearHarmonic(x, k) /\ NearHarmonic(x, j) => k = j
<1>1. \A k \in 1 .. 3 : k = 1 \/ k = 2 \/ k = 3
  OBVIOUS
<1>2. \A k \in {1, 2, 3} : NearHarmonic(x, k) <=> 100 * Deviation(x, k) <= 15 * T
  BY DEF NearHarmonic, Deviation
<1>3. \A k, j \in {1, 2, 3} : NearHarmonic(x, k) /\ NearHarmonic(x, j) => k = j
  BY DEF NearHarmonic
<1> QED BY <1>1, <1>2, <1>3

\* Counting goes on by one where the next number belongs to the set.
LEMMA CountNext ==
  ASSUME NEW S, NEW m \in Nat
  PROVE  /\ Cardinality({i \in 1 .. m : i \in S}) \in Nat
         /\ Cardinality({i \in 1 .. m + 1 : i \in S})
              = Cardinality({i \in 1 .. m : i \in S}) + IF m + 1 \in S THEN 1 ELSE 0
<1> DEFINE A == {i \in 1 .. m : i \in S}
<1>1. IsFiniteSet(A) /\ Cardinality(A) \in Nat
  <2>1. IsFiniteSet(1 .. m) /\ A \in SUBSET (1 .. m)
    BY FS_Interval
  <2> QED BY <2>1, FS_Subset, FS_CardinalityType
<1>2. {i \in 1 .. m + 1 : i \in S} = IF m + 1 \in S THEN A \cup {m + 1} ELSE A
  OBVIOUS
<1>3. m + 1 \notin A
  OBVIOUS
<1> HIDE DEF A
<1>4. Cardinality(A \cup {m + 1}) = Cardinality(A) + 1
  BY <1>1, <1>3, FS_AddElement
<1>5. Cardinality(IF m + 1 \in S THEN A \cup {m + 1} ELSE A)
        = Cardinality(A) + IF m + 1 \in S THEN 1 ELSE 0
  BY <1>1, <1>4
<1> QED BY <1>1, <1>2, <1>5 DEF A

\* What was counted stays counted while the spikes and the counts stay.
LEMMA CountsStay ==
  ASSUME UNCHANGED <<T, spikes, harmonics, count_other>>
  PROVE  /\ \A m : CountedTo(m)' <=> CountedTo(m)
         /\ harmonic' = harmonic /\ intervals' = intervals
BY DEF CountedTo, Near, Deviation, intervals, harmonic

\* The setup touches neither the reads nor the counts.
LEMMA SetupInv ==
  ASSUME Inv, Parse \/ AcquirePrivilege \/ AllocatePage \/ Calibrate
  PROVE  Inv'
<1> USE DEF Inv
<1>1. /\ pc \in Setup /\ pc' \in Setup \cup {"returned"}
      /\ UNCHANGED <<T, probes, spikes, at, harmonics, count_other, verdict>>
  BY DEF Parse, AcquirePrivilege, AllocatePage, Calibrate, Goto, Returns, Setup,
         arguments, reads, counts
<1>2. Types' /\ Ordered'
  BY <1>1 DEF Types, Ordered, Final
<1>3. Counting'
  BY <1>1 DEF Counting, Setup, Analysis, Analysed
<1> QED BY <1>2, <1>3

\* A read comes after all others; if it was slow and there is room it is kept.
LEMMA ProbeInv ==
  ASSUME Inv, Probe
  PROVE  Inv'
<1> USE DEF Inv
<1>1. /\ pc = "probe" /\ UNCHANGED <<T, at, harmonics, count_other, verdict, pc>>
  BY DEF Probe, arguments, counts
<1>2. PICK gap \in Gaps, latency \in Latencies :
        LET read == [tsc |-> Now + gap, latency |-> latency] IN
        /\ probes' = Append(probes, read)
        /\ spikes' = IF Above(read) /\ Len(spikes) < kMAX_SPIKES
                     THEN Append(spikes, read) ELSE spikes
  BY DEF Probe
<1> DEFINE read == [tsc |-> Now + gap, latency |-> latency]
<1>3. Now \in Nat /\ (probes # <<>> => Now = probes[Len(probes)].tsc)
  <2>1. probes # <<>> => probes[Len(probes)] \in Read
    BY DEF Types
  <2>2. probes # <<>> => probes[Len(probes)].tsc \in Nat
    BY <2>1 DEF Read
  <2> QED BY <2>2 DEF Now
<1>4. read \in Read /\ read.tsc > Now
  BY <1>3, ProbeAssumption DEF Read
<1> HIDE DEF read
<1>5. probes' = Append(probes, read) /\ spikes' \in {spikes, Append(spikes, read)}
  BY <1>2 DEF read
<1>6. Types'
  <2>1. Append(probes, read) \in Seq(Read) /\ Append(spikes, read) \in Seq(Read)
    BY <1>4 DEF Types
  <2>2. probes' \in Seq(Read) /\ spikes' \in Seq(Read)
    BY <2>1, <1>5 DEF Types
  <2> QED BY <1>1, <2>2 DEF Types
<1>7. probes' # <<>> /\ probes'[Len(probes')] = read
  BY <1>4, <1>5 DEF Types
<1>8. Ordered'
  <2> DEFINE n == Len(spikes)
  <2>1. n \in Nat /\ spikes \in Seq(Read) /\ (spikes # <<>> <=> n > 0)
    BY DEF Types
  <2>2. spikes # <<>> => spikes[n].tsc <= Now /\ spikes[n].tsc \in Nat
    <3>1. spikes # <<>> => spikes[n] \in Read
      BY <2>1
    <3>2. spikes # <<>> => spikes[n].tsc \in Nat
      BY <3>1 DEF Read
    <3> QED BY <1>3, <3>2 DEF Ordered
  <2>3. CASE spikes' = spikes
    BY <2>3, <1>3, <1>4, <1>7, <2>1, <2>2 DEF Ordered, Read
  <2>4. CASE spikes' = Append(spikes, read)
    <3>1. /\ Len(spikes') = n + 1 /\ spikes'[n + 1] = read
          /\ \A i \in 1 .. n : spikes'[i] = spikes[i]
      BY <2>4, <1>4, <2>1
    <3>2. ASSUME NEW i \in 1 .. n
          PROVE  spikes'[i].tsc < spikes'[i + 1].tsc
      <4>1. CASE i = n
        BY <4>1, <3>1, <2>1, <2>2, <1>3, <1>4 DEF Read
      <4>2. CASE i # n
        <5>1. i \in 1 .. n - 1 /\ i + 1 \in 1 .. n
          BY <4>2, <2>1
        <5> QED BY <5>1, <3>1 DEF Ordered
      <4> QED BY <4>1, <4>2
    <3>3. spikes'[Len(spikes')].tsc <= probes'[Len(probes')].tsc
      BY <3>1, <1>7, <1>4, <1>3 DEF Read
    <3>4. \A i \in 1 .. Len(spikes') - 1 : i \in 1 .. n
      BY <3>1, <2>1
    <3> QED BY <3>2, <3>3, <3>4, <1>7 DEF Ordered
  <2> QED BY <1>5, <2>3, <2>4
<1>9. Counting'
  BY <1>1 DEF Counting, Setup, Analysis, Analysed
<1> QED BY <1>6, <1>8, <1>9

\* The analysis starts with two spikes or more and nothing counted.
LEMMA ProbingEndsInv ==
  ASSUME Inv, ProbingEnds
  PROVE  Inv'
<1> USE DEF Inv
<1>1. /\ pc = "probe" /\ UNCHANGED <<T, probes, spikes, at, harmonics, count_other>>
      /\ \/ Len(spikes) < MinSpikes /\ verdict' = "insufficient" /\ pc' = "cleanup"
         \/ ~(Len(spikes) < MinSpikes) /\ pc' = "classify" /\ verdict' = verdict
  BY DEF ProbingEnds, Goto, arguments, reads, counts
<1>2. Types' /\ Ordered'
  BY <1>1 DEF Types, Ordered, Analysis, Final
<1>3. at = 1 /\ harmonics = [k \in 1 .. 3 |-> 0] /\ count_other = 0
  BY <1>1 DEF Counting, Setup
<1>4. CountedTo(0)'
  <2>1. harmonic' + count_other' = 0
    BY <1>1, <1>3 DEF harmonic
  <2>2. \A k \in 1 .. 3 : {i \in 1 .. 0 : Near(i, k)}' = {}
    OBVIOUS
  <2>3. \A k \in 1 .. 3 : harmonics'[k] = 0
    BY <1>1, <1>3
  <2> QED BY <2>1, <2>2, <2>3, FS_EmptySet DEF CountedTo
<1>5. Counting'
  <2>1. CASE pc' = "cleanup"
    BY <2>1, <1>1 DEF Counting, Setup, Analysis, Analysed
  <2>2. CASE pc' = "classify"
    <3>1. Len(spikes') > 1 /\ at' \in 1 .. Len(spikes') - 1 /\ at' - 1 = 0
      BY <2>2, <1>1, <1>3, ProbeAssumption DEF Types
    <3> QED BY <3>1, <1>4, <2>2 DEF Counting, Setup, Analysis, Analysed
  <2> QED BY <1>1, <2>1, <2>2
<1> QED BY <1>2, <1>5

\* An interval is counted under the multiple it is near, and otherwise under "other".
LEMMA ClassifyInv ==
  ASSUME Inv, Classify
  PROVE  Inv'
<1> USE DEF Inv
<1> DEFINE near == {k \in 1 .. 3 : NearHarmonic(intervals[at], k)}
           n == Len(spikes) - 1
<1>1. /\ pc = "classify" /\ UNCHANGED <<T, probes, spikes, verdict>>
      /\ harmonics' = [k \in 1 .. 3 |-> harmonics[k] + IF k \in near THEN 1 ELSE 0]
      /\ count_other' = count_other + IF near = {} THEN 1 ELSE 0
      /\ IF at < Len(intervals) THEN at' = at + 1 /\ pc' = pc
                                ELSE at' = 1 /\ pc' = "histogram"
  BY DEF Classify, Advance, Goto, arguments, reads
<1>2. Len(spikes) > 1 /\ n \in Nat \ {0} /\ at \in 1 .. n /\ CountedTo(at - 1)
  <2>1. Len(spikes) > 1 /\ at \in 1 .. n /\ CountedTo(at - 1)
    BY <1>1 DEF Counting, Analysis
  <2>2. Len(spikes) > 1
    BY <2>1
  <2>3. n \in Nat \ {0}
    BY <2>2, SpikesCount
  <2> QED BY <2>1, <2>3
<1>3. Len(intervals) = n /\ intervals[at] \in Nat \ {0} /\ T \in Nat
  BY <1>2, Intervals DEF Types
<1>4. /\ \A k \in 1 .. 3 : k \in near <=> Near(at, k)
      /\ \A k, j \in near : k = j
  BY <1>3, Bands DEF Near
<1>5. near \subseteq 1 .. 3
  OBVIOUS
<1> HIDE DEF near, n
<1>6. harmonics \in [1 .. 3 -> Nat] /\ count_other \in Nat
  BY DEF Types
<1>7. \A k \in 1 .. 3 : harmonics'[k] = harmonics[k] + IF k \in near THEN 1 ELSE 0
  BY <1>1
<1>8. harmonics' \in [1 .. 3 -> Nat] /\ count_other' \in Nat
  <2>1. \A k \in 1 .. 3 : harmonics[k] + (IF k \in near THEN 1 ELSE 0) \in Nat
    BY <1>6
  <2> QED BY <1>1, <1>6, <2>1
<1>9. harmonic' + count_other' = at
  <2>1. PICK h1 \in Nat, h2 \in Nat, h3 \in Nat, other \in Nat :
          /\ harmonics[1] = h1 /\ harmonics[2] = h2 /\ harmonics[3] = h3 /\ count_other = other
    BY <1>6
  <2>2. h1 + h2 + h3 + other + 1 = at
    BY <1>2, <2>1 DEF CountedTo, harmonic
  <2>3. \/ near = {} /\ 1 \notin near /\ 2 \notin near /\ 3 \notin near
        \/ near # {} /\ 1 \in near /\ 2 \notin near /\ 3 \notin near
        \/ near # {} /\ 1 \notin near /\ 2 \in near /\ 3 \notin near
        \/ near # {} /\ 1 \notin near /\ 2 \notin near /\ 3 \in near
    <3>1. \A k \in near : k = 1 \/ k = 2 \/ k = 3
      BY <1>5
    <3> QED BY <3>1, <1>4
  <2>4. /\ harmonics'[1] = IF 1 \in near THEN h1 + 1 ELSE h1
        /\ harmonics'[2] = IF 2 \in near THEN h2 + 1 ELSE h2
        /\ harmonics'[3] = IF 3 \in near THEN h3 + 1 ELSE h3
    BY <1>7, <2>1
  <2>5. count_other' = IF near = {} THEN other + 1 ELSE other
    BY <1>1, <2>1
  <2>6. harmonics'[1] + harmonics'[2] + harmonics'[3] + count_other' = h1 + h2 + h3 + other + 1
    <3>1. CASE near = {} /\ 1 \notin near /\ 2 \notin near /\ 3 \notin near
      BY <3>1, <2>4, <2>5
    <3>2. CASE near # {} /\ 1 \in near /\ 2 \notin near /\ 3 \notin near
      BY <3>2, <2>4, <2>5
    <3>3. CASE near # {} /\ 1 \notin near /\ 2 \in near /\ 3 \notin near
      BY <3>3, <2>4, <2>5
    <3>4. CASE near # {} /\ 1 \notin near /\ 2 \notin near /\ 3 \in near
      BY <3>4, <2>4, <2>5
    <3> QED BY <2>3, <3>1, <3>2, <3>3, <3>4
  <2> QED BY <2>2, <2>6 DEF harmonic
<1>10. ASSUME NEW k \in 1 .. 3
       PROVE  harmonics'[k] = Cardinality({i \in 1 .. at : Near(i, k)})
  <2> DEFINE S == {i \in 1 .. n : Near(i, k)}
  <2>1. PICK m \in Nat : m + 1 = at
    BY <1>2
  <2>2. /\ {i \in 1 .. m : i \in S} = {i \in 1 .. m : Near(i, k)}
        /\ {i \in 1 .. m + 1 : i \in S} = {i \in 1 .. at : Near(i, k)}
        /\ m + 1 \in S <=> Near(at, k)
    <3>1. \A i \in 1 .. at : i \in 1 .. n
      BY <1>2
    <3> QED BY <2>1, <3>1
  <2> HIDE DEF S
  <2>3. Cardinality({i \in 1 .. at : Near(i, k)})
          = Cardinality({i \in 1 .. m : Near(i, k)}) + IF Near(at, k) THEN 1 ELSE 0
    <3>1. Cardinality({i \in 1 .. m + 1 : i \in S})
            = Cardinality({i \in 1 .. m : i \in S}) + IF m + 1 \in S THEN 1 ELSE 0
      BY CountNext
    <3> QED BY <2>2, <3>1
  <2>4. harmonics[k] = Cardinality({i \in 1 .. m : Near(i, k)})
    <3>1. at - 1 = m
      BY <2>1
    <3> QED BY <3>1, <1>2 DEF CountedTo
  <2> QED BY <1>4, <1>7, <2>3, <2>4
<1>11. Types'
  <2>1. at' \in Nat \ {0} /\ pc' \in Analysis
    BY <1>1, SMTT(20) DEF Types, Analysis
  <2> QED BY <1>1, <1>8, <2>1 DEF Types
<1>12. Ordered'
  BY <1>1 DEF Ordered
<1>13. PICK m \in Nat : m = at
  BY <1>2
<1>14. CountedTo(m)'
  <2>1. \A i, k : Near(i, k)' <=> Near(i, k)
    BY <1>1 DEF Near, Deviation, intervals
  <2>2. \A k \in 1 .. 3 : {i \in 1 .. m : Near(i, k)}' = {i \in 1 .. m : Near(i, k)}
    BY <2>1
  <2> QED BY <1>9, <1>10, <1>13, <2>2 DEF CountedTo
<1>15. Counting'
  <2>1. CASE at < n
    <3>1. pc' = "classify" /\ at' - 1 = m /\ at' \in 1 .. Len(spikes') - 1
      BY <2>1, <1>1, <1>2, <1>3, <1>13 DEF n
    <3> QED BY <3>1, <1>1, <1>2, <1>14 DEF Counting, Setup, Analysis, Analysed
  <2>2. CASE ~(at < n)
    <3>1. pc' = "histogram" /\ Len(spikes') - 1 = m
      BY <2>2, <1>1, <1>2, <1>3, <1>13 DEF n
    <3> QED BY <3>1, <1>1, <1>2, <1>14 DEF Counting, Setup, Analysis, Analysed
  <2> QED BY <2>1, <2>2
<1> QED BY <1>11, <1>12, <1>15

\* The histogram and its peak leave the counts alone.
LEMMA HistogramInv ==
  ASSUME Inv, FillHistogram \/ FindPeak
  PROVE  Inv'
<1> USE DEF Inv
<1>1. /\ pc \in {"histogram", "peak"} /\ pc' \in {"histogram", "peak", "verdict"}
      /\ UNCHANGED <<T, probes, spikes, harmonics, count_other, verdict>>
      /\ at' \in {at + 1, 1}
  BY DEF FillHistogram, FindPeak, Advance, Goto, arguments, reads, counts
<1>2. Types' /\ Ordered'
  BY <1>1 DEF Types, Ordered, Analysis
<1>3. Counting'
  BY <1>1, CountsStay DEF Counting, Setup, Analysis, Analysed
<1> QED BY <1>2, <1>3

\* The verdict is drawn from the counts of all intervals.
LEMMA JudgeInv ==
  ASSUME Inv, Judge
  PROVE  Inv'
<1> USE DEF Inv
<1>1. /\ pc = "verdict" /\ pc' = "cleanup"
      /\ UNCHANGED <<T, probes, spikes, at, harmonics, count_other>>
      /\ verdict' = "periodic" <=> 100 * harmonic > 30 * Len(intervals)
  BY DEF Judge, Goto, arguments, reads, counts
<1>2. Types' /\ Ordered'
  BY <1>1 DEF Types, Ordered, Final
<1>3. Len(spikes) > 1 /\ CountedTo(Len(spikes) - 1) /\ Len(intervals) = Len(spikes) - 1
  BY <1>1, Intervals DEF Counting, Analysis
<1>4. CountedTo(Len(spikes) - 1)'
  BY <1>1, <1>3, CountsStay
<1>5. Counting'
  BY <1>1, <1>3, <1>4, CountsStay DEF Counting, Setup, Analysis
<1> QED BY <1>2, <1>5

\* Every step keeps the invariant of the analysis.
LEMMA NextInv == Inv /\ [Next]_vars => Inv'
<1> SUFFICES ASSUME Inv, [Next]_vars PROVE Inv'
  OBVIOUS
<1>1. CASE Cleanup
  <2>1. /\ pc = "cleanup" /\ pc' = "returned"
        /\ UNCHANGED <<T, probes, spikes, at, harmonics, count_other, verdict>>
    BY <1>1 DEF Cleanup, Goto, Returns, arguments, reads, counts
  <2>2. Types' /\ Ordered'
    BY <2>1 DEF Inv, Types, Ordered, Final
  <2>3. Counting'
    BY <2>1, CountsStay DEF Inv, Counting, Setup, Analysis, Analysed
  <2> QED BY <2>2, <2>3 DEF Inv
<1>2. CASE UNCHANGED vars
  <2>1. UNCHANGED <<T, probes, spikes, at, harmonics, count_other, verdict, pc>>
    BY <1>2 DEF vars
  <2>2. Types' /\ Ordered'
    BY <2>1 DEF Inv, Types, Ordered
  <2>3. Counting'
    BY <2>1, CountsStay DEF Inv, Counting, Analysed
  <2> QED BY <2>2, <2>3 DEF Inv
<1> QED BY <1>1, <1>2, SetupInv, ProbeInv, ProbingEndsInv, ClassifyInv, HistogramInv,
           JudgeInv DEF Next

\* The invariant of the analysis, for every probe.
THEOREM ProbeInvariant == Spec => []Inv
<1>1. Init => Inv
  BY ProbeAssumption DEF Init, Inv, Types, Ordered, Counting, Setup, Analysis, Analysed
<1> QED BY <1>1, NextInv, PTL DEF Spec

\* Each interval is counted under one heading, and the verdict is drawn from all of them
\* (trefi_probe.cpp, lines 238-265).
THEOREM ProbeEveryIntervalClassified == Spec => []EveryIntervalClassified
<1>1. Inv => EveryIntervalClassified
  <2> SUFFICES ASSUME Inv, Analysed
               PROVE  EveryIntervalClassified
    BY DEF EveryIntervalClassified
  <2> DEFINE n == Len(spikes) - 1
  <2>1. /\ Len(spikes) > 1 /\ n \in Nat /\ CountedTo(n)
        /\ verdict = "periodic" <=> 100 * harmonic > 30 * n
    BY DEF Inv, Counting, Types
  <2>2. Len(intervals) = n /\ DOMAIN intervals = 1 .. n
    BY <2>1, Intervals DEF Inv
  <2>3. harmonic \in Nat /\ count_other \in Nat
    <3>1. harmonics[1] \in Nat /\ harmonics[2] \in Nat /\ harmonics[3] \in Nat
      BY DEF Inv, Types
    <3> QED BY <3>1 DEF Inv, Types, harmonic
  <2>4. harmonic + count_other = n
    BY <2>1 DEF CountedTo
  <2>5. n - count_other = harmonic
    BY <2>1, <2>3, <2>4
  <2>6. \A k \in 1 .. 3 : harmonics[k] =
          Cardinality({i \in DOMAIN intervals : 100 * Deviation(intervals[i], k) <= 15 * T})
    BY <2>1, <2>2 DEF CountedTo, Near
  <2> QED BY <2>1, <2>2, <2>4, <2>5, <2>6 DEF EveryIntervalClassified
<1> QED BY <1>1, ProbeInvariant, PTL

------------------------------------------------------------------------------
(* What is recorded *)

Slow == {i \in 1 .. Len(probes) : Above(probes[i])}
Place(i) == Cardinality({j \in Slow : j <= i})

\* Before the main loop nothing is read; a spike is kept at its place among the slow reads.
Recorded ==
  /\ pc \in Setup \ {"probe"} => probes = <<>> /\ spikes = <<>>
  /\ Len(spikes) = Min({Cardinality(Slow), kMAX_SPIKES})
  /\ \A i \in Slow : Place(i) <= kMAX_SPIKES => spikes[Place(i)] = probes[i]

\* The lower of two numbers.
LEMMA MinOfTwo ==
  ASSUME NEW a \in Nat, NEW b \in Nat
  PROVE  Min({a, b}) = IF a <= b THEN a ELSE b
<1>1. \A x \in {a, b} : (\A y \in {a, b} : x <= y) <=> x = IF a <= b THEN a ELSE b
  OBVIOUS
<1> QED BY <1>1 DEF Min

\* A slow read has a place, and it is one of as many places as there are slow reads.
LEMMA Places ==
  ASSUME Types
  PROVE  /\ Cardinality(Slow) \in Nat /\ IsFiniteSet(Slow)
         /\ \A i \in Slow : Place(i) \in 1 .. Cardinality(Slow)
<1>1. IsFiniteSet(Slow)
  <2>1. IsFiniteSet(1 .. Len(probes)) /\ Slow \in SUBSET (1 .. Len(probes))
    BY FS_Interval DEF Types, Slow
  <2> QED BY <2>1, FS_Subset
<1>2. ASSUME NEW i \in Slow
      PROVE  Place(i) \in 1 .. Cardinality(Slow)
  <2> DEFINE S == {j \in Slow : j <= i}
  <2>1. S \in SUBSET Slow
    OBVIOUS
  <2>2. IsFiniteSet(S) /\ Cardinality(S) \in Nat /\ Cardinality(S) <= Cardinality(Slow)
    BY <1>1, <2>1, FS_Subset, FS_CardinalityType
  <2>3. i \in S
    BY DEF Slow
  <2>4. Cardinality(S) # 0
    <3> HIDE DEF S
    <3> QED BY <2>2, <2>3, FS_EmptySet
  <2>5. Cardinality(Slow) \in Nat
    BY <1>1, FS_CardinalityType
  <2>6. Cardinality(S) \in 1 .. Cardinality(Slow)
    <3> HIDE DEF S
    <3> QED BY <2>2, <2>4, <2>5
  <2> QED BY <2>6 DEF Place
<1> QED BY <1>1, <1>2, FS_CardinalityType

\* What was recorded stays while the reads and the threshold do.
LEMMA RecordsStay ==
  ASSUME UNCHANGED <<probes, spikes, threshold>>, Recorded,
         pc' \in Setup \ {"probe"} => pc \in Setup \ {"probe"}
  PROVE  Recorded'
<1>1. Slow' = Slow /\ \A i : Place(i)' = Place(i)
  BY DEF Slow, Place, Above
<1> QED BY <1>1 DEF Recorded

\* A slow read is the last of them, and goes to the end of the vector unless it is full.
LEMMA ProbeRecords ==
  ASSUME Types, Recorded, Probe
  PROVE  Recorded'
<1>1. pc = "probe" /\ UNCHANGED <<threshold, pc>>
  BY DEF Probe
<1>2. PICK gap \in Gaps, latency \in Latencies :
        LET read == [tsc |-> Now + gap, latency |-> latency] IN
        /\ probes' = Append(probes, read)
        /\ spikes' = IF Above(read) /\ Len(spikes) < kMAX_SPIKES
                     THEN Append(spikes, read) ELSE spikes
  BY DEF Probe
<1> DEFINE read == [tsc |-> Now + gap, latency |-> latency]
<1>3. /\ probes' = Append(probes, read)
      /\ spikes' = IF Above(read) /\ Len(spikes) < kMAX_SPIKES
                   THEN Append(spikes, read) ELSE spikes
  BY <1>2
<1> HIDE DEF read
<1>4. PICK n \in Nat, c \in Nat : n = Len(probes) /\ c = Cardinality(Slow)
  BY Places DEF Types
<1>5. /\ n \in Nat /\ c \in Nat /\ kMAX_SPIKES \in Nat /\ Len(spikes) \in Nat
      /\ Len(spikes) = IF c <= kMAX_SPIKES THEN c ELSE kMAX_SPIKES
  BY <1>4, MinOfTwo, ProbeAssumption DEF Recorded, Types
<1>6. /\ Len(probes') = n + 1 /\ probes'[n + 1] = read
      /\ \A i \in 1 .. n : probes'[i] = probes[i]
  BY <1>3, <1>4 DEF Types
<1>7. \A r : Above(r)' <=> Above(r)
  BY <1>1 DEF Above
<1>8. Slow' = IF Above(read) THEN Slow \cup {n + 1} ELSE Slow
  <2>1. Slow' = {i \in 1 .. n + 1 : Above(probes'[i])}
    BY <1>1, <1>6 DEF Slow, Above
  <2>2. \A i : i \in 1 .. n + 1 <=> i \in 1 .. n \/ i = n + 1
    BY <1>5
  <2> QED BY <1>6, <1>4, <2>1, <2>2 DEF Slow
<1>9. \A i \in Slow : i \in 1 .. n /\ i # n + 1 /\ i <= n + 1 /\ probes'[i] = probes[i]
  <2>1. \A i \in 1 .. n : i # n + 1 /\ i <= n + 1
    BY <1>5
  <2> QED BY <1>6, <1>4, <2>1 DEF Slow
<1>10. ASSUME NEW i \in Slow
      PROVE  Place(i)' = Place(i)
  <2>1. i < n + 1 /\ i \in Nat
    BY <1>5, <1>9
  <2>2. ~(n + 1 <= i)
    BY <1>5, <2>1
  <2>3. {j \in Slow' : j <= i} = {j \in Slow : j <= i}
    BY <1>8, <2>2
  <2> QED BY <2>3 DEF Place
<1>11. CASE ~Above(read)
  <2>1. Slow' = Slow /\ spikes' = spikes
    BY <1>3, <1>8, <1>11
  <2> QED BY <1>1, <1>9, <1>10, <2>1 DEF Recorded
<1>12. CASE Above(read)
  <2>1. Slow' = Slow \cup {n + 1} /\ n + 1 \notin Slow
    BY <1>8, <1>9, <1>12
  <2>2. Cardinality(Slow') = c + 1
    <3> QED BY <1>4, <2>1, Places, FS_AddElement
  <2>3. Place(n + 1)' = c + 1
    <3>1. n + 1 <= n + 1
      BY <1>5
    <3>2. \A j \in Slow' : j <= n + 1
      BY <1>9, <2>1, <3>1
    <3>3. Place(n + 1)' = Cardinality({j \in Slow' : j <= n + 1})
      BY DEF Place
    <3>4. {j \in Slow' : j <= n + 1} = Slow'
      BY <3>2
    <3> QED BY <2>2, <3>3, <3>4
  <2>4. \A i \in Slow : Place(i) \in 1 .. c
    BY <1>4, Places
  <2>5. CASE Len(spikes) < kMAX_SPIKES
    <3>1. spikes' = Append(spikes, read) /\ Len(spikes) = c
      BY <1>3, <1>5, <1>12, <2>5
    <3>2. /\ Len(spikes') = c + 1 /\ spikes'[c + 1] = read
          /\ \A k \in 1 .. c : spikes'[k] = spikes[k]
      BY <3>1 DEF Types
    <3>3. Len(spikes') = Min({c + 1, kMAX_SPIKES})
      <4>1. c + 1 <= kMAX_SPIKES /\ c + 1 \in Nat
        BY <1>5, <2>5, <3>1
      <4> QED BY <1>5, <3>2, <4>1, MinOfTwo
    <3>4. ASSUME NEW i \in Slow', Place(i)' <= kMAX_SPIKES
          PROVE  spikes'[Place(i)'] = probes'[i]
      <4>1. CASE i = n + 1
        BY <4>1, <1>6, <2>3, <3>2
      <4>2. CASE i \in Slow
        BY <4>2, <1>9, <1>10, <2>4, <3>2, <3>4 DEF Recorded
      <4> QED BY <4>1, <4>2, <2>1
    <3> QED BY <1>1, <2>2, <3>3, <3>4 DEF Recorded, Setup
  <2>6. CASE ~(Len(spikes) < kMAX_SPIKES)
    <3>1. spikes' = spikes /\ Len(spikes) = kMAX_SPIKES /\ kMAX_SPIKES <= c
      BY <1>3, <1>5, <2>6
    <3>2. Len(spikes') = Min({c + 1, kMAX_SPIKES})
      <4>1. ~(c + 1 <= kMAX_SPIKES) /\ c + 1 \in Nat
        BY <1>5, <3>1
      <4> QED BY <1>5, <3>1, <4>1, MinOfTwo
    <3>3. ASSUME NEW i \in Slow', Place(i)' <= kMAX_SPIKES
          PROVE  spikes'[Place(i)'] = probes'[i]
      <4>1. i # n + 1
        BY <1>5, <2>3, <3>1, <3>3
      <4>2. i \in Slow
        BY <2>1, <4>1
      <4> QED BY <4>2, <1>9, <1>10, <3>1, <3>3 DEF Recorded
    <3> QED BY <1>1, <2>2, <3>2, <3>3 DEF Recorded, Setup
  <2> QED BY <2>5, <2>6
<1> QED BY <1>11, <1>12

\* Only the main loop reads; the threshold is settled before it.
LEMMA NextRecords == Types /\ Recorded /\ [Next]_vars => Recorded'
<1> SUFFICES ASSUME Types, Recorded, [Next]_vars PROVE Recorded'
  OBVIOUS
<1>1. CASE Calibrate
  <2>1. probes = <<>> /\ spikes = <<>> /\ UNCHANGED <<probes, spikes>>
    BY <1>1 DEF Calibrate, reads, Recorded, Setup
  <2>2. Slow = {} /\ Slow' = {}
    BY <2>1 DEF Slow
  <2> QED BY <2>1, <2>2 DEF Recorded
<1>2. CASE Parse \/ AcquirePrivilege \/ AllocatePage
  <2>1. UNCHANGED <<probes, spikes, threshold>> /\ pc \in Setup \ {"probe"}
    BY <1>2 DEF Parse, AcquirePrivilege, AllocatePage, reads, Setup
  <2> QED BY <2>1, RecordsStay
<1>3. CASE ProbingEnds \/ Classify \/ FillHistogram \/ FindPeak \/ Judge \/ Cleanup
  <2>1. UNCHANGED <<probes, spikes, threshold>> /\ pc' \notin Setup
    BY <1>3 DEF ProbingEnds, Classify, FillHistogram, FindPeak, Judge, Cleanup, reads,
                Setup, Advance, Goto, Returns
  <2> QED BY <2>1, RecordsStay
<1>4. CASE UNCHANGED vars
  <2>1. UNCHANGED <<probes, spikes, threshold, pc>>
    BY <1>4 DEF vars
  <2> QED BY <2>1, RecordsStay
<1> QED BY <1>1, <1>2, <1>3, <1>4, ProbeRecords DEF Next

\* What is kept is the first slow reads, in the order they came (trefi_probe.cpp, lines
\* 185-203): neighbours are consecutive slow reads.
THEOREM ProbeRecordsFirstSpikes == Spec => []RecordsFirstSpikes
<1>1. Init => Recorded
  <2> SUFFICES ASSUME Init PROVE Recorded
    OBVIOUS
  <2>1. probes = <<>> /\ spikes = <<>> /\ Slow = {}
    BY DEF Init, Slow
  <2>2. Min({0, kMAX_SPIKES}) = 0
    BY MinOfTwo, ProbeAssumption
  <2> QED BY <2>1, <2>2, FS_EmptySet DEF Recorded
<1>2. Types /\ Recorded => RecordsFirstSpikes
  <2> SUFFICES ASSUME Types, Recorded PROVE RecordsFirstSpikes
    OBVIOUS
  <2>1. Slow = {i \in DOMAIN probes : Above(probes[i])}
    BY DEF Slow, Types
  <2> QED BY <2>1 DEF Recorded, RecordsFirstSpikes, Place
<1>3. Inv => Types
  BY DEF Inv
<1> QED BY <1>1, <1>2, <1>3, NextRecords, ProbeInvariant, PTL DEF Spec
------------------------------------------------------------------------------
(* What the histogram shows *)

\* Products grow with a factor.
LEMMA Monotone ==
  ASSUME NEW a \in Int, NEW b \in Int, NEW d \in Nat, a <= b
  PROVE  a * d <= b * d
<1>1. PICK k \in Nat : b = a + k
  <2>1. b - a \in Nat /\ b = a + (b - a)
    OBVIOUS
  <2> QED BY <2>1
<1>2. b * d = a * d + k * d
  BY <1>1
<1>3. k * d >= 0
  BY <1>1
<1>4. a * d \in Int /\ k * d \in Int /\ b * d \in Int
  BY <1>1
<1> QED BY <1>2, <1>3, <1>4

\* A quotient is the number of times the divisor fits.
LEMMA Division ==
  ASSUME NEW n \in Nat, NEW d \in Nat \ {0}
  PROVE  /\ n \div d \in Nat
         /\ \A b \in Nat : n \div d = b <=> b * d <= n /\ n < (b + 1) * d
<1>1. /\ n \div d \in Int /\ n % d \in Int
      /\ n = d * (n \div d) + (n % d) /\ 0 <= n % d /\ n % d < d
  OBVIOUS
<1>2. PICK q \in Int, r \in Nat : n = q * d + r /\ r < d /\ n \div d = q
  BY <1>1
<1>3. q * d <= n /\ n < (q + 1) * d
  <2>1. (q + 1) * d = q * d + d /\ q * d \in Int
    BY <1>2
  <2> QED BY <1>2, <2>1
<1>4. q \in Nat
  <2>1. CASE q + 1 <= 0
    <3>1. (q + 1) * d <= 0 * d
      BY <1>2, <2>1, Monotone
    <3> QED BY <3>1, <1>3
  <2> QED BY <1>2, <2>1
<1>5. ASSUME NEW b \in Nat, b * d <= n, n < (b + 1) * d
      PROVE  q = b
  <2>1. CASE q + 1 <= b
    <3>1. (q + 1) * d <= b * d
      BY <1>2, <2>1, Monotone
    <3> QED BY <3>1, <1>3, <1>5
  <2>2. CASE b + 1 <= q
    <3>1. (b + 1) * d <= q * d
      BY <1>2, <2>2, Monotone
    <3> QED BY <3>1, <1>3, <1>5
  <2> QED BY <1>2, <2>1, <2>2
<1> QED BY <1>2, <1>3, <1>4, <1>5

\* A distance that is put into a bin lies within half a bin of its centre, a distance
\* that lies there is put into the bin, and what is inside the histogram has a bin.
LEMMA BinBounds ==
  ASSUME T \in Nat \ {0}, NEW x \in Nat
  PROVE  /\ 2 * x >= T /\ 2 * x < 3 * T => Bin(x) \in 0 .. hist_bins - 1
         /\ \A b \in 0 .. hist_bins - 1 :
              2 * x >= T /\ 2 * x < 3 * T /\ Bin(x) = b <=>
                /\ 2 * hist_bins * x >= (hist_bins * T + (2 * b + 1) * T) - T
                /\ 2 * hist_bins * x < (hist_bins * T + (2 * b + 1) * T) + T
<1>1. PICK h \in Nat \ {0}, t \in Nat \ {0} : h = hist_bins /\ t = T
  BY ProbeAssumption
<1>2. PICK hx \in Nat, ht \in Nat : hx = h * x /\ ht = h * t
  BY <1>1
<1>3. 2 * hist_bins * x = 2 * hx /\ hist_bins * T = ht /\ (2 * x - T) * hist_bins = 2 * hx - ht
  BY <1>1, <1>2
<1>4. Bin(x) = (2 * hx - ht) \div (2 * t)
  BY <1>1, <1>3 DEF Bin
<1>5. 2 * t \in Nat \ {0}
  BY <1>1
<1>6. CASE 2 * x < t
  <2>1. 2 * hx < ht
    <3>1. (2 * x + 1) * h <= t * h
      BY <1>1, <1>6, Monotone
    <3> QED BY <1>1, <1>2, <3>1
  <2>2. ASSUME NEW b \in 0 .. hist_bins - 1
        PROVE  ~(2 * hx >= ht + (2 * b + 1) * t - t)
    <3>1. PICK bt \in Nat : bt = b * t
      BY <1>1
    <3>2. (2 * b + 1) * t = 2 * bt + t
      BY <1>1, <3>1
    <3> QED BY <2>1, <3>2, <1>1, <1>2
  <2>3. ~(2 * x >= T)
    BY <1>1, <1>6
  <2> QED BY <1>1, <1>3, <2>2, <2>3
<1>7. CASE 2 * x >= t
  <2>1. 2 * hx - ht \in Nat
    <3>1. t * h <= (2 * x) * h
      BY <1>1, <1>7, Monotone
    <3> QED BY <1>1, <1>2, <3>1
  <2>2. PICK q \in Nat : q = Bin(x)
    BY <1>4, <1>5, <2>1, Division
  <2>3. ASSUME NEW b \in Nat
        PROVE  /\ Bin(x) = b <=>
                    /\ 2 * hist_bins * x >= (hist_bins * T + (2 * b + 1) * T) - T
                    /\ 2 * hist_bins * x < (hist_bins * T + (2 * b + 1) * T) + T
    <3>1. PICK bt \in Nat : bt = b * t
      BY <1>1
    <3>2. (2 * b + 1) * t = 2 * bt + t /\ b * (2 * t) = 2 * bt /\ (b + 1) * (2 * t) = 2 * bt + 2 * t
      BY <1>1, <3>1
    <3>3. Bin(x) = b <=> b * (2 * t) <= 2 * hx - ht /\ 2 * hx - ht < (b + 1) * (2 * t)
      BY <1>4, <1>5, <2>1, Division
    <3>4. Bin(x) = b <=> 2 * bt <= 2 * hx - ht /\ 2 * hx - ht < 2 * bt + 2 * t
      BY <3>2, <3>3
    <3>5. /\ 2 * hist_bins * x >= (hist_bins * T + (2 * b + 1) * T) - T <=> 2 * hx >= ht + 2 * bt
          /\ 2 * hist_bins * x < (hist_bins * T + (2 * b + 1) * T) + T
               <=> 2 * hx < ht + 2 * bt + 2 * t
      <4>1. (2 * b + 1) * T = 2 * bt + t
        BY <1>1, <3>2
      <4> QED BY <4>1, <1>1, <1>2, <1>3, <3>1
    <3> QED BY <3>4, <3>5, <1>1, <1>2, <3>1
  <2>4. q * (2 * t) <= 2 * hx - ht
    BY <1>4, <1>5, <2>1, <2>2, Division
  <2>5. 2 * x < 3 * t <=> q <= h - 1
    <3>1. PICK qt \in Nat : qt = q * t /\ q * (2 * t) = 2 * qt /\ (q + 1) * (2 * t) = 2 * qt + 2 * t
      <4>1. q * t \in Nat /\ q * (2 * t) = 2 * (q * t) /\ (q + 1) * (2 * t) = 2 * (q * t) + 2 * t
        BY <1>1
      <4> QED BY <4>1
    <3>2. 2 * qt <= 2 * hx - ht /\ 2 * hx - ht < 2 * qt + 2 * t
      <4>1. 2 * hx - ht < (q + 1) * (2 * t)
        BY <1>4, <1>5, <2>1, <2>2, Division
      <4> QED BY <2>4, <3>1, <4>1
    <3>3. CASE 2 * x < 3 * t /\ q >= h
      <4>1. h * t <= q * t
        BY <1>1, <3>3, Monotone
      <4>2. (2 * x + 1) * h <= (3 * t) * h
        BY <1>1, <3>3, Monotone
      <4>3. 2 * hx + h <= 3 * ht
        BY <1>1, <1>2, <4>2
      <4> QED BY <1>1, <1>2, <3>1, <3>2, <4>1, <4>3
    <3>4. CASE ~(2 * x < 3 * t) /\ q <= h - 1
      <4>1. (q + 1) * t <= h * t
        BY <1>1, <3>4, Monotone
      <4>2. (3 * t) * h <= (2 * x) * h
        BY <1>1, <3>4, Monotone
      <4>3. 3 * ht <= 2 * hx /\ qt + t <= ht
        <5>1. (3 * t) * h = 3 * ht /\ (2 * x) * h = 2 * hx /\ (q + 1) * t = qt + t
          BY <1>1, <1>2, <3>1
        <5> QED BY <1>2, <4>1, <4>2, <5>1
      <4> QED BY <1>1, <1>2, <3>1, <3>2, <4>3
    <3> QED BY <1>1, <3>3, <3>4
  <2>6. q \in 0 .. hist_bins - 1 <=> 2 * x < 3 * T
    BY <1>1, <2>5
  <2>7. \A b \in 0 .. hist_bins - 1 : b \in Nat
    OBVIOUS
  <2> QED BY <1>1, <1>7, <2>2, <2>3, <2>6, <2>7
<1> QED BY <1>1, <1>6, <1>7
\* The bins, which are empty until the intervals are sorted into them.
Bins == 0 .. hist_bins - 1
NoPeak == hist = [b \in Bins |-> 0] /\ peak_bin = 0 /\ peak_count = 0

\* The first m intervals are in their bins.
Filled(m) ==
  T > 0 => \A b \in Bins : hist[b] = Cardinality({i \in 1 .. m : WithinBin(i, b)})

\* The peak is the highest of the first m bins.
PeakOf(m) ==
  /\ \A b \in 0 .. m - 1 : hist[b] <= peak_count
  /\ peak_count = 0 \/ peak_count = hist[peak_bin]

Peaking ==
  /\ hist \in [Bins -> Nat] /\ peak_bin \in Bins /\ peak_count \in Nat
  /\ pc \in Setup \cup {"classify"} => NoPeak
  /\ pc = "histogram" => /\ at \in 1 .. Len(spikes) - 1 /\ Filled(at - 1)
                         /\ peak_bin = 0 /\ peak_count = 0
  /\ pc = "peak" => at \in 1 .. hist_bins /\ Filled(Len(spikes) - 1) /\ PeakOf(at - 1)
  /\ pc = "verdict" \/ Analysed => Filled(Len(spikes) - 1) /\ PeakOf(hist_bins)

\* The histogram stays while the intervals and the bins do.
LEMMA HistogramStays ==
  ASSUME UNCHANGED <<T, spikes, hist, peak_bin, peak_count>>
  PROVE  /\ \A m : Filled(m)' <=> Filled(m)
         /\ \A m : PeakOf(m)' <=> PeakOf(m)
         /\ NoPeak' <=> NoPeak
BY DEF Filled, PeakOf, NoPeak, WithinBin, intervals, Bins

\* The bin of an interval is the one it lies within.
LEMMA BinOf ==
  ASSUME T \in Nat, T > 0, NEW i, intervals[i] \in Nat, NEW b \in Bins
  PROVE  2 * intervals[i] >= T /\ 2 * intervals[i] < 3 * T /\ Bin(intervals[i]) = b
           <=> WithinBin(i, b)
<1>1. T \in Nat \ {0}
  OBVIOUS
<1> DEFINE x == intervals[i]
<1> HIDE DEF x
<1>2. x \in Nat
  BY DEF x
<1>3. 2 * x >= T /\ 2 * x < 3 * T /\ Bin(x) = b <=>
        /\ 2 * hist_bins * x >= (hist_bins * T + (2 * b + 1) * T) - T
        /\ 2 * hist_bins * x < (hist_bins * T + (2 * b + 1) * T) + T
  BY <1>1, <1>2, BinBounds, Zenon DEF Bins
<1>4. WithinBin(i, b) <=>
        /\ 2 * hist_bins * x >= (hist_bins * T + (2 * b + 1) * T) - T
        /\ 2 * hist_bins * x < (hist_bins * T + (2 * b + 1) * T) + T
  BY Zenon DEF WithinBin, x
<1> QED BY <1>3, <1>4 DEF x

\* Nothing touches the histogram before the intervals are classified.
LEMMA BeforeHistogram ==
  ASSUME Types, Ordered, Counting, Peaking,
         \/ Parse \/ AcquirePrivilege \/ AllocatePage \/ Calibrate \/ Probe \/ ProbingEnds
         \/ Classify
  PROVE  Peaking'
<1>1. /\ pc \in Setup \cup {"classify"} /\ UNCHANGED <<T, hist, peak_bin, peak_count>>
      /\ pc' \in Setup \cup {"classify", "histogram", "returned", "cleanup"}
  BY DEF Parse, AcquirePrivilege, AllocatePage, Calibrate, Probe, ProbingEnds, Classify,
         Advance, Goto, Returns, Setup, arguments, histogram
<1>2. NoPeak /\ NoPeak'
  BY <1>1 DEF Peaking, NoPeak, Bins
<1>3. hist' \in [Bins -> Nat] /\ peak_bin' \in Bins /\ peak_count' \in Nat
  BY <1>1 DEF Peaking, Bins
<1>4. CASE pc' = "histogram"
  <2>1. /\ pc = "classify" /\ UNCHANGED spikes /\ at' = 1
    BY <1>1, <1>4 DEF Parse, AcquirePrivilege, AllocatePage, Calibrate, Probe, ProbingEnds,
         Classify, Advance, Goto, Returns, Setup, reads
  <2>2. Len(spikes) - 1 \in Nat \ {0}
    BY <2>1, SpikesCount DEF Counting, Analysis
  <2>3. at' \in 1 .. Len(spikes') - 1 /\ at' - 1 = 0
    <3>1. PICK n \in Nat \ {0} : n = Len(spikes) - 1
      BY <2>2
    <3>2. Len(spikes') - 1 = n /\ at' = 1
      BY <2>1, <3>1
    <3> QED BY <3>2
  <2>4. Filled(0)'
    <3>1. \A b : {i \in 1 .. 0 : WithinBin(i, b)}' = {}
      OBVIOUS
    <3>2. \A b \in Bins : hist'[b] = 0
      BY <1>2 DEF NoPeak, Bins
    <3> QED BY <3>1, <3>2, FS_EmptySet DEF Filled, Bins
  <2> QED BY <1>2, <1>3, <1>4, <2>3, <2>4 DEF Peaking, NoPeak, Bins, Setup, Analysed
<1>5. CASE pc' \in {"returned", "cleanup"}
  <2>1. verdict' \in {"none", "insufficient"}
    BY <1>1, <1>5 DEF Parse, AcquirePrivilege, AllocatePage, Calibrate, Probe, ProbingEnds,
         Classify, Advance, Goto, Returns, Counting, Setup
  <2> QED BY <1>2, <1>3, <1>5, <2>1 DEF Peaking, NoPeak, Bins, Setup, Analysed
<1>6. CASE pc' \in Setup \cup {"classify"}
  BY <1>2, <1>3, <1>6 DEF Peaking, NoPeak, Bins, Setup, Analysed
<1> QED BY <1>1, <1>4, <1>5, <1>6

\* An interval goes into the bin whose centre it is near.
LEMMA FillPeaking ==
  ASSUME Inv, Peaking, FillHistogram
  PROVE  Peaking'
<1> DEFINE x == intervals[at]
           inside == 2 * x >= T /\ 2 * x < 3 * T
<1>1. /\ pc = "histogram" /\ UNCHANGED <<T, spikes, peak_bin, peak_count>>
      /\ hist' = IF inside /\ Bin(x) \in DOMAIN hist
                 THEN [hist EXCEPT ![Bin(x)] = @ + 1] ELSE hist
      /\ IF at < Len(intervals) THEN at' = at + 1 /\ pc' = pc ELSE at' = 1 /\ pc' = "peak"
  BY DEF FillHistogram, Advance, Goto, arguments, reads
<1>2. PICK n \in Nat \ {0}, m \in Nat :
        /\ n = Len(spikes) - 1 /\ m + 1 = at /\ m = at - 1 /\ at \in 1 .. n
  <2>1. Len(spikes) > 1
    BY <1>1 DEF Inv, Counting, Analysis
  <2>2. Len(spikes) - 1 \in Nat \ {0} /\ at \in 1 .. Len(spikes) - 1
    BY <1>1, <2>1, SpikesCount DEF Inv, Peaking
  <2>3. at - 1 \in Nat /\ (at - 1) + 1 = at
    BY <2>2
  <2> QED BY <2>2, <2>3
<1>3. Len(intervals) = n /\ x \in Nat \ {0} /\ T \in Nat
  <2>1. Len(spikes) > 1
    BY <1>1 DEF Inv, Counting, Analysis
  <2> QED BY <1>2, <2>1, Intervals DEF Inv, Types
<1>4. /\ hist \in [Bins -> Nat] /\ peak_bin = 0 /\ peak_count = 0 /\ 0 \in Bins
      /\ Filled(m)
  BY <1>1, <1>2 DEF Peaking
<1> HIDE DEF x
<1>5. hist' \in [Bins -> Nat]
  BY <1>1, <1>4
<1>6. ASSUME T > 0, NEW b \in Bins
      PROVE  hist'[b] = Cardinality({i \in 1 .. at : WithinBin(i, b)})
  <2>1. inside => Bin(x) \in Bins
    BY <1>3, <1>6, BinBounds DEF Bins
  <2>2. inside /\ Bin(x) = b <=> WithinBin(at, b)
    <3>1. intervals[at] \in Nat
      BY <1>3 DEF x
    <3> QED BY <1>3, <1>6, <3>1, BinOf DEF x
  <2> HIDE DEF inside
  <2>3. hist'[b] = hist[b] + IF inside /\ Bin(x) = b THEN 1 ELSE 0
    BY <1>1, <1>4, <2>1 DEF inside
  <2> DEFINE S == {i \in 1 .. n : WithinBin(i, b)}
  <2>4. /\ {i \in 1 .. m : i \in S} = {i \in 1 .. m : WithinBin(i, b)}
        /\ {i \in 1 .. m + 1 : i \in S} = {i \in 1 .. at : WithinBin(i, b)}
        /\ m + 1 \in S <=> WithinBin(at, b)
    <3>1. \A i \in 1 .. at : i \in 1 .. n
      BY <1>2
    <3> QED BY <1>2, <3>1
  <2> HIDE DEF S
  <2>5. Cardinality({i \in 1 .. m + 1 : i \in S})
          = Cardinality({i \in 1 .. m : i \in S}) + IF m + 1 \in S THEN 1 ELSE 0
    BY CountNext
  <2>6. hist[b] = Cardinality({i \in 1 .. m : WithinBin(i, b)})
    BY <1>4, <1>6 DEF Filled
  <2> QED BY <2>2, <2>3, <2>4, <2>5, <2>6
<1>7. PICK l \in Nat : l = at /\ l = m + 1
  BY <1>2
<1>8. Filled(l)'
  <2>1. \A i, b : WithinBin(i, b)' <=> WithinBin(i, b)
    BY <1>1 DEF WithinBin, intervals
  <2>2. \A b : {i \in 1 .. l : WithinBin(i, b)}' = {i \in 1 .. l : WithinBin(i, b)}
    BY <2>1
  <2> QED BY <1>1, <1>6, <1>7, <2>2 DEF Filled, Bins
<1>9. CASE at < n
  <2>1. /\ pc' = "histogram" /\ at' = l + 1 /\ at' - 1 = l
        /\ at' \in 1 .. Len(spikes') - 1
    BY <1>1, <1>2, <1>3, <1>7, <1>9
  <2> QED BY <1>1, <1>4, <1>5, <1>8, <2>1 DEF Peaking, Bins, Setup, Analysed
<1>10. CASE ~(at < n)
  <2>1. pc' = "peak" /\ at' = 1 /\ Len(spikes') - 1 = l
    BY <1>1, <1>2, <1>3, <1>7, <1>10
  <2>2. at' \in 1 .. hist_bins /\ PeakOf(at - 1)'
    BY <1>1, <1>4, <2>1, ProbeAssumption DEF PeakOf
  <2> QED BY <1>1, <1>4, <1>5, <1>8, <2>1, <2>2 DEF Peaking, Bins, Setup, Analysed
<1> QED BY <1>9, <1>10

\* A bin higher than the highest so far is the new peak.
LEMMA FindPeaking ==
  ASSUME Inv, Peaking, FindPeak
  PROVE  Peaking'
<1>1. /\ pc = "peak" /\ UNCHANGED <<T, spikes, hist>>
      /\ IF hist[at - 1] > peak_count
         THEN peak_count' = hist[at - 1] /\ peak_bin' = at - 1
         ELSE UNCHANGED <<peak_count, peak_bin>>
      /\ IF at < hist_bins THEN at' = at + 1 /\ pc' = pc ELSE at' = 1 /\ pc' = "verdict"
  BY DEF FindPeak, Advance, Goto, arguments, reads
<1>2. PICK m \in Nat, h \in Nat \ {0} : m = at - 1 /\ at = m + 1 /\ h = hist_bins /\ m < h
  <2>1. at \in 1 .. hist_bins
    BY <1>1 DEF Peaking
  <2>2. at - 1 \in Nat /\ at = (at - 1) + 1 /\ at - 1 < hist_bins
    BY <2>1, ProbeAssumption
  <2> QED BY <2>2, ProbeAssumption
<1>3. /\ hist \in [Bins -> Nat] /\ peak_bin \in Bins /\ peak_count \in Nat
      /\ Filled(Len(spikes) - 1) /\ PeakOf(m) /\ m \in Bins
  BY <1>1, <1>2 DEF Peaking, Bins
<1>4. peak_bin' \in Bins /\ peak_count' \in Nat
  BY <1>1, <1>2, <1>3
<1>5. PeakOf(m + 1)'
  <2>1. hist[m] <= peak_count' /\ peak_count <= peak_count' /\ hist[m] \in Nat
    BY <1>1, <1>2, <1>3
  <2>2. ASSUME NEW b \in 0 .. m
        PROVE  hist[b] <= peak_count'
    <3>1. CASE b = m
      BY <2>1, <3>1
    <3>2. CASE b # m
      <4>1. b \in 0 .. m - 1 /\ b \in Bins
        BY <1>2, <3>2 DEF Bins
      <4>2. hist[b] <= peak_count /\ hist[b] \in Nat
        BY <1>3, <4>1 DEF PeakOf
      <4> QED BY <1>3, <1>4, <2>1, <4>2
    <3> QED BY <3>1, <3>2
  <2>3. (m + 1) - 1 = m
    BY <1>2
  <2>4. peak_count' = 0 \/ peak_count' = hist'[peak_bin']
    BY <1>1, <1>2, <1>3 DEF PeakOf
  <2> QED BY <1>1, <2>2, <2>3, <2>4 DEF PeakOf
<1>6. Filled(Len(spikes) - 1)'
  BY <1>1, <1>3 DEF Filled, WithinBin, intervals, Bins
<1>7. CASE at < hist_bins
  <2>1. pc' = "peak" /\ at' - 1 = m + 1 /\ at' \in 1 .. hist_bins
    BY <1>1, <1>2, <1>7
  <2> QED BY <1>1, <1>3, <1>4, <1>5, <1>6, <2>1 DEF Peaking, Bins, Setup, Analysed
<1>8. CASE ~(at < hist_bins)
  <2>1. pc' = "verdict" /\ hist_bins = m + 1
    BY <1>1, <1>2, <1>8
  <2> QED BY <1>1, <1>3, <1>4, <1>5, <1>6, <2>1 DEF Peaking, Bins, Setup, Analysed
<1> QED BY <1>7, <1>8

\* Every step keeps the invariant of the histogram.
LEMMA NextPeaking == Inv /\ Peaking /\ [Next]_vars => Peaking'
<1> SUFFICES ASSUME Inv, Peaking, [Next]_vars PROVE Peaking'
  OBVIOUS
<1>1. CASE Judge \/ Cleanup
  <2>1. /\ UNCHANGED <<T, spikes, hist, peak_bin, peak_count>>
        /\ pc' \in {"cleanup", "returned"} /\ (Analysed' => pc = "verdict" \/ Analysed)
    BY <1>1 DEF Judge, Cleanup, Goto, Returns, arguments, reads, histogram, Analysed
  <2> QED BY <2>1, HistogramStays DEF Peaking, Bins, Setup
<1>2. CASE UNCHANGED vars
  <2>1. UNCHANGED <<T, spikes, at, hist, peak_bin, peak_count, verdict, pc>>
    BY <1>2 DEF vars
  <2> QED BY <2>1, HistogramStays DEF Peaking, Bins, Setup, Analysed
<1> QED BY <1>1, <1>2, BeforeHistogram, FillPeaking, FindPeaking DEF Next, Inv

\* The histogram counts every interval near T in the bin it lies in, and the peak is its
\* highest bin (trefi_probe.cpp, lines 276-301), for every number of bins and every T.
THEOREM ProbePeakIsMode == Spec => []PeakIsMode
<1>1. Init => Peaking
  BY ProbeAssumption DEF Init, Peaking, NoPeak, Bins, Analysed
<1>2. Inv /\ Peaking => PeakIsMode
  <2> SUFFICES ASSUME Inv, Peaking, Analysed, T > 0 PROVE PeakIsMode
    BY DEF PeakIsMode
  <2> DEFINE n == Len(spikes) - 1
  <2>1. Len(spikes) > 1 /\ Filled(n) /\ PeakOf(hist_bins)
    BY DEF Inv, Counting, Peaking
  <2>2. /\ DOMAIN intervals = 1 .. n
        /\ \A i \in 1 .. n : intervals[i] \in Nat \ {0}
    BY <2>1, Intervals DEF Inv
  <2>3. hist \in [Bins -> Nat] /\ peak_bin \in Bins /\ peak_count \in Nat /\ T \in Nat
    BY DEF Inv, Types, Peaking
  <2>4. \A b \in Bins : /\ hist[b] = Cardinality({i \in 1 .. n : WithinBin(i, b)})
                        /\ hist[b] <= peak_count
    BY <2>1 DEF Filled, PeakOf, Bins
  <2>5. ASSUME NEW i \in 1 .. n, 100 * Deviation(intervals[i], 1) <= 15 * T
        PROVE  \E b \in Bins : WithinBin(i, b)
    <3>1. PICK x \in Nat \ {0}, t \in Nat \ {0} : x = intervals[i] /\ t = T
      BY <2>2, <2>3
    <3>2. 2 * x >= t /\ 2 * x < 3 * t
      BY <2>5, <3>1, SMTT(20) DEF Deviation
    <3>3. Bin(x) \in Bins
      BY <3>1, <3>2, BinBounds DEF Bins
    <3>4. WithinBin(i, Bin(x))
      BY <2>3, <3>1, <3>2, <3>3, BinOf
    <3> QED BY <3>3, <3>4
  <2>6. peak_count = hist[peak_bin]
    <3>1. CASE peak_count = 0
      <4>1. hist[peak_bin] \in Nat /\ hist[peak_bin] <= peak_count
        BY <2>3, <2>4
      <4> QED BY <3>1, <4>1
    <3>2. CASE peak_count = hist[peak_bin]
      BY <3>2
    <3> QED BY <2>1, <3>1, <3>2 DEF PeakOf
  <2> HIDE DEF n
  <2> QED BY <2>2, <2>3, <2>4, <2>5, <2>6 DEF PeakIsMode, Bins
<1> QED BY <1>1, <1>2, NextPeaking, ProbeInvariant, PTL DEF Spec
==============================================================================
