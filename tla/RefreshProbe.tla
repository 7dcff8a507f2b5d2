---------------------------- MODULE RefreshProbe ----------------------------
(***************************************************************************)
(* The tREFI probe (probe/trefi_probe.cpp): it reads one address over and  *)
(* over, keeps the reads that were slow, and judges from the distances     *)
(* between them whether the DRAM refresh can be seen.                      *)
(*                                                                         *)
(* Times are in cycles.  Real-valued comparisons are kept exact by         *)
(* multiplying out: 0.85 T <= interval is 85 T <= 100 interval.            *)
(***************************************************************************)
EXTENDS Integers, Sequences, FiniteSetsExt

CONSTANTS ProbeCounts, Thresholds, ExpectedCycles,  \* --probes, --threshold, --trefi-us
          thresh_mult,
          kMAX_SPIKES,
          MinSpikes,   \* 10: fewer are not analysed
          hist_bins,
          Latencies,   \* of a read
          Gaps         \* cycles from one read to the next

ASSUME ProbeAssumption ==
  /\ ProbeCounts \subseteq Int /\ Thresholds \subseteq Nat /\ ExpectedCycles \subseteq Nat
  /\ thresh_mult \in Nat /\ kMAX_SPIKES \in Nat
  /\ MinSpikes \in Nat \ {0, 1} /\ hist_bins \in Nat \ {0}
  /\ Latencies \subseteq Nat /\ Gaps \subseteq Nat \ {0}

VARIABLES n_probes, manual_threshold, T,  \* the command line; T: expected_trefi_cyc
          privilege, page,                \* locked-memory privilege, the large page
          threshold,
          probes,                         \* history: every read of the main loop
          spikes,
          at,                             \* interval or bin the current loop looks at
          harmonics, count_other,         \* harmonics[k]: count_kT
          hist, peak_bin, peak_count,
          verdict, status, pc

vars == <<n_probes, manual_threshold, T, privilege, page, threshold, probes, spikes, at,
          harmonics, count_other, hist, peak_bin, peak_count, verdict, status, pc>>
arguments == <<n_probes, manual_threshold, T>>
held == <<privilege, page>>
reads == <<probes, spikes>>
counts == <<harmonics, count_other>>
histogram == <<hist, peak_bin, peak_count>>

Init ==
  /\ n_probes \in ProbeCounts /\ manual_threshold \in Thresholds /\ T \in ExpectedCycles
  /\ privilege = FALSE /\ page = "none"
  /\ threshold = 0 /\ probes = <<>> /\ spikes = <<>> /\ at = 1
  /\ harmonics = [k \in 1 .. 3 |-> 0] /\ count_other = 0
  /\ hist = [b \in 0 .. hist_bins - 1 |-> 0] /\ peak_bin = 0 /\ peak_count = 0
  /\ verdict = "none" /\ status = 0 /\ pc = "parse"

Goto(label) == pc' = label
Returns(code) == status' = code /\ Goto("returned")

-----------------------------------------------------------------------------
(* Setup: each step may end the program. *)

Parse ==
  /\ pc = "parse"
  /\ \/ Returns(0)    \* --help
     \/ Returns(1)    \* an option that cannot be parsed
     \/ Goto("privilege") /\ UNCHANGED status
  /\ UNCHANGED <<arguments, held, threshold, reads, at, counts, histogram, verdict>>

AcquirePrivilege ==
  /\ pc = "privilege"
  /\ \/ Returns(1) /\ UNCHANGED privilege
     \/ privilege' = TRUE /\ Goto("allocate") /\ UNCHANGED status
  /\ UNCHANGED <<arguments, page, threshold, reads, at, counts, histogram, verdict>>

\* Without the page the program returns past the clean-up.
AllocatePage ==
  /\ pc = "allocate"
  /\ \/ Returns(1) /\ UNCHANGED page
     \/ page' = "held" /\ Goto("calibrate") /\ UNCHANGED status
  /\ UNCHANGED <<arguments, privilege, threshold, reads, at, counts, histogram, verdict>>

\* The median is element n / 2 of the sorted calibration, so one of its latencies.
Calibrate ==
  /\ pc = "calibrate"
  /\ \E median \in Latencies :
       threshold' = IF manual_threshold > 0 THEN manual_threshold ELSE thresh_mult * median
  /\ Goto("probe")
  /\ UNCHANGED <<arguments, held, reads, at, counts, histogram, verdict, status>>

-----------------------------------------------------------------------------
(* The main loop *)

Above(read) == read.latency > threshold
Now == IF probes = <<>> THEN 0 ELSE probes[Len(probes)].tsc

ProbeOverwriting ==   \* mutant: a full vector keeps the latest spike in its last place
  /\ pc = "probe" /\ Len(probes) < n_probes
  /\ \E gap \in Gaps, latency \in Latencies :
       LET read == [tsc |-> Now + gap, latency |-> latency] IN
       /\ probes' = Append(probes, read)
       /\ spikes' = IF ~Above(read) THEN spikes
                    ELSE IF Len(spikes) < kMAX_SPIKES THEN Append(spikes, read)
                    ELSE [spikes EXCEPT ![kMAX_SPIKES] = read]
  /\ UNCHANGED <<arguments, held, threshold, at, counts, histogram, verdict, status, pc>>

Probe ==
  /\ pc = "probe" /\ Len(probes) < n_probes
  /\ \E gap \in Gaps, latency \in Latencies :
       LET read == [tsc |-> Now + gap, latency |-> latency] IN
       /\ probes' = Append(probes, read)
       /\ spikes' = IF Above(read) /\ Len(spikes) < kMAX_SPIKES
                    THEN Append(spikes, read) ELSE spikes
  /\ UNCHANGED <<arguments, held, threshold, at, counts, histogram, verdict, status, pc>>

ProbingEnds ==
  /\ pc = "probe" /\ Len(probes) >= n_probes
  /\ IF Len(spikes) < MinSpikes THEN verdict' = "insufficient" /\ Goto("cleanup")
     ELSE Goto("classify") /\ UNCHANGED verdict
  /\ UNCHANGED <<arguments, held, threshold, reads, at, counts, histogram, status>>

-----------------------------------------------------------------------------
(* The analysis: two loops over the intervals, one over the bins *)

intervals == [i \in 1 .. Len(spikes) - 1 |-> spikes[i + 1].tsc - spikes[i].tsc]

\* interval >= T * (k - 0.15) and interval <= T * (k + 0.15)
WideHarmonic(interval, k) ==  \* mutant: a band of 0.85 T around 2T and 3T
  100 * interval >= (85 * k) * T /\ 100 * interval <= (115 * k) * T
NearHarmonic(interval, k) ==
  100 * interval >= (100 * k - 15) * T /\ 100 * interval <= (100 * k + 15) * T

Advance(last, label) ==
  IF at < last THEN at' = at + 1 /\ UNCHANGED pc ELSE at' = 1 /\ Goto(label)

Classify ==
  /\ pc = "classify"
  /\ LET near == {k \in 1 .. 3 : NearHarmonic(intervals[at], k)} IN
       /\ harmonics' = [k \in 1 .. 3 |-> harmonics[k] + IF k \in near THEN 1 ELSE 0]
       /\ count_other' = count_other + IF near = {} THEN 1 ELSE 0
  /\ Advance(Len(intervals), "histogram")
  /\ UNCHANGED <<arguments, held, threshold, reads, histogram, verdict, status>>

\* Bins of width T / hist_bins from T / 2 to 3 T / 2.
BinFromZero(interval) == (interval * hist_bins) \div T - 1   \* mutant: bin_lo is forgotten
Bin(interval) == ((2 * interval - T) * hist_bins) \div (2 * T)

FillHistogram ==
  /\ pc = "histogram"
  /\ LET interval == intervals[at]
         inside == 2 * interval >= T /\ 2 * interval < 3 * T
     IN hist' = IF inside /\ Bin(interval) \in DOMAIN hist
                THEN [hist EXCEPT ![Bin(interval)] = @ + 1] ELSE hist
  /\ Advance(Len(intervals), "peak")
  /\ UNCHANGED <<arguments, held, threshold, reads, counts, peak_bin, peak_count,
                 verdict, status>>

FindPeak ==
  /\ pc = "peak"
  /\ IF hist[at - 1] > peak_count
     THEN peak_count' = hist[at - 1] /\ peak_bin' = at - 1
     ELSE UNCHANGED <<peak_count, peak_bin>>
  /\ Advance(hist_bins, "verdict")
  /\ UNCHANGED <<arguments, held, threshold, reads, counts, hist, verdict, status>>

harmonic == harmonics[1] + harmonics[2] + harmonics[3]

Judge ==
  /\ pc = "verdict"
  /\ verdict' = IF 100 * harmonic > 30 * Len(intervals) THEN "periodic"
                ELSE IF 100 * harmonic > 15 * Len(intervals) THEN "weak"
                ELSE "no signal"
  /\ Goto("cleanup")
  /\ UNCHANGED <<arguments, held, threshold, reads, at, counts, histogram, status>>

-----------------------------------------------------------------------------
CleanupKeepingPage ==   \* mutant: the jump lands behind freeLargePage
  /\ pc = "cleanup"
  /\ \/ privilege' = FALSE /\ Returns(status)
     \/ Returns(1) /\ UNCHANGED privilege
  /\ UNCHANGED <<arguments, page, threshold, reads, at, counts, histogram, verdict>>

Cleanup ==
  /\ pc = "cleanup"
  /\ page' = "freed"
  /\ \/ privilege' = FALSE /\ Returns(status)
     \/ Returns(1) /\ UNCHANGED privilege
  /\ UNCHANGED <<arguments, threshold, reads, at, counts, histogram, verdict>>

Next ==
  \/ Parse \/ AcquirePrivilege \/ AllocatePage \/ Calibrate
  \/ Probe \/ ProbingEnds
  \/ Classify \/ FillHistogram \/ FindPeak \/ Judge
  \/ Cleanup

Spec == Init /\ [][Next]_vars

-----------------------------------------------------------------------------
Analysed == pc \in {"cleanup", "returned"} /\ verdict \notin {"none", "insufficient"}

TypeOK ==
  /\ privilege \in BOOLEAN /\ page \in {"none", "held", "freed"}
  /\ threshold \in Nat /\ Len(spikes) <= kMAX_SPIKES
  /\ \A k \in 1 .. 3 : harmonics[k] \in Nat
  /\ \A b \in 0 .. hist_bins - 1 : hist[b] \in Nat
  /\ verdict \in {"none", "insufficient", "periodic", "weak", "no signal"}
  /\ status \in {0, 1}

\* What is kept of the reads is a prefix of the slow ones, in the order they came
\* and cut off at kMAX_SPIKES: neighbours in spikes are consecutive slow reads, so
\* their distance is an interval between spikes (lines 197-202, 229-231).
RecordsFirstSpikes ==
  LET slow == {i \in DOMAIN probes : Above(probes[i])}
      Place(i) == Cardinality({j \in slow : j <= i})
  IN /\ Len(spikes) = Min({Cardinality(slow), kMAX_SPIKES})
     /\ \A i \in slow : Place(i) <= kMAX_SPIKES => spikes[Place(i)] = probes[i]

\* Each interval is counted under one heading: under a multiple of T within 15% of T,
\* or under "other"; the percentages of the report add up to the verdict's share
\* (lines 238-265).
Deviation(interval, k) == IF interval >= k * T THEN interval - k * T ELSE k * T - interval
EveryIntervalClassified ==
  Analysed =>
    /\ harmonic + count_other = Len(intervals)
    /\ \A k \in 1 .. 3 : harmonics[k] =
         Cardinality({i \in DOMAIN intervals : 100 * Deviation(intervals[i], k) <= 15 * T})
    /\ verdict = "periodic" <=> 100 * (Len(intervals) - count_other) > 30 * Len(intervals)

\* Interval i lies within half a bin width of the centre of bin b.
WithinBin(i, b) ==
  LET doubled == 2 * hist_bins * intervals[i]
      centre == hist_bins * T + (2 * b + 1) * T
  IN doubled >= centre - T /\ doubled < centre + T

\* A bin counts the intervals within half a bin of its centre, no interval near T is
\* missing from the histogram, and the reported peak is the centre of a bin that no
\* other exceeds (lines 276-301).
PeakIsMode ==
  Analysed /\ T > 0 =>
    /\ \A b \in 0 .. hist_bins - 1 :
         /\ hist[b] = Cardinality({i \in DOMAIN intervals : WithinBin(i, b)})
         /\ hist[b] <= peak_count
    /\ \A i \in DOMAIN intervals : 100 * Deviation(intervals[i], 1) <= 15 * T =>
         \E b \in 0 .. hist_bins - 1 : WithinBin(i, b)
    /\ peak_bin \in 0 .. hist_bins - 1 /\ peak_count = hist[peak_bin]

\* The page never outlives the program by an early return, and a run that reports
\* success has also given the privilege back (lines 126-133, 218-223, 340-350).
ReleasedAtExit ==
  pc = "returned" => page # "held" /\ (status = 0 => ~privilege)
=============================================================================
