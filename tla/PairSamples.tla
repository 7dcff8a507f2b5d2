----------------------------- MODULE PairSamples -----------------------------
(***************************************************************************)
(* What becomes of the samples of one arm (benchmark/source/benchmark.cpp, *)
(* pair_samples_n and process_hedged_data; benchmark/source/stats.cpp).    *)
(*                                                                         *)
(* Every channel brings the samples of its own measurement thread, taken   *)
(* at its own pace.  The loop slides one window over each of them: where   *)
(* the timestamps lie within MAX_PAIR_GAP of each other it takes the       *)
(* lowest latency, elsewhere it advances the channel that lags behind.     *)
(***************************************************************************)
EXTENDS Integers, Sequences, FiniteSetsExt, Functions

CONSTANTS Channels,      \* n_channels of the arm, numbered from 1
          num_samples,
          MAX_PAIR_GAP,
          Timestamps,    \* bound on the timestamps
          Latencies      \* bound on the latencies

ASSUME PairAssumption ==
  /\ Channels \in Nat \ {0} /\ num_samples \in Nat /\ MAX_PAIR_GAP \in Nat
  /\ Timestamps \subseteq Nat /\ Latencies \subseteq Nat

ChannelIds == 1 .. Channels
SampleIds == 0 .. num_samples - 1

VARIABLES timestamp, latency,  \* the samples, by channel and index
          indices,             \* the windows
          effective,           \* out_effective
          paired,              \* history: the windows each value was taken at
          pc

vars == <<timestamp, latency, indices, effective, paired, pc>>
samples == <<timestamp, latency>>

\* The samples of one channel: rdtsc between fences makes its timestamps
\* increase; a thread that gave up in its setup leaves the zeros of memset.
Increasing ==
  {s \in [SampleIds -> Timestamps] : \A i, j \in SampleIds : i < j => s[i] < s[j]}
Zeroed == [i \in SampleIds |-> 0]
ChannelSamples ==
  (Increasing \X [SampleIds -> Latencies]) \cup {<<Zeroed, Zeroed>>}

Init ==
  /\ \E taken \in [ChannelIds -> ChannelSamples] :
       /\ timestamp = [c \in ChannelIds |-> taken[c][1]]
       /\ latency = [c \in ChannelIds |-> taken[c][2]]
  /\ indices = [c \in ChannelIds |-> 0]
  /\ effective = <<>> /\ paired = <<>>
  /\ pc = "pairing"

TimestampsAt(w) == {timestamp[c][w[c]] : c \in ChannelIds}
LatenciesAt(w) == {latency[c][w[c]] : c \in ChannelIds}

out_of_bounds == \E c \in ChannelIds : indices[c] >= num_samples
Spread(w) == Max(TimestampsAt(w)) - Min(TimestampsAt(w))

\* mutant: the channel that is ahead advances.
max_idx_channel ==
  Max({c \in ChannelIds : timestamp[c][indices[c]] = Max(TimestampsAt(indices))})

\* The first channel, in the order of the loop, whose timestamp is the lowest.
min_idx_channel ==
  Min({c \in ChannelIds : timestamp[c][indices[c]] = Min(TimestampsAt(indices))})

PairAndAdvanceOne ==      \* mutant: only the lagging window moves on
  /\ pc = "pairing" /\ ~out_of_bounds
  /\ Spread(indices) < MAX_PAIR_GAP
  /\ effective' = Append(effective, Min(LatenciesAt(indices)))
  /\ paired' = Append(paired, indices)
  /\ indices' = [indices EXCEPT ![min_idx_channel] = @ + 1]
  /\ UNCHANGED <<samples, pc>>

Pair ==
  /\ pc = "pairing" /\ ~out_of_bounds
  /\ Spread(indices) < MAX_PAIR_GAP
  /\ effective' = Append(effective, Min(LatenciesAt(indices)))
  /\ paired' = Append(paired, indices)
  /\ indices' = [c \in ChannelIds |-> indices[c] + 1]
  /\ UNCHANGED <<samples, pc>>

AdvanceLagging ==
  /\ pc = "pairing" /\ ~out_of_bounds
  /\ Spread(indices) >= MAX_PAIR_GAP
  /\ indices' = [indices EXCEPT ![min_idx_channel] = @ + 1]
  /\ UNCHANGED <<samples, effective, paired, pc>>

\* A single channel is not paired at all (process_hedged_data).
PairingEnds ==
  /\ pc = "pairing" /\ (out_of_bounds \/ Channels = 1)
  /\ pc' = "done"
  /\ UNCHANGED <<samples, indices, effective, paired>>

Next ==
  \/ Channels > 1 /\ (Pair \/ AdvanceLagging)
  \/ PairingEnds

Spec == Init /\ [][Next]_vars

------------------------------------------------------------------------------
\* compute_percentiles: p50, p90, p95, p99, p99.9 and p99.99, the last two with
\* the index clamped.
Orders ==
  {order \in Bijection(DOMAIN effective, DOMAIN effective) :
     \A i, j \in DOMAIN effective : i <= j => effective[order[i]] <= effective[order[j]]}
sorted ==
  LET order == CHOOSE order \in Orders : TRUE
  IN [i \in DOMAIN effective |-> effective[order[i]]]

Rank(n, quantile) == (n * quantile) \div 10000

Quantiles == {5000, 9000, 9500, 9900, 9990, 9999}
Clamped == {9990, 9999}

IndexRoundedUp(n, quantile) == (n * quantile) \div 10000 + 1   \* mutant: off by one

PercentileIndex(n, quantile) ==
  IF quantile \in Clamped THEN Min({n - 1, Rank(n, quantile)}) ELSE Rank(n, quantile)

Percentile(quantile) == sorted[PercentileIndex(Len(effective), quantile) + 1]

------------------------------------------------------------------------------
(* What the pairing promises. *)

TypeOK ==
  /\ timestamp \in [ChannelIds -> [SampleIds -> Timestamps \cup {0}]]
  /\ latency \in [ChannelIds -> [SampleIds -> Latencies \cup {0}]]
  /\ indices \in [ChannelIds -> 0 .. num_samples]
  /\ Len(paired) = Len(effective) /\ Len(paired) <= num_samples
  /\ pc \in {"pairing", "done"}

\* "trying to pair threads that have a timestamp within a super small gap ... and
\* take the minimum" (benchmark.cpp, lines 332-336): every value is the lowest
\* latency of samples that lie within the gap of each other, and no sample is counted
\* twice: the windows of successive pairs move forward on every channel, whatever
\* happened between them.
PairsAreSound ==
  /\ \A k \in DOMAIN paired :
       /\ Spread(paired[k]) < MAX_PAIR_GAP
       /\ effective[k] = Min(LatenciesAt(paired[k]))
  /\ \A k \in 1 .. Len(paired) - 1 : \A c \in ChannelIds :
       paired[k][c] < paired[k + 1][c]

\* Ways to take n pairs from the samples: windows within the gap, each past the one before.
Pairings(n) ==
  {s \in [1 .. n -> {w \in [ChannelIds -> SampleIds] : Spread(w) < MAX_PAIR_GAP}] :
     \A k \in 1 .. n - 1 : \A c \in ChannelIds : s[k][c] < s[k + 1][c]}

\* The greedy loop loses no pair: of all ways to pair samples none has one pair more (and
\* so none has many more, since a longer one starts with one of that length).
FindsMostPairs ==
  pc = "done" /\ Channels > 1 => Pairings(Len(paired) + 1) = {}

\* The reported percentiles exist, and at least the named share of the values
\* lies at or below each (stats.cpp, lines 59-82).
PercentilesCover ==
  pc = "done" /\ effective # <<>> =>
    \A q \in Quantiles :
      /\ PercentileIndex(Len(effective), q) + 1 \in DOMAIN sorted
      /\ Cardinality({k \in DOMAIN effective : effective[k] <= Percentile(q)}) * 10000
           >= q * Len(effective)

==============================================================================
