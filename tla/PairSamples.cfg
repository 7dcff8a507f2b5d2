SPECIFICATION Spec
CONSTANTS
  Channels = 2
  num_samples = 3
  MAX_PAIR_GAP = 2
  Timestamps <- MCTimestamps
  Latencies <- MCLatencies
INVARIANTS
  PairsAreSound
  FindsMostPairs
  PercentilesCover
CHECK_DEADLOCK FALSE
