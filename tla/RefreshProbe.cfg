SPECIFICATION Spec
CONSTANTS
  thresh_mult = 1
  kMAX_SPIKES = 4
  MinSpikes = 3
  hist_bins = 4
  ProbeCounts <- MCProbeCounts
  Thresholds <- MCThresholds
  ExpectedCycles <- MCExpectedCycles
  Latencies <- MCLatencies
  Gaps <- MCGaps
INVARIANTS
  RecordsFirstSpikes
  EveryIntervalClassified
  PeakIsMode
  ReleasedAtExit
CHECK_DEADLOCK FALSE
