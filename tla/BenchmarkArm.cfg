SPECIFICATION Spec
CONSTANTS
  Plan <- MCQuietThenStress
  NStress = 2
INVARIANTS
  SamplesSafe
  LocalsOutliveThreads
  NoEarlyMeasurement
  LoadMatchesArm
PROPERTIES
  Termination
