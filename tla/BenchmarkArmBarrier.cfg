SPECIFICATION Spec
CONSTANTS
  Plan <- MCHedgedQuiet
  NStress = 1
INVARIANT
  SetupIsOverWhenMeasuring
