SPECIFICATION Spec
CONSTANTS
  NDEBUG = FALSE
  Machine <- MCTwoThreads
  ArmChoices <- MCAll
  ChannelChoices = {2}
  StressChoices = {2}
  MaxPages = 3
INVARIANT EveryChannelHasACore
CHECK_DEADLOCK FALSE
