SPECIFICATION Spec
CONSTANTS
  NDEBUG = FALSE
  Machine <- MCTwoThreads
  ArmChoices <- MCOneArm
  ChannelChoices = {1, 2, 4}
  StressChoices <- MCStress
  MaxPages = 3
INVARIANTS
  EveryChannelHasACore
  LoadMatchesArm
  PagesInsideRegion
  CheckSuffices
  ReleasedAtExit
CHECK_DEADLOCK FALSE
