SPECIFICATION Spec
CONSTANTS
  SizeOfT = 1
  ChannelOffset = 4
  NumChannels = 2
  Replicas = 2
  PageBytes = 16
  NDEBUG = FALSE
  Request = 16
  MaxInserts = 8
  MaxReaders = 2
  Attempts <- MCAttempts
INVARIANTS
  CopiesHold
  ReplicasOnDifferentChannels
  NoWorkerOutlivesThePage
PROPERTIES
  WorkersReturn
CHECK_DEADLOCK FALSE
