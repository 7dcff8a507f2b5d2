SPECIFICATION Spec
CONSTANTS
  Buffers <- MCBuffers
  NoPackage = 65535
  Undefined = 4194304
  MaxInitialize = 2
INVARIANTS
  EveryProcessorOnce
  CoresIdentified
  CountsDescribe
  UsableIsRunnable
