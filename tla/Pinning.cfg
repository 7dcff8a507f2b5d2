SPECIFICATION PinSpec
CONSTANTS
  Buffers <- MCBuffers
  NoPackage = 65535
  Undefined = 4194304
  MaxInitialize = 1
INVARIANT CoresNotShared
CHECK_DEADLOCK FALSE
