SPECIFICATION Spec
CONSTANTS
  t0 = t0
  t1 = t1
  t2 = t2
  t3 = t3
  t4 = t4
  p0 = p0
  p1 = p1
  e0 = e0
  Threads <- MCThreads
  Cores <- MCCores
  CoreOf <- MCCoreOf
  NoThread = NoThread
  NoCore = NoCore
  CountBound = 7
INVARIANTS
  TypeOK
  CoreState
  CoreCountExact
  ThreadCountExact
  NoThreadLostOrShared
PROPERTIES
  RefusedOnlyWhenExhausted
  ImplementsPool
