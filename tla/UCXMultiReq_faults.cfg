\* Four reads through two slots with one error completion and one epoll
\* failure, beside one pool thread's region lookups racing the
\* registration of two regions, one remote key failure included.
CONSTANTS
  SlotsCount = 2
  NumGets = 4
  MaxErrors = 1
  MaxEpollErrors = 1
  t1 = t1
  Threads <- MCThreads
  RegionIds = {1, 2}
  Base <- MCBase
  Size <- MCSize
  Buffers <- MCBuffers
  MaxLookups = 3
  MaxKeyFails = 1
SPECIFICATION Spec
INVARIANTS
  TypeOK
  RegionLookupCorrect
PROPERTIES
  WaitReturnsUnlessError
  MultiReqContractRefined
CHECK_DEADLOCK FALSE
