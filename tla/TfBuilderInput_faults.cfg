\* One lost fetch, one duplicated fragment and a stop() at any point: still
\* no TF built twice or out of order, and stop() returns.
CONSTANTS
  s1 = s1
  s2 = s2
  NoValue = NoValue
  Senders <- MCSenders
  NumTfs = 2
  MaxLost = 1
  MaxDup = 1
  MayStop = TRUE
SPECIFICATION Spec
INVARIANTS
  DeliveredInIdOrder
PROPERTIES
  StopCompletes
