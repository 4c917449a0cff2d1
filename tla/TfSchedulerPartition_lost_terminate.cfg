\* A TerminatePartition request racing PartitionMonitorThread.
CONSTANTS
  x1 = x1
  x2 = x2
  b1 = b1
  b2 = b2
  Senders <- MCSenders
  Builders <- MCBuilders
  MaxSenderLoss = 0
  MaxCrash = 0
  MaxTerminate = 1
SPECIFICATION Spec

PROPERTIES TerminationNotUndone
