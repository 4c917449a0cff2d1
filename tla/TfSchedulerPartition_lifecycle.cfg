\* Partition life cycle with one StfSender loss, one TfBuilder crash and one
\* TerminatePartition request.
CONSTANTS
  x1 = x1
  x2 = x2
  b1 = b1
  b2 = b2
  Senders <- MCSenders
  Builders <- MCBuilders
  MaxSenderLoss = 1
  MaxCrash = 1
  MaxTerminate = 1
SPECIFICATION Spec
INVARIANTS TypeOK
PROPERTIES SenderLossReported TeardownCompletes
