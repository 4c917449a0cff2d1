\* Reliable fetches: every TF is built complete, once, in order, or dropped.
CONSTANTS
  s1 = s1
  s2 = s2
  NoValue = NoValue
  Senders <- MCSenders
  NumTfs = 3
  MaxLost = 0
  MaxDup = 0
  MayStop = FALSE
SPECIFICATION Spec
INVARIANTS
  TypeOK
  DeliveredTfComplete
  DeliveredInIdOrder
PROPERTIES
  AdmittedTfResolved
