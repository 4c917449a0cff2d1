\* Two equipments, two physics TFs, calls of one or two HBFrames, topology
\* STFs of two messages, one failed header allocation, a 3-bit sTfId.  The
\* readout stops after MaxCalls calls, so the builder may come to rest.
CONSTANTS
  SubSpecs = {1, 2}
  TfIds = {1, 2}
  Lens = {1, 2}
  MaxNumMessages = 2
  FilterEmpty = TRUE
  SanityDrop = FALSE
  IdBits = 3
  MaxCalls = 4
  MaxAllocFail = 1
SPECIFICATION Spec
INVARIANTS
  TypeOK
  NoPartialPhysStf
CHECK_DEADLOCK FALSE
