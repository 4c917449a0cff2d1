\* Four sampled STFs of size 1 or 2, two per file, a 4-unit file limit, one
\* writer construction and one write that fail.
CONSTANTS
  NumStfs = 4
  StfsPerFile = 2
  FileSize = 4
  StfSizes = {1, 2}
  Percentage = 50
  MaxCreateFail = 1
  MaxWriteFail = 1
  SinkReady = TRUE
SPECIFICATION Spec
INVARIANTS
  TypeOK
  FileStfLimit
  ShortFileOnlyAfterFailure
