\* DropWaitThread bookkeeping over three dropped STFs.  The crash outcome of
\* the past-end iterator ends the process, so terminal states are expected.
CONSTANTS
  StfIds = {1, 2, 3}
SPECIFICATION Spec
INVARIANTS
  TypeOK
PROPERTIES
  DropEventuallyLogged
CHECK_DEADLOCK FALSE
