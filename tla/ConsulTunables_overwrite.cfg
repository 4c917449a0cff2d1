\* A getter queues the default of a missing parameter; the operator then
\* sets it; the next poll round writes the default over it.
CONSTANTS
  Keys = {1, 2}
  DataDistKeys = {1}
  Types = {"bool", "int"}
  MaxOpWrites = 2
  MaxErrors = 1
SPECIFICATION Spec
PROPERTIES OperatorValueKept
