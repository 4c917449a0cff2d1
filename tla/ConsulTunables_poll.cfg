\* Two parameters (one DataDist global, one per process), the bool and the
\* numeric getters, two operator edits and one Consul error.
CONSTANTS
  Keys = {1, 2}
  DataDistKeys = {1}
  Types = {"bool", "int"}
  MaxOpWrites = 2
  MaxErrors = 1
SPECIFICATION Spec
INVARIANTS TypeOK
PROPERTIES ConfiguredValueApplied MissingDefaultsPublished
