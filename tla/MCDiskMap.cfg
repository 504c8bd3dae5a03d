\* Pages of three entries and of three elements; MCLoads says which trees.
CONSTANTS
  KMax = 3
  PageSize = 3
  Loads <- MCLoads
  Versions <- MCVersions

SPECIFICATION Spec
VIEW View
INVARIANTS
  TreeSound
  IterationComplete
  BlanksSound
  ReadsAsPut
