SPECIFICATION Spec
CONSTANTS
  NumRecords = 4
  MaxToken = 2
  Datasets <- MCDatasets
  K = 2
  Algorithms = {"baseline", "baselinepp", "les3", "transformation"}
  Preprocessing = {"baseline", "baselinepp"}
  BatchBound = 2
  GroupFiles <- MCGroupFiles
  Trees <- MCTrees
  Dimensions = 2
CHECK_DEADLOCK FALSE
INVARIANTS
  ResultIsExact
  NothingOverlooked
