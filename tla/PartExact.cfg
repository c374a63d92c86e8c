SPECIFICATION Spec
CONSTANTS
  Datasets <- MixedDatasets
  K = 2
  Variants = {TRUE, FALSE}
CHECK_DEADLOCK FALSE
INVARIANTS
  DistanceIsEarned
  ResultIsExact
  NoLeftovers
