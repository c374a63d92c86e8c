SPECIFICATION Spec
CONSTANTS
  Datasets <- PowerOfTwoDatasets
  K = 2
  Variants = {FALSE}
CHECK_DEADLOCK FALSE
INVARIANTS
  CompareIsSilent
