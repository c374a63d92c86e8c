SPECIFICATION FairSpec
CONSTANTS
  Setups <- Grouped
  Dimensions = 2
PROPERTIES
  LookupEnds
CHECK_DEADLOCK FALSE
