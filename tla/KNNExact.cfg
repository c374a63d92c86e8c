SPECIFICATION Spec
CONSTANTS
  Setups <- MCSetups
  Dimensions = 2
INVARIANTS
  TypeOK
  ResultIsExact
  UnseenIsCovered
  PartialOverlapIsExact
  NoLeftovers
CHECK_DEADLOCK FALSE
