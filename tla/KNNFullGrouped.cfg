SPECIFICATION Spec
CONSTANTS
  Setups <- Widening
  Dimensions = 2
INVARIANTS
  CompareAssertion
CHECK_DEADLOCK FALSE
