SPECIFICATION FairSpec
CONSTANTS
  Cardinalities = {0, 1, 5, 6}
  InitialGroups = 2
  PartitionThreshold = 3
  RecordsPerGroup = 1
  Faults = {"kill", "power_loss"}
  MaxFaults = 2
INVARIANTS
  TypeOK
  SingleLossIsSurvived
  LevelsAreNested
  ProgressIsBacked
PROPERTIES
  RecordedWorkIsKept
  GroupsGetReady
CONSTRAINTS
  FewFaults
