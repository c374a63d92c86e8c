SPECIFICATION Spec
CONSTANTS
  Cardinalities = {4}
  InitialGroups = 1
  PartitionThreshold = 2
  RecordsPerGroup = 1
  Faults = {"kill", "power_loss"}
  MaxFaults = 2
INVARIANTS
  RunLeavesCompleteFile
