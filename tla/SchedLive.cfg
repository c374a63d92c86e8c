SPECIFICATION FairSpec
CONSTANTS
  Workers = {w1, w2}
  NoWorker = NoWorker
  Jobs <- MixedJobs
  Algorithm <- MixedAlgorithm
  Dataset <- MixedDataset
  Tokens <- MixedOnes
  Memory <- MixedMemory
  Rank <- MixedRank
  CpuCores = 2
  UsableMemory <- UnevenMemory
  MemoryPressure = FALSE
  Launched = TRUE
  MaxAttempts = 2
  Faults = {"host_crash"}
CHECK_DEADLOCK FALSE
INVARIANTS
  CapacityKept
  WorkIsLeased
  RecordsAgree
  SkippedNeverStarted
PROPERTIES
  RunEnds
