SPECIFICATION Spec
CONSTANTS
  Workers = {w1}
  NoWorker = NoWorker
  Jobs <- ChainJobs
  Algorithm <- ChainAlgorithm
  Dataset <- ChainDataset
  Tokens <- ChainOnes
  Memory <- ChainOnes
  Rank <- ChainRank
  CpuCores = 2
  UsableMemory <- UniformMemory
  MemoryPressure = TRUE
  Launched = FALSE
  MaxAttempts = 2
  Faults = {"host_crash", "orphan", "silent_exit", "stall", "lost_ack", "loop_error", "interrupt", "coordinator_crash"}
CHECK_DEADLOCK FALSE
INVARIANTS
  TypeOK
PROPERTIES
  OutcomesAreFinal
  ImplementsBoard
