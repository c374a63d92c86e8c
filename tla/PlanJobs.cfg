SPECIFICATION Spec
CONSTANTS
  Requests <- SmallRequests
  Sizes = {0, 30, 90}
  TokenCounts = {1, 20}
  HostMemories = {10, 200}
  KValues = {5, 10}
  ScalK = 20
  ScalConcurrencies = {2, 16}
  CpuCores = 8
  PhysicalCores = 32
  ReserveBytes = 8
  BytesPerToken = 54
INVARIANTS
  DocumentsSuitScheduler
  BlockedJobsCanStart
  CommandsAreAccepted
  AlgorithmsDiffer
  PuffinnFits
  NothingIsDropped
CHECK_DEADLOCK FALSE
