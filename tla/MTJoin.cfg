SPECIFICATION FairSpec
CONSTANTS
  t1 = t1
  t2 = t2
  Threads <- MCThreads
  RecordSize <- MCRecordSize
  Drivers = {"batched", "grouped"}
  BatchSize = 2
  Interval = 3
  Requested = 5
  TimeoutEnabled = TRUE
INVARIANTS
  TypeOK
  PerformedIsExact
  EachQueryHasOnePlace
  HonestReport
  StopIsJustified
  LateCrossingIsNoticed
PROPERTIES
  ImplementsRun
  LateCrossingStops
  RunEnds
CHECK_DEADLOCK FALSE
