SPECIFICATION FairSpec
CONSTANTS
  Dataset = {d1, d2, d3}
  Concurrency = 2
  Retries = 1
  Limits = {0, 1, 2}
CHECK_DEADLOCK FALSE
INVARIANTS
  InFlightIsExact
  LossStopsDiscovery
  ReturnedIsRecorded
  CleanEnd
PROPERTIES
  RecordedOnce
  CancelEnds
  RunEnds
