SPECIFICATION FairSpec
CONSTANTS
  Worker = {w1}
  Job = {j1}
  NoJob = NoJob
  Lease = 11
  Margin = 2
  ClaimSeconds = 3
  CallSeconds = 1
  HeartbeatSeconds = 2
  CleanupSeconds = 1
  Stall = 1
  MaxLate = 1

CHECK_DEADLOCK FALSE
INVARIANT
  WatchdogIsBackstop
PROPERTIES
  CancelSettles
  OrphanReleased
  StopExits
