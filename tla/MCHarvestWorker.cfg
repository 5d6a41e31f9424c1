SPECIFICATION Spec
CONSTANTS
  Worker = {w1, w2}
  Job = {j1, j2}
  NoJob = NoJob
  Lease = 3
  Margin = 1
  ClaimSeconds = 1
  CallSeconds = 1
  HeartbeatSeconds = 1
  CleanupSeconds = 1
  Stall = 0
  MaxLate = 1
SYMMETRY Symmetry
CHECK_DEADLOCK FALSE
INVARIANTS
  LeaseCoversWork
  AtMostOneWorking
