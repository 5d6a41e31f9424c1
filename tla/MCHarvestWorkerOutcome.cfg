SPECIFICATION Spec
CONSTANTS
  Worker = {w1}
  Job = {j1, j2}
  NoJob = NoJob
  Lease = 4
  Margin = 2
  ClaimSeconds = 1
  CallSeconds = 2
  HeartbeatSeconds = 1
  CleanupSeconds = 1
  Stall = 1
  MaxLate = 1

CHECK_DEADLOCK FALSE
INVARIANTS
  OutcomeIsEarned
  ReportTellsTruth
PROPERTY
  ImplementsQueue
