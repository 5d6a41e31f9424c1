SPECIFICATION Spec
CONSTANTS
  Kpi = {k1}
  Concurrency = 2
  Day = 2
  Window = 1
  Start = 1
  Horizon = 4
  Changes = 1
INVARIANTS
  NoChangeMissed
