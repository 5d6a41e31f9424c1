SPECIFICATION Spec
CONSTANTS
  Dataset = {d1, d2}
  Stamp = {1, 2}
  Concurrency = 2
  Versions = 2
SYMMETRY Symmetry
INVARIANTS
  NoUpdateMissed
