SPECIFICATION Spec
CONSTANTS
  Request = {r1, r2, r3}
  BaseInterval = 2
  Increase = 1
  MaxConcurrency = 2
  Cooldowns = {0, 5}
  Attempts = 2
  Horizon = 6
SYMMETRY Symmetry
CHECK_DEADLOCK FALSE
INVARIANTS
  PermitsConserved
PROPERTIES
  MinSpacing
  CooldownHonoured
