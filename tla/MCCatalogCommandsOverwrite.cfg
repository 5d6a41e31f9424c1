SPECIFICATION Spec
CONSTANTS
  Code     = {"a", "b"}
  Doc      = {1, 2, 9}
  Invalid  = {9}
  Files    <- MCFiles
  NoDoc    = 0
  Attempts = 3
  MaxEdits = 1
CHECK_DEADLOCK FALSE
INVARIANT
  NeverOverwrites
