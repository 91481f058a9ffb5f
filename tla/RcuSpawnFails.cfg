CONSTANTS
  Readers = {r1}
  Rounds = 2
  MayFailThread = TRUE
SPECIFICATION Spec
PROPERTIES InsmodReturns
CHECK_DEADLOCK FALSE
