CONSTANTS
  Modes = {"abba"}
  Timeliness = {FALSE}
SPECIFICATION Spec
PROPERTIES NothingLeftBehind
CHECK_DEADLOCK FALSE
