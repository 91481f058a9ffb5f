CONSTANTS
  CPUs = {0, 1, 2}
  Modes = {0, 1, 2}
  LateModes = {1, 2}
SPECIFICATION Spec
INVARIANTS SerialInv ReportSound
PROPERTIES NothingForgotten ImplementsMeter
