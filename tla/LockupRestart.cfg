CONSTANTS
  CPUs = {0, 1}
  InitThresh = 5
  ThreshValues = {}
  LockKinds = {"soft", "hard"}
  LockSecs = {13}
  MaxLockups = 0
  MaxStarts = 4
  MaxNow = 12
  MayFailThread = FALSE
SPECIFICATION Spec
PROPERTIES HardTruthful
