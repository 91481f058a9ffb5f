CONSTANTS
  CPUs = {0, 1}
  InitThresh = 5
  ThreshValues = {10}
  LockKinds = {"soft", "hard"}
  LockSecs = {13}
  MaxLockups = 1
  MaxStarts = 1
  MaxNow = 17
  MayFailThread = FALSE
SPECIFICATION Spec
INVARIANTS UnloadInv SoftFollows HardCaught
PROPERTIES ReportsTruthful RmmodReturns
