SPECIFICATION Spec
INVARIANTS ProbesReportExact ProbesMemorySafe ProbesPathsClean DecodersExact NumbersExact
PROPERTIES ProbesReturn
CHECK_DEADLOCK FALSE
CONSTANTS
  CtxModes = {0, 1, 2, 3}
  CtxMaxLate = 1
  IrqCpus = {1, 2}
  IrqSamples = 1
  IrqSps = {1, 2}
  IrqMaxIrqs = 2
  CpStackLo = 1
  CpStackHi = 6
  CpMaxFrames = 3
  CpNWaiters = 2
  RmRounds = 2
