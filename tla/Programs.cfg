SPECIFICATION Spec
INVARIANTS WbScenarioExact SpyExact LitmusOutcomes LabCountsExact
PROPERTIES ProgramsEnd
CHECK_DEADLOCK FALSE
CONSTANTS
  WbMaxRuns = 2
  WbProps = {"ACTIVE", "blend", "CRTC_ID", "WRITEBACK_OUT_FENCE_PTR", "WRITEBACK_FB_ID"}
  SpyThreads = {1, 2}
  SpyMaxObj = 3
  SpyNames = {1, 2}
  SpyMAXB = 2
  SpyAreas <- MCSpyAreas
  LitN = 2
  LitREP = 2
  LitIters = 2
  ForkN = 3
  ForkROUNDS = 2
  ThrNthr = 2
  ThrROUNDS = 1
  ThrMaxOps = 2
  FltPages = 2
  FltThreads = {1, 2, 3}
  FltMaxOther = 1
