SPECIFICATION Spec
INVARIANTS LabsInv LabsUnloadClean LbReportExact
PROPERTIES KhReportTruthful KhHungReported DlDeadlockResolved LabsReturn
CHECK_DEADLOCK FALSE
CONSTANTS
  DlModes = {"aa", "abba", "try", "book"}
  DlTimeliness = {TRUE, FALSE}
  RwModes = {1, 2, 3}
  RwTimeliness = {TRUE, FALSE}
  RwMayFailThread = TRUE
  LbSchedule <- Rounds
  LbMaxThreads = 2
  LbMaxOps = 1
  LbMaxSwitches = 1
  LbMayFailThread = TRUE
  KhPids = {1, 2}
  KhHtMax = 2
  KhMaxSwitch = 2
  KhMaxOn = 2
  FullPids = {1, 2}
  FullHtMax = 1
  FullMaxSwitch = 1
  FullMaxOn = 1
