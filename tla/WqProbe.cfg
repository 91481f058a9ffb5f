CONSTANTS
  NWork = 3
  Workers = {1, 2, 3}
  Modes = {0, 1, 2, 3}
SPECIFICATION Spec
INVARIANTS ItemsInv
PROPERTIES CompletionArrives BlockedWorkDoesNotBlockOthers ImplementsMeter
