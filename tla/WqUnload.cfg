CONSTANTS
  NWork = 2
  Workers = {1, 2}
  Modes = {0, 1}
SPECIFICATION Spec
INVARIANTS UnloadSafe
