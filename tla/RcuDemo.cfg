CONSTANTS
  Readers = {r1, r2}
  Rounds = 2
  MayFailThread = FALSE
SPECIFICATION Spec
INVARIANTS IInv NoUseAfterFree CleanUnload
PROPERTIES ReadsMoveForward CommandsReturn
