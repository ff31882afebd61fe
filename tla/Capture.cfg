SPECIFICATION Spec
CONSTANTS
  MaxThreads = 3
  None = None
  Adapters = {a1, a2}
  MaxRestarts = 2
  MaxQuiet = 2
  MaxOps = 3
  MaxChurn = 1
CHECK_DEADLOCK FALSE
INVARIANTS OneSession OneVoice
PROPERTIES OpReturns
