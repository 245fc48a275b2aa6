SPECIFICATION Spec
CONSTANTS
  Txs = {t1,t2}
  Outs = {o1}
  None = None
  AttemptsLimit = 0
  GiveUpLimit = 0
  MergeLimit = 0
  MaxRebroadcast = 0
  RebroadcastBound = 1
  UseSSE = TRUE
  UseSendWith = FALSE
  MaxCrashes = 0
  TaskRunConcurrency = 2
CHECK_DEADLOCK FALSE
SYMMETRY Symmetry
INVARIANTS LiveInputsHeld NoCrossSpend
