SPECIFICATION Spec
CONSTANTS
  Txs = {t1}
  Outs = {o1}
  None = None
  AttemptsLimit = 1
  GiveUpLimit = 0
  MergeLimit = 1
  MaxRebroadcast = 0
  RebroadcastBound = 1
  UseSSE = FALSE
  UseSendWith = FALSE
  MaxCrashes = 0
  TaskRunConcurrency = 2
CHECK_DEADLOCK FALSE
PROPERTY TimeoutSparesBroadcast
