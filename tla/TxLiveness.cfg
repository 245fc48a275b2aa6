SPECIFICATION FairSpec
CONSTANTS
  Txs = {t1}
  Outs = {o1}
  None = None
  AttemptsLimit = 0
  GiveUpLimit = 0
  MergeLimit = 0
  MaxRebroadcast = 1
  RebroadcastBound = 1
  UseSSE = TRUE
  UseSendWith = FALSE
  MaxCrashes = 1
  TaskRunConcurrency = 2
CHECK_DEADLOCK FALSE
PROPERTIES Settles InputsReturn ProvenReqCloses ProofReachesTransaction
