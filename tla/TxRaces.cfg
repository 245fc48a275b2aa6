SPECIFICATION Spec
CONSTANTS
  Txs = {t1}
  Outs = {o1}
  None = None
  AttemptsLimit = 1
  GiveUpLimit = 0
  MergeLimit = 1
  MaxRebroadcast = 1
  RebroadcastBound = 1
  UseSSE = TRUE
  UseSendWith = TRUE
  MaxCrashes = 1
  TaskRunConcurrency = 2
CHECK_DEADLOCK FALSE
INVARIANTS TypeOK CopiesHonest ProofConsistent ProvenNeverFailed
PROPERTY CompletedStable
