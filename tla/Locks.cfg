SPECIFICATION BothSpec
CONSTANTS
  Readers = {r1}
  Writers = {w1, w2}
  Syncs = {s1}
  Providers = {p1}
  Actions = {a1, a2}
  Clients = {c1, c2}
  Threads = {t1, t2}
  MaxCalls = 3
  MaxHeaders = 1
  MaxSyncs = 1
  MaxFailures = 1
  MaxDestroys = 1
  x1 = x1
  RpTxs = {x1}
  Trunk = 1  MinedAt <- MCMinedAt
  minBlockAge = 2  maxHeightsPerRun = 2  maxRetries = 3
  TopHeight = 5  MaxReorgs = 2  MaxFaults = 1
CHECK_DEADLOCK FALSE
INVARIANTS QueueHolder OneMainThread
PROPERTIES Serialised Served LockServes Reproved
