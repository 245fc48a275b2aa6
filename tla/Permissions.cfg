SPECIFICATION TwoSpec
CONSTANTS
  Callers = {c1, c2}
  Level1 = {}
  Level2 = {l}
  Baskets = {b}
  Spend = Spend
  Manifest = {b}
  PeerManifest = {l}
  Pact = {l}
  PactFirst = l
  None = None
  Expired = {l}
  MaxTokens = 1
  MaxCalls = 2
  MaxTimes = 1
  MaxSpend = 2
  Workers = {v1, v2}
  MaxDeliver = 2
  MaxKey = 6
  MaxTroubles = 2
CHECK_DEADLOCK FALSE
INVARIANTS NoOrphanAction OneRecord
PROPERTIES AccessIsConsented Answered 
