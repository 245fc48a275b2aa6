SPECIFICATION PartsSpec
CONSTANTS
  Devices = {d1, d2}
  Slots = {s1, s2}
  Passwords = {w1}
  PresKeys = {k1}
  Profiles = {p1}
  Default = Default
  None = None
  MaxOps = 5
  MaxFaults = 1
  Keys = {key1, key2}
  Gets = {g1, g2}
  T = 2
  N = 3
  NoKey = NoKey
  MaxLost = 1
  a1 = a1 a2 = a2 a3 = a3 a4 = a4 a5 = a5 b3 = b3 b4 = b4 b5 = b5 c4 = c4
  Block <- MCBlock  Parent <- MCParent  Work <- MCWork
  Genesis = genesis  NoBlock = none
  Kinds = {"sql"}
  LiveThreshold = 2  Chunk = 1  ReorgThreshold = 1  Limit = 1
  Pruners = {r1, r2}
  MaxPerFile = 3  Known = 2  MaxHeight = 7  MaxCrash = 2
  u1 = u1  q1 = q1  q2 = q2
  Nodes = {n1}  Outs = {u1}  CacheKeys = {q1, q2}  OutOf <- MCOutOf
  EventHeights = {1}  NoVersion = NoVersion
  MaxVersion = 2  MaxLoads = 2  MaxEvents = 2
  PostList <- MCPostList  PostTxs <- MCPostTxs
  Arcs = {"TaalArcBeef"}
  Posts = {pb1, pb2}  Lookups = {lk1, lk2}
  MaxPosts = 2  MaxLookups = 2
  m1 = m1  m2 = m2  o1 = o1  o2 = o2  o3 = o3  o4 = o4
  Refs = {m1, m2}  SignCalls = {sc1, sc2}  Asks <- MCAsks
  Tracked = {o1, o2}  Trusted = {o1}  Foreign = {o3}  ChangeOuts = {o4}
  MaxOuts <- MCMaxOuts  MaxStarts = 1  Nil = Nil
SYMMETRY Symmetry
CHECK_DEADLOCK FALSE
INVARIANTS FactorsOpen KeysSurvive CreatedCovered ActiveChain Fresh AllAsked PositionsAgree
PROPERTY NeverShrinks
