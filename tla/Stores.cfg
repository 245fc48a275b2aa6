SPECIFICATION StoresSpec
CONSTANTS
  Acts = {a1, a2}
  Change = {c1, n1}
  Known = {k1}
  NoSendOuts = {n1}
  NoSendActs = {a1}
  None = None
  MaxVersion = 2
  MaxCrashes = 1
  A = A  B = B  X = X  t1 = t1  t2 = t2  o1 = o1  r1 = r1
  Order <- MCOrder
  Outside <- MCOutside
  Items <- MCItems
  Kind <- MCKind
  Parent <- MCParent
  Held <- MCHeld
  Stampers = {B}
  NoChunk = NoChunk
  MaxItems = 1
  MaxClock = 5
  MaxInterrupts = 1
  MaxImports = 1
  x1 = x1  x2 = x2  x3 = x3
  Coins = {x1, x2, x3}
  Values = {7, 14, 25}
  Requests <- MCRequests
  Unset = Unset
  BaseSize = 2  InSize = 3  OutSize = 1  FeeUnit = 2  Huge = 1000  MaxChange = 3
  MaxOthers = 1
  Backends = {"sql", "idb", "rocks"}
  Clients = {1, 2}  Nobody = Nobody
  Keys = {1, 2}
  BlockSize = 2  PageLimit = 2  MaxRows = 4
  MaxTroubles = 1
  us1 = us1  us2 = us2
  Users = {us1, us2}  Vouts = {1, 2}  Satoshis <- MCSatoshis  Wants <- MCWants
  Makers = {us1}  NoUser = NoUser  MaxTries <- MCMaxTries
  Wtx = {1, 2, 3}  Inputs <- MCInputs  KnownIds = {1}  MaxDepth = 2
  MaxReads = 1  MaxPurges = 1
CHECK_DEADLOCK FALSE
INVARIANTS HeldLocked Findable ParentsAgree BackupComplete SwitchKeepsAll Balanced NeverRefused Credited ProofsHold
PROPERTIES RowsStay
