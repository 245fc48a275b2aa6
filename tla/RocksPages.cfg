SPECIFICATION PagesSpec
CONSTANTS
  Backends = {"rocks"}
  Clients = {1}  Nobody = Nobody
  Keys = {1}
  BlockSize = 2  PageLimit = 2  MaxRows = 4
  MaxTroubles = 0
CHECK_DEADLOCK FALSE
INVARIANT AllSeen
