SPECIFICATION InSpec
CONSTANTS
  Users = {u1, u2}
  Vouts = {1, 2}
  Satoshis <- MCSatoshis
  Wants <- MCWants
  Makers = {u1}
  NoUser = NoUser
  MaxTries <- MCMaxTries
  u1 = u1  u2 = u2
CHECK_DEADLOCK FALSE
INVARIANT AcceptedWasSent
