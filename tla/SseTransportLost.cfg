CONSTANTS
  c1 = c1
  c2 = c2
  b1 = b1
  b2 = b2
  Listener = listener
  Owner = owner
  Clients <- TwoClients
  Broadcasters <- OneBroadcaster
  PendingLimit = 1
  WritesFail = TRUE
  StopAllowed = FALSE
  EventBound = 1
SPECIFICATION Spec
INVARIANTS
  CountIsOfTheOpen
CHECK_DEADLOCK FALSE
