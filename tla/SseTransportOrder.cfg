CONSTANTS
  c1 = c1
  c2 = c2
  b1 = b1
  b2 = b2
  Listener = listener
  Owner = owner
  Clients <- TwoClients
  Broadcasters <- TwoBroadcasters
  PendingLimit = 1
  WritesFail = FALSE
  StopAllowed = TRUE
  EventBound = 2
SPECIFICATION Spec
SYMMETRY ClientSymmetry
INVARIANTS
  EventsInOrder
  CountIsOfTheOpen
CHECK_DEADLOCK FALSE
