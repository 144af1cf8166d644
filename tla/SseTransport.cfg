CONSTANTS
  c1 = c1
  c2 = c2
  b1 = b1
  b2 = b2
  Listener = listener
  Owner = owner
  Clients <- TwoClients
  Broadcasters <- OneBroadcaster
  PendingLimit = 1
  WritesFail = TRUE
  StopAllowed = TRUE
  EventBound = 1
SPECIFICATION FairSpec
INVARIANTS
  TypeOK
  OpenIsListed
PROPERTIES
  StopEnds
  StreamsDrain
CHECK_DEADLOCK FALSE
