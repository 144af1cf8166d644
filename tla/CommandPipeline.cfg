CONSTANTS
  w1 = w1
  w2 = w2
  give = give
  pause = pause
  health = health
  input = input
  Workers <- TwoWorkers
  Types <- AllTypes
  Coalescible <- Coalesced
  Refused <- Denied
  PlayerInput <- input
  Slots = 2
  MaxResults = 2
  InputsFirst = TRUE
  InputBudget = 0
  ClearAllowed = TRUE
  CommandBound = 3
  InputBound = 1
SPECIFICATION FairSpec
INVARIANTS
  TypeOK
  NothingLost
  QueueInOrder
  SupersededByNewer
  ResultsMatchOrder
PROPERTIES
  FinalAnswersStay
  EveryCommandSettles
  ImplementsLifecycle
