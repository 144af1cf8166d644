CONSTANTS
  w1 = w1
  w2 = w2
  give = give
  pause = pause
  health = health
  input = input
  Workers <- TwoWorkers
  Types <- AllTypes
  Coalescible <- Coalesced
  Refused <- Denied
  PlayerInput <- input
  Slots = 2
  MaxResults = 4
  InputsFirst = FALSE
  InputBudget = 1
  ClearAllowed = FALSE
  CommandBound = 2
  InputBound = 2
SPECIFICATION Spec
INVARIANTS
  ResultIsOfTheCommand
