SPECIFICATION Spec
CONSTANTS
  Episodes = {1, 4}
  Levels = {1, 2}
  Int32Max = 65535
  Int64Max = 1048575
  SizeModulus = 2097152
  FloatExact = 512
  FloatStep = 4
  FloatMax = 8388608
  TidMax = 32767
  DamageMax = 10000
  MaxHealth = 200
  AmountMax = 1000
  FullTurn = 8
  TooLong = "too long"
  BlockMap <- MCBlockMap
  FixedLimit = 256
  MaxEnemies = 3
  SpawnHealth = 20
  TurnSpeed = 2
  EnemyCapacity = 4
  InventoryCapacity = 3
  Touching = {0, 1}
  Requests <- MCRequests
  InputCalls <- MCInputs
  Mode = "commercial"
  LevelThings <- MCThings
  MaxSent = 3
  MaxTicks = 3
CHECK_DEADLOCK FALSE
INVARIANT TypeOK
INVARIANT OnlyRenumberingMisleads
INVARIANT KillsAddUp
PROPERTY DoneMeansDone
PROPERTY FailureLeavesNoTrace
