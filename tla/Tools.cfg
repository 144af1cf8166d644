SPECIFICATION Spec
CONSTANTS
  Episodes = {1, 3, 4}
  Levels = {1, 2, 9}
  Int32Max = 65535
  Int64Max = 1048575
  SizeModulus = 2097152
  FloatExact = 512
  FloatStep = 4
  FloatMax = 8388608
  TidMax = 32767
  DamageMax = 10000
  MaxHealth = 200
  AmountMax = 1000
  FullTurn = 360
  TooLong = "too long"
  DefaultLimit = 3
  BlockMap <- MCBlockMap
  FixedLimit = 256
  MaxEnemies = 3
  SpawnHealth = 20
  TurnSpeed = 2
  EnemyCapacity = 4
  InventoryCapacity = 3
  Touching = {0}
  KnownResults = {1, 2}
  Configs <- MCConfigs
  Games <- MCGames
  Scenes <- MCScenes
  Calls <- MCCalls
INVARIANT TypeOK
INVARIANT AdvertisedIsServed
INVARIANT OfferedIsAccepted
INVARIANT PagesCover
INVARIANT BatchAgreesWithSingle
INVARIANT NumbersMeanWhatTheySay
INVARIANT CheatsNeedPermission
