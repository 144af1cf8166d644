CONSTANTS
  r1 = r1
  r2 = r2
  Readers <- TwoReaders
  SlotCount = 3
  GenerationBound = 5
SPECIFICATION FairSpec
INVARIANTS
  TypeOK
  CopyIsWhole
  PinsBalanced
PROPERTIES
  ImplementsRegister
  TickEnds
