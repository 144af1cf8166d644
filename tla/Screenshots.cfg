CONSTANTS
  r1 = r1
  r2 = r2
  s1 = s1
  s2 = s2
  Requesters <- TwoRequesters
  Submitters <- OneSubmitter
  RequestLimit = 2
  Modulus = 16
  RequestBound = 5
SPECIFICATION FairSpec
INVARIANTS
  TypeOK
PROPERTIES
  RequestIsServed
CHECK_DEADLOCK FALSE
