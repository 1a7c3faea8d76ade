SPECIFICATION FairSpec
CONSTANTS
  t1 = t1
  d1 = d1
  d2 = d2
  Objects <- MCTask
  Versioned <- MCTask
  Drainers <- MCDrainers
  MaxRetries = 1
  BatchSize = 1
  MaxChanges = 3
  MaxFaults = 2
INVARIANTS
  TypeOK
  NothingLost
PROPERTIES
  MirrorsOneWay
  Settles
CHECK_DEADLOCK FALSE
