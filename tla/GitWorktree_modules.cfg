SPECIFICATION FairSpec
CONSTANTS
  t1 = t1
  t2 = t2
  s1 = s1
  o1 = o1
  o2 = o2
  Tree <- MCOneTree
  MaxIndex = 1
  Sub <- MCSub
  Orphan <- MCOrphan
  Attempts = 2
  MaxActs = 1
  None = None
INVARIANTS
  CleanupComplete
  FailureHonest
PROPERTIES
  SetupEnds
CHECK_DEADLOCK FALSE
