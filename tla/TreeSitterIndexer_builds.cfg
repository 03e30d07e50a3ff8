SPECIFICATION FairSpec
CONSTANTS
  File <- MCFile
  Bare <- MCBare
  Committed <- MCCommitted
  MaxVersion = 3
  MaxFaults = 1
  None = None
  Torn = Torn
INVARIANTS
  TypeOK
  SkipIsSafe
  CopiesAgree
PROPERTIES
  ToldIsIndexed
