SPECIFICATION Spec
CONSTANTS
  t1 = t1
  t2 = t2
  s1 = s1
  o1 = o1
  o2 = o2
  Tree <- MCTree
  MaxIndex = 1
  Sub = {}
  Orphan = {}
  Attempts = 2
  MaxActs = 2
  None = None
INVARIANTS
  TypeOK
  DeletesOwnBranch
SYMMETRY Symmetry
CHECK_DEADLOCK FALSE
