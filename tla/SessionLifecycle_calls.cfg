SPECIFICATION Spec
CONSTANTS
  Titles = {t1}
  Insts = {i1, i2}
  Trees = {w1}
  Procs = {p1, p2}
  Callers = {c1, c2}
  Kinds = {"inplace", "remote"}
  UserDeletesTrees = TRUE
  None = None
SYMMETRY Symmetry
INVARIANTS TypeOK ProcessOwned ProcessHasTree DiskAgrees
PROPERTY LiveKeepsCommits
