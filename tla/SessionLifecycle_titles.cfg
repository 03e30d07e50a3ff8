SPECIFICATION Spec
CONSTANTS
  Titles = {t1, t2}
  Insts = {i1, i2}
  Trees = {w1}
  Procs = {p1, p2}
  Callers = {c1, c2}
  Kinds = {"worktree"}
  UserDeletesTrees = FALSE
  None = None
SYMMETRY Symmetry
INVARIANT LoadingAttended
PROPERTY RegistrySpec
