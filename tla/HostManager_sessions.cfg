SPECIFICATION Spec
CONSTANTS
  Sessions = {s1, s2}
  Users = {u1}
  Entries = {e1, e2}
  Conns = {k1, k2, k3}
  MaxPid = 2
  MaxRefs = 2
  None = None
SYMMETRY Symmetry
INVARIANTS TypeOK OwnProcess HeldStaysOpen
CHECK_DEADLOCK FALSE
