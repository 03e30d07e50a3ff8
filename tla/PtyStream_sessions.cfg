SPECIFICATION Spec
CONSTANTS
  Clients = {c1, c2}
  Lingers = TRUE
  ChanSize = 2
  MaxOutput = 3
  None = None
SYMMETRY Symmetry
INVARIANTS TypeOK NoPanic StreamExact KilledIsDead
CHECK_DEADLOCK FALSE
