SPECIFICATION FairSpec
CONSTANTS
  Clients = {c1}
  Lingers = TRUE
  ChanSize = 2
  MaxOutput = 4
  None = None
PROPERTIES StreamEnds ExitSettles
CHECK_DEADLOCK FALSE
