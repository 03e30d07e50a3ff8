SPECIFICATION FairSpec
CONSTANTS
  c1 = c1
  c2 = c2
  h1 = h1
  h2 = h2
  v1 = v1
  p1 = p1
  NoPath = NoPath
  Call <- MCCall
  Host <- MCHost
  Value <- MCValue
  Path <- MCPath
  MaxFaults = 1
  None = None
  Torn = Torn
INVARIANTS
  TypeOK
  HostHasSecret
PROPERTIES
  OneHostAtATime
  CallsEnd
