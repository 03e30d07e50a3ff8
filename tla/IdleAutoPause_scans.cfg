SPECIFICATION FairSpec
CONSTANTS
  Titles = {t1, t2}
  Pollers = {poll1}
  Checker = checker
  None = None
INVARIANTS TypeOK
PROPERTIES RegistrySpec IdleEventuallyPaused
