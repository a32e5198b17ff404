SPECIFICATION Spec
CONSTANTS
  MaxLoads = 1
  MaxFetches = 2
  MaxTroubles = 2
INVARIANT NoDeafStream
PROPERTIES
  PageCatchesUp
  NoZombieSubject
CHECK_DEADLOCK FALSE
