SPECIFICATION Spec
CONSTANTS
  Tickers = {t1, t2}
  Seeds = {}
  MaxDiscovered = 1
  ScanEvery = 1
  RetryEvery = 1
  ScanTakes = 1
  StaleAfter = 3
  Cooldown = 1
  Window = 1
  MaxSeen = 1
  Keep = 1
  MaxAlerts = 2
  MaxTime = 5
  MaxDay = 2
  MaxFaults = 1
INVARIANTS
  TypeOK
  SingleEntry
  ActsOnSeenStructure
  ActedOnce
  HeldIsFresh
  SeenIsOnDisk
SYMMETRY Symmetry
CONSTRAINT Explored
CHECK_DEADLOCK FALSE
