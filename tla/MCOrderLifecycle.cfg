SPECIFICATION FairSpec
CONSTANTS
  Entries = {e1, e2}
  Quantity = 2
  MaxReplacements = 1
  RepriceAfter = 1
  GiveUpAfter = 3
  MaxFaults = 1
INVARIANTS
  SingleExposure
  Custody
  PositionsExact
PROPERTIES
  EventuallySettled
  ImplementsCustody
