CONSTANTS
  Names = {n1}
  MaxTickers = 1
  Prices = {1, 2}
  Start = 2
  MaxDay = 4
  Filled = {1}
  MaxFaults = 1
  Initial = 4
  Cap = 2
  MinCoverage = 1
  MaxLots = 2
  Share = 2
SPECIFICATION Spec
INVARIANTS CoverageBacked CashAccounted TradesPossible
VIEW Seen
CONSTRAINT Explored
CHECK_DEADLOCK FALSE
