SPECIFICATION Spec
CONSTANTS
  Limit = 2
  Amounts <- LossesAndGains
  MaxPnl = 4
  MaxDay = 3
  MaxFaults = 2
INVARIANTS
  NoEntryWhileTripped
  BlockedByTodayOnly
  PnlExact
