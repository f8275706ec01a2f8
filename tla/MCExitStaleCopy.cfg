SPECIFICATION Spec
CONSTANTS
  Positions = {p1, p2}
  Adopted = {p2}
  Quantity = 2
  Reasons = {stop_loss, profit_target}
  MaxPremium = 2
  MaxFaults = 1
INVARIANTS
  FillMonitored
