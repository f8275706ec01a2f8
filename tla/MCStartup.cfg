SPECIFICATION Spec
CONSTANTS
  Orders = {o1, o2}
  Quantity = 2
  MaxFailures = 2
INVARIANTS
  LiveOrdersFollowed
  ZeroIsTrue
  BoughtIsMonitored
  GivenUpIsCancelled
