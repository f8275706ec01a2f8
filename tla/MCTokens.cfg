SPECIFICATION TokensFairSpec
CONSTANTS
  Coroutines = {exit_loop, order_manager, request}
  MaxIssued = 3
  MaxFaults = 1
INVARIANTS
  AuthSurvives
PROPERTIES
  AuthorizedAgain
