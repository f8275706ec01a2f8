SPECIFICATION FairSpec
CONSTANTS
  Proposals = {p1, p2}
  Handlers = {telegram, dashboard, request}
  MaxOpen = 1
  Ttl = 1
  Retention = 2
  MaxTrips = 1
INVARIANTS
  OneOrderPerProposal
  RefusalHolds
  TripStopsPlacement
PROPERTIES
  DecisionsFinal
  ApprovalAnswered
