SPECIFICATION Spec
CONSTANTS
  Unit = 20
  MinConfidence = 2
  RegimeRatio = 3
  Weights <- MCWeights
  DarkpoolCap = 5
  FlowMin = 3
  Lookback = 4
  DteMin = 2
  DteMax = 5
  DeltaMin = 3
  DeltaMax = 5
  TickerList <- MCTickers
  Reports <- MCReports
  Spots = {9, 11}
  AlertPool <- MCAlerts
  ContractSets <- MCContractSets
  Tides = {}
  DataPool <- MCData
  Configs <- MCBands
  Contexts <- MCContexts
  Premiums = {2, 4, 6}
  EarningsDays = {1}
  AdoptedDte = 2
INVARIANT SettingsInForce
CHECK_DEADLOCK FALSE
