------------------------------ MODULE MCTrade ------------------------------
EXTENDS Trade, TLC

MCReports == {8 :> -1 @@ 10 :> 2 @@ 12 :> 5,     \* positive: pins below 12
              8 :> -4 @@ 10 :> -2 @@ 12 :> 1,    \* negative, flips above 11
              8 :> -3 @@ 12 :> 3}                \* mixed
MCTickers == <<"A", "B">>
MCWeights == [f \in Features |-> Unit \div 5]
MCAlerts ==
  {[ticker |-> "A", type |-> "call", premium |-> 5, age |-> 1, underlying |-> 9],
   [ticker |-> "A", type |-> "put", premium |-> 5, age |-> 9, underlying |-> None]}
MCContract(side, days, k) ==
  [type |-> side, dte |-> days, delta |-> 4, strike |-> k, spread |-> 1, oi |-> 1]
MCContractSets == {{MCContract("call", 2, 10), MCContract("call", 2, 12),
                    MCContract("call", 9, 12), MCContract("put", 2, 8)}}
MCData == {[darkpool |-> 9, ticks |-> <<"call", "put">>, iv |-> 20 :> 3 @@ 40 :> 9,
            rsi |-> {55}, macd |-> {1}]}
MCConfig(dynamic, band) ==
  [dynamic |-> dynamic, stopLoss |-> 5, dteFloor |-> 1, wallBand |-> band,
   activation |-> 3, giveback |-> 5, confidenceDecay |-> 5, wallDrift |-> 5,
   ivAdjustment |-> 5, momentumAdjustment |-> 5, rsiConfirm |-> 55, rsiDiverge |-> 45,
   earningsBuffer |-> 2, spreadWide |-> 2, liquidityAdjustment |-> 5]
MCConfigs == {MCConfig(FALSE, 1), MCConfig(TRUE, 1)}
MCBands == {MCConfig(FALSE, 1), MCConfig(FALSE, 2)}
MCContexts ==
  {[iv |-> NoIv, rsi |-> {}, hist |-> {}, spread |-> 0],
   [iv |-> 10, rsi |-> {60}, hist |-> {1}, spread |-> 0],
   [iv |-> -10, rsi |-> {40}, hist |-> {-1}, spread |-> 3]}
=============================================================================
