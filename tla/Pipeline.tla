------------------------------ MODULE Pipeline ------------------------------
(***************************************************************************)
(* graph/agent.py: run_pipeline, the graph of nodes from the fetches to    *)
(* the executor.  FlowWatcher runs the nodes from ScoreCandidates to       *)
(* RiskGate on cached data, the replay runs all of them on recorded data.  *)
(*                                                                         *)
(* The nodes run one after the other on one state; what they compute is in *)
(* Signals.  A call that fails leaves its data empty, and its error is     *)
(* collected.  The risk engine's verdict (RiskEngine, Approvals) is an     *)
(* open choice.                                                            *)
(***************************************************************************)
EXTENDS Signals

CONSTANTS
  TickerList,    \* state.tickers, in order
  Reports,       \* GEX reports: strikes to net exposure
  Spots,         \* prices of an underlying
  AlertPool,     \* flow alerts, with the underlying's price or None
  ContractSets,  \* answers of the option chain
  Tides,         \* answers about the market: net call and put premium
  DataPool       \* answers about a ticker's prints, ticks, IV and technicals

VARIABLES
  stage,     \* the node that runs next
  mode,      \* ExecutionMode of the executor
  bypass,    \* bypass_flow_gate
  alerts,    \* flow_alerts
  tide,      \* market_tide
  gex, dark, contracts, other,  \* what was fetched for each ticker
  cands,     \* candidates
  next,      \* the candidate execute_orders comes to next
  ordered    \* the broker: candidates it took a buy order for

fetched == <<alerts, tide, gex, dark, contracts, other>>
pipeVars == <<stage, mode, bypass, fetched, cands, next, ordered>>

Tickers == Range(TickerList)
NoReport == <<>>
NoTide == <<0, 0>>
NoData == [darkpool |-> 0, ticks |-> <<>>, iv |-> <<>>, rsi |-> {}, macd |-> {}]
NoContract == [type |-> "none"]

Offered == UNION ContractSets

ASSUME PipelineAssumption ==
  /\ TickerList \in Seq(Tickers)
  /\ \A g \in Reports : /\ IsFiniteSet(DOMAIN g) /\ DOMAIN g \subseteq Nat \ {0}
                        /\ g \in [DOMAIN g -> Int]
  /\ Spots # {} /\ Spots \subseteq Nat \ {0}
  /\ IsFiniteSet(AlertPool) /\ \A a \in AlertPool : a.underlying \in Spots \union {None}
  /\ IsFiniteSet(Offered)
  /\ Offered \subseteq [type : {"call", "put"}, dte : Nat, delta : Int, strike : Int,
                        spread : Int, oi : Int]
  /\ Tides \subseteq Int \X Int
  /\ \A d \in DataPool : /\ d.darkpool \in Int /\ IsFiniteSet(DOMAIN d.ticks)
                         /\ DOMAIN d.iv \subseteq Int /\ d.iv \in [DOMAIN d.iv -> Int]
                         /\ d.rsi \subseteq Int /\ d.macd \subseteq Int

Statuses == {"proposed", "executed", "skipped_no_flow", "skipped_risk_gate",
             "skipped_no_structure", "not_executable_long_only",
             "rejected_by_approval"}

CandidateOK(c) ==
  /\ c.ticker \in Tickers /\ c.setup.direction \in {"call", "put", "none"}
  /\ c.setup.spot \in Spots /\ c.setup.conf \in 0..c.setup.total
  /\ c.score \in 0..Unit /\ c.rank \in DOMAIN cands \union {0}
  /\ c.confirmed \in BOOLEAN /\ c.status \in Statuses
  /\ c.contract = NoContract \/ c.contract \in Offered

Stages == {"market", "tickers", "score", "flow", "select", "risk", "execute", "end"}

PipeTypeOK ==
  /\ stage \in Stages
  /\ mode \in {"propose_only", "autonomous"} /\ bypass \in BOOLEAN
  /\ alerts \subseteq AlertPool /\ tide \in Tides \union {NoTide}
  /\ gex \in [Tickers -> Reports \union {NoReport}]
  /\ dark \in [Tickers -> Spots \union {None}]
  /\ contracts \in [Tickers -> ContractSets \union {{}}]
  /\ other \in [Tickers -> DataPool \union {NoData}]
  /\ Len(cands) <= Len(TickerList) /\ \A c \in Range(cands) : CandidateOK(c)
  /\ next \in 1..(Len(TickerList) + 1)
  /\ ordered \subseteq Range(cands)

Start ==
  /\ stage = "market" /\ alerts = {} /\ tide = NoTide /\ cands = <<>> /\ next = 1 /\ ordered = {}
  /\ gex = [t \in Tickers |-> NoReport] /\ dark = [t \in Tickers |-> None]
  /\ contracts = [t \in Tickers |-> {}] /\ other = [t \in Tickers |-> NoData]

PipeInit == Start /\ mode \in {"propose_only", "autonomous"} /\ bypass \in BOOLEAN

(* fetch_market_data: each of its two calls may fail.                      *)
FetchMarketData ==
  /\ stage = "market" /\ stage' = "tickers"
  /\ alerts' \in SUBSET AlertPool /\ tide' \in Tides \union {NoTide}
  /\ UNCHANGED <<mode, bypass, gex, dark, contracts, other, cands, next, ordered>>

(* fetch_ticker_data: every endpoint of every ticker may fail by itself.   *)
FetchTickerData ==
  /\ stage = "tickers" /\ stage' = "score"
  /\ gex' \in [Tickers -> Reports \union {NoReport}]
  /\ dark' \in [Tickers -> Spots \union {None}]
  /\ contracts' \in [Tickers -> ContractSets \union {{}}]
  /\ other' \in [Tickers -> DataPool \union {NoData}]
  /\ UNCHANGED <<mode, bypass, alerts, tide, cands, next, ordered>>

(* detect_gex: the spot is that of the ticker's alerts, which are taken to *)
(* agree, else of its last dark-pool print; without a spot or a report it  *)
(* has no setup.                                                           *)
SpotOf(t) ==
  LET told == {a.underlying : a \in {b \in alerts : b.ticker = t}} \ {None}
  IN  IF told # {} THEN Min(told) ELSE dark[t]

HasSetup(t) == gex[t] # NoReport /\ SpotOf(t) # None

(* BlendScorer.score.  The graph does not fetch IV (its data has none), the *)
(* scanner's cache has it.                                                 *)
Score(t, direction) ==
  LET d == other[t]
      own == {a \in alerts : a.ticker = t}
  IN  Composite([market_tide |-> TideScore(tide[1], tide[2], direction),
                 darkpool |-> DarkpoolScore(d.darkpool),
                 flow_pressure |-> FlowScore(own, d.ticks, direction),
                 iv_cost |-> IvScore(d.iv),
                 technicals |-> TechnicalScore(d.rsi, d.macd, direction)])

Candidate(t) ==
  LET setup == Detect(gex[t], SpotOf(t))
      skipped == setup.direction = "none"
  IN  [ticker |-> t, setup |-> setup,
       score |-> IF skipped THEN 0 ELSE Score(t, setup.direction),
       rank |-> 0, confirmed |-> FALSE, contract |-> NoContract,
       status |-> IF skipped THEN "skipped_no_structure" ELSE "proposed"]

(* detect_gex and score_candidates.                                        *)
ScoreCandidates ==
  /\ stage = "score" /\ stage' = "flow"
  /\ LET found == {i \in DOMAIN TickerList : HasSetup(TickerList[i])}
         ranked == Ranked([i \in found |-> Candidate(TickerList[i])])
     IN  cands' = [i \in DOMAIN ranked |->
                     [ranked[i] EXCEPT !.rank = IF ranked[i].status = "proposed"
                                                  THEN i ELSE 0]]
  /\ UNCHANGED <<mode, bypass, fetched, next, ordered>>

OnProposed(f) ==
  cands' = [i \in DOMAIN cands |->
              IF cands[i].status = "proposed" THEN f[cands[i]] ELSE cands[i]]

CheckFlow ==
  /\ stage = "flow" /\ stage' = "select"
  /\ LET check[c \in Range(cands)] ==
           IF Confirming(alerts, c.ticker, c.setup.direction) = {}
             THEN [c EXCEPT !.status = "skipped_no_flow"]
             ELSE [c EXCEPT !.confirmed = TRUE]
     IN  IF bypass THEN UNCHANGED cands ELSE OnProposed(check)
  /\ UNCHANGED <<mode, bypass, fetched, next, ordered>>

SelectContracts ==
  /\ stage = "select" /\ stage' = "risk"
  /\ LET select[c \in Range(cands)] ==
           LET eligible == Eligible(contracts[c.ticker], c.setup.direction)
           IN  IF eligible = {} THEN [c EXCEPT !.status = "not_executable_long_only"]
               ELSE [c EXCEPT !.contract = Preferred(eligible, c.setup.target)]
     IN  OnProposed(select)
  /\ UNCHANGED <<mode, bypass, fetched, next, ordered>>

(* Every candidate is checked against the same portfolio.                  *)
RiskGate ==
  /\ stage = "risk" /\ stage' = "execute"
  /\ \E blocked \in SUBSET Tickers :
       LET gate[c \in Range(cands)] ==
             IF c.contract # NoContract /\ c.ticker \in blocked
               THEN [c EXCEPT !.status = "skipped_risk_gate"] ELSE c
       IN  OnProposed(gate)
  /\ UNCHANGED <<mode, bypass, fetched, next, ordered>>

Sent(c) == c.status = "proposed" /\ c.contract # NoContract

(* execute_orders, for a candidate that passes through and for one that is *)
(* sent: placed, not placed, or an exception, after which it is still      *)
(* "proposed" although the broker may have the order.                      *)
ExecuteNone ==
  /\ stage = "execute" /\ next \in DOMAIN cands /\ ~Sent(cands[next])
  /\ next' = next + 1
  /\ UNCHANGED <<stage, mode, bypass, fetched, cands, ordered>>

ExecuteOne ==
  /\ stage = "execute" /\ next \in DOMAIN cands /\ Sent(cands[next])
  /\ next' = next + 1
  /\ LET become(status) == cands' = [cands EXCEPT ![next].status = status]
     IN  \/ /\ mode = "propose_only" /\ UNCHANGED <<cands, ordered>>
         \/ /\ mode = "autonomous" /\ become("executed")
            /\ ordered' = ordered \union {cands'[next]}
         \/ /\ mode = "autonomous" /\ become("rejected_by_approval")
            /\ UNCHANGED ordered
         \/ /\ UNCHANGED cands
            /\ \/ UNCHANGED ordered
               \/ mode = "autonomous" /\ ordered' = ordered \union {cands[next]}
  /\ UNCHANGED <<stage, mode, bypass, fetched>>

Executed ==
  /\ stage = "execute" /\ next = Len(cands) + 1 /\ stage' = "end"
  /\ UNCHANGED <<mode, bypass, fetched, cands, next, ordered>>

PipeNext ==
  \/ FetchMarketData \/ FetchTickerData \/ ScoreCandidates \/ CheckFlow
  \/ SelectContracts \/ RiskGate \/ ExecuteNone \/ ExecuteOne \/ Executed

-----------------------------------------------------------------------------
(* Whatever was fetched and whatever failed, the broker takes an order     *)
(* only for a ticker with a clear structure, confirmed by a recent print   *)
(* of its own side unless the gate is bypassed, and in a contract of that  *)
(* side and of the configured window (the nodes of graph/agent.py).        *)
GatesPassed ==
  \A c \in ordered :
    /\ gex[c.ticker] # NoReport /\ Regime(gex[c.ticker]) # "mixed"
    /\ c.contract \in contracts[c.ticker]
    /\ c.contract.type = Direction(gex[c.ticker], SpotOf(c.ticker))
    /\ c.contract.dte \in DteMin..DteMax
    /\ bypass \/ \E a \in alerts : /\ a.ticker = c.ticker /\ a.age <= Lookback
                                   /\ a.type = c.contract.type
=============================================================================
