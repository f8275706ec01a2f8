------------------------------ MODULE Signals ------------------------------
(***************************************************************************)
(* What the pure parts of the pipeline compute: gex/detector.py,           *)
(* scoring/features.py and scorer.py, flow/trigger.py and                  *)
(* contracts/selector.py.                                                  *)
(*                                                                         *)
(* Fractions are numerators over Unit.  A confidence is kept as the exact  *)
(* pair of its numerator and denominator; scores, which gate nothing and   *)
(* only order the candidates, are rounded down to 1/Unit.                  *)
(***************************************************************************)
EXTENDS Integers, Sequences, FiniteSets, FiniteSetsExt, Functions

CONSTANTS
  Unit,            \* denominator of every fraction
  MinConfidence,   \* min_confidence_threshold
  RegimeRatio,     \* positive_ and minus negative_regime_threshold
  Weights,         \* blend weights of the five features
  DarkpoolCap,     \* premium that scores 1
  FlowMin, Lookback,            \* FlowTrigger: min_premium, lookback_hours
  DteMin, DteMax, DeltaMin, DeltaMax  \* SelectorParams

Features == {"market_tide", "darkpool", "flow_pressure", "iv_cost", "technicals"}

(* _validate_weights raises otherwise.                                     *)
ASSUME SignalsAssumption ==
  /\ Unit \in Nat \ {0}
  /\ MinConfidence \in 0..Unit /\ RegimeRatio \in 0..Unit
  /\ Weights \in [Features -> Int]
  /\ Weights.market_tide + Weights.darkpool + Weights.flow_pressure + Weights.iv_cost
       + Weights.technicals = Unit
  /\ DarkpoolCap \in Nat \ {0} /\ FlowMin \in Nat /\ Lookback \in Nat
  /\ DteMin \in Nat /\ DteMax \in Nat /\ DeltaMin \in Nat /\ DeltaMax \in Nat

None == 0   \* prices, strikes and premiums are positive
Mag(n) == IF n < 0 THEN -n ELSE n

-----------------------------------------------------------------------------
(* GEXDetector.  A report g maps strikes to net gamma exposure.            *)

Above(g, spot) == {s \in DOMAIN g : s > spot /\ g[s] > 0}
Below(g, spot) == {s \in DOMAIN g : s < spot /\ g[s] < 0}

CallWall(g, spot) ==
  IF Above(g, spot) = {} THEN None
  ELSE Min({s \in Above(g, spot) : \A r \in Above(g, spot) : g[r] <= g[s]})

PutWall(g, spot) ==
  IF Below(g, spot) = {} THEN None
  ELSE Min({s \in Below(g, spot) : \A r \in Below(g, spot) : g[s] <= g[r]})

(* The lowest strike after which the exposure changes its sign, with the   *)
(* strike that follows; the flip point lies between them.                  *)
Neighbours(g) ==
  {pq \in (DOMAIN g) \X (DOMAIN g) :
     pq[1] < pq[2] /\ \A r \in DOMAIN g : r <= pq[1] \/ r >= pq[2]}

SignChanges(g) ==
  {pq \in Neighbours(g) :
     \/ g[pq[1]] > 0 /\ g[pq[2]] <= 0
     \/ g[pq[1]] < 0 /\ g[pq[2]] >= 0}

(* spot < flip_point, the zero of the line between the two.                *)
BelowFlip(g, spot) ==
  \E pq \in SignChanges(g) :
    /\ \A other \in SignChanges(g) : pq[1] <= other[1]
    /\ (spot - pq[1]) * Mag(g[pq[1]] - g[pq[2]]) < Mag(g[pq[1]]) * (pq[2] - pq[1])

(* The sum of f over the strikes of S, which are positive.                 *)
SumAt(f, S) ==
  LET upTo[k \in 0..Max(S \union {0})] ==
        IF k = 0 THEN 0 ELSE upTo[k - 1] + (IF k \in S THEN f[k] ELSE 0)
  IN  upTo[Max(S \union {0})]

Magnitudes(g) == [s \in DOMAIN g |-> Mag(g[s])]
Net(g) == SumAt(g, DOMAIN g)
Total(g) == SumAt(Magnitudes(g), DOMAIN g)
Top3(g) ==
  LET threes == {T \in SUBSET DOMAIN g : Cardinality(T) = 3}
  IN  Max({SumAt(Magnitudes(g), T) : T \in IF threes = {} THEN {DOMAIN g} ELSE threes})

(* structure_confidence = Confidence(g) / Total(g).                        *)
Confidence(g) == Min({Top3(g), Mag(Net(g))})

Regime(g) ==
  LET net == Net(g) * Unit
      total == Total(g)
  IN  CASE Confidence(g) * Unit < MinConfidence * total -> "mixed"
        [] net >= RegimeRatio * total -> "positive"
        [] net <= -RegimeRatio * total -> "negative"
        [] OTHER -> "mixed"

(* _resolve_direction.                                                     *)
Direction(g, spot) ==
  LET regime == Regime(g)
  IN  CASE regime = "mixed" -> "none"
        [] regime = "negative" /\ BelowFlip(g, spot) -> "put"
        [] OTHER -> "call"

NoSetup(spot) ==
  [direction |-> "none", target |-> None, callWall |-> None, putWall |-> None,
   conf |-> 0, total |-> 1, spot |-> spot]

Detect(g, spot) ==
  IF Total(g) = 0 THEN NoSetup(spot)
  ELSE LET direction == Direction(g, spot)
           above == CallWall(g, spot)
           below == PutWall(g, spot)
       IN  [direction |-> direction,
            target |-> CASE direction = "call" -> above
                         [] direction = "put" -> below
                         [] OTHER -> None,
            callWall |-> above, putWall |-> below,
            conf |-> Confidence(g), total |-> Total(g), spot |-> spot]

-----------------------------------------------------------------------------
(* The five features, in 0..Unit, from what each reads of its data.        *)

Neutral == Unit \div 2
Clamp(score) == IF score < 0 THEN 0 ELSE IF score > Unit THEN Unit ELSE score

(* market_tide_score, of the sums of the last 30 ticks.                    *)
TideScore(call, put, direction) ==
  LET total == Mag(call) + Mag(put)
      bias == IF direction = "call" THEN call + put ELSE -(call + put)
  IN  IF total = 0 THEN Neutral ELSE ((bias + total) * Unit) \div (2 * total)

(* darkpool_score, of the premium not canceled.                            *)
DarkpoolScore(premium) == Clamp((premium * Unit) \div DarkpoolCap)

Share(part, whole) == IF whole = {} THEN Neutral
                      ELSE (Cardinality(part) * Unit) \div Cardinality(whole)

(* flow_pressure_score: 60 % of the alerts' direction, 40 % of the ticks'. *)
FlowScore(alerts, ticks, direction) ==
  (6 * Share({a \in alerts : a.type = direction}, alerts)
     + 4 * Share({i \in DOMAIN ticks : ticks[i] = direction}, DOMAIN ticks)) \div 10

(* iv_cost_score: the percentile (over Unit) of the horizon closest to 30. *)
IvScore(iv) ==
  IF DOMAIN iv = {} THEN Neutral
  ELSE Clamp(Unit - iv[CHOOSE d \in DOMAIN iv :
                         \A e \in DOMAIN iv : Mag(d - 30) <= Mag(e - 30)])

RsiScore(rsi, direction) ==
  LET tenths == IF direction = "call"
                  THEN CASE rsi < 30 -> 3 [] rsi \in 30..49 -> 9 [] rsi \in 50..59 -> 7
                         [] rsi \in 60..69 -> 4 [] OTHER -> 1
                  ELSE CASE rsi > 70 -> 9 [] rsi \in 61..70 -> 7 [] rsi \in 51..60 -> 4
                         [] rsi \in 31..50 -> 2 [] OTHER -> 1
  IN  (tenths * Unit) \div 10

MacdScore(hist, direction) ==
  ((IF (hist > 0) = (direction = "call") THEN 8 ELSE 2) * Unit) \div 10

(* technicals_score: the mean of what is available; rsi and macd are sets  *)
(* of one latest value, or of none.                                        *)
TechnicalScore(rsi, macd, direction) ==
  LET r == RsiScore(CHOOSE x \in rsi : TRUE, direction)
      m == MacdScore(CHOOSE x \in macd : TRUE, direction)
  IN  CASE rsi = {} /\ macd = {} -> Neutral
        [] rsi # {} /\ macd = {} -> r
        [] rsi = {} /\ macd # {} -> m
        [] OTHER -> (r + m) \div 2

(* BlendScorer.score's composite, in the bounds of BlendScores.            *)
Composite(score) ==
  Clamp((Weights.market_tide * score.market_tide + Weights.darkpool * score.darkpool
           + Weights.flow_pressure * score.flow_pressure
           + Weights.iv_cost * score.iv_cost
           + Weights.technicals * score.technicals) \div Unit)

-----------------------------------------------------------------------------
(* BlendScorer.rank: the proposed ones by descending score, ties in the    *)
(* order they came, then the others, unranked.  The candidates come by     *)
(* their place in the list of tickers.                                     *)
Ranked(cands) ==
  LET active == {i \in DOMAIN cands : cands[i].status = "proposed"}
      before(i, j) == \/ i \in active /\ j \notin active
                      \/ /\ (i \in active) = (j \in active)
                         /\ \/ i \in active /\ cands[i].score > cands[j].score
                            \/ (i \in active => cands[i].score = cands[j].score) /\ i < j
      place(i) == 1 + Cardinality({j \in DOMAIN cands : before(j, i)})
  IN  [n \in 1..Cardinality(DOMAIN cands) |-> cands[CHOOSE i \in DOMAIN cands : place(i) = n]]

(* Mutation: a print of either side confirms.                              *)
ConfirmingEither(alerts, ticker, direction) ==
  {a \in alerts : a.ticker = ticker /\ a.premium >= FlowMin /\ a.age <= Lookback}

(* FlowTrigger.check: same ticker, same direction, enough premium, in time.*)
Confirming(alerts, ticker, direction) ==
  {a \in alerts : /\ a.ticker = ticker /\ a.type = direction
                  /\ a.premium >= FlowMin /\ a.age <= Lookback}

(* ContractSelector.select.                                                *)
Eligible(contracts, direction) ==
  {c \in contracts : /\ c.type = direction
                     /\ c.dte \in DteMin..DteMax
                     /\ c.delta \in DeltaMin..DeltaMax}

Preferred(contracts, target) ==
  LET far(c) == IF target = None THEN 0 ELSE Mag(c.strike - target)
      before(c, d) == \/ far(c) < far(d)
                      \/ far(c) = far(d) /\ c.spread < d.spread
                      \/ far(c) = far(d) /\ c.spread = d.spread /\ c.oi > d.oi
  IN  CHOOSE c \in contracts : \A d \in contracts : ~before(d, c)
=============================================================================
