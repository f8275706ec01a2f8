----------------------------- MODULE ExitRules -----------------------------
(***************************************************************************)
(* exits/monitor.py: which exit rule, if any, a position triggers.         *)
(*                                                                         *)
(* ExitMonitor.evaluate is a pure function of the position, the market,    *)
(* and the thresholds, which ExitLoop takes from the live configuration    *)
(* before each tick.  Here cfg is the record of the thresholds, fractions  *)
(* are numerators over Unit, and a threshold that the code multiplies by   *)
(* up to four fractions is compared over a power of Unit, so that nothing  *)
(* is rounded; a wall's distance is not quantized either.                  *)
(***************************************************************************)
EXTENDS Integers

CONSTANT Unit

U2 == Unit * Unit
U3 == Unit * U2
U5 == U2 * U3

Nothing == 0        \* no wall, no target, no peak: prices are positive
NoIv == Unit + 1    \* no IV percentile; else (percentile - 50) / 50 over Unit
NoDate == -1        \* no earnings date known

Smaller(a, b) == IF a < b THEN a ELSE b

-----------------------------------------------------------------------------
(* The adjustments of the dynamic mode.                                    *)

(* _iv_multiplier, over U2: with 1 when no IV is known.                    *)
Widen(cfg, iv) == IF iv = NoIv THEN U2 ELSE U2 + iv * cfg.ivAdjustment
Narrow(cfg, iv) == IF iv = NoIv THEN U2 ELSE U2 - iv * cfg.ivAdjustment

(* _momentum_signal; rsi and hist are empty or hold the latest value, rsi  *)
(* mirrored at 50 for a put and hist negated.                              *)
Momentum(cfg, type, rsi, hist) ==
  LET r(x) == IF type = "call" THEN x ELSE 100 - x
      h(x) == IF type = "call" THEN x ELSE -x
      confirm == \E x \in rsi, y \in hist : r(x) >= cfg.rsiConfirm /\ h(y) > 0
      diverge == \E x \in rsi, y \in hist : r(x) <= cfg.rsiDiverge \/ h(y) < 0
  IN  IF confirm THEN "confirm" ELSE IF diverge THEN "diverge" ELSE "neutral"

MomentumFactor(cfg, type, ctx) ==
  CASE Momentum(cfg, type, ctx.rsi, ctx.hist) = "confirm" -> Unit - cfg.momentumAdjustment
    [] Momentum(cfg, type, ctx.rsi, ctx.hist) = "diverge" -> Unit + cfg.momentumAdjustment
    [] OTHER -> Unit

LiquidityFactor(cfg, ctx) ==
  IF ctx.spread > cfg.spreadWide THEN Unit + cfg.liquidityAdjustment ELSE Unit

(* Mutation: the master switch does not cover the earnings date.           *)
NearEarningsAlways(cfg, earnings) == earnings # NoDate /\ earnings <= cfg.earningsBuffer

NearEarnings(cfg, earnings) ==
  cfg.dynamic /\ earnings # NoDate /\ earnings <= cfg.earningsBuffer

(* The effective thresholds: over U5, U3 and U3.                           *)
Band(cfg, type, ctx) ==
  IF cfg.dynamic
    THEN cfg.wallBand * Widen(cfg, ctx.iv) * MomentumFactor(cfg, type, ctx)
                      * LiquidityFactor(cfg, ctx)
    ELSE cfg.wallBand * U2 * U2

(* Mutation: high IV widens the stop of a loser before earnings, too.      *)
StopWidened(cfg, pnl, ctx, earnings) ==
  IF cfg.dynamic THEN cfg.stopLoss * Widen(cfg, ctx.iv) ELSE cfg.stopLoss * U2

Stop(cfg, pnl, ctx, earnings) ==
  LET static == cfg.stopLoss * U2
      widened == cfg.stopLoss * Widen(cfg, ctx.iv)
  IN  CASE ~cfg.dynamic -> static
        [] NearEarnings(cfg, earnings) /\ pnl <= 0 -> Smaller(widened, static)
        [] OTHER -> widened

Giveback(cfg, ctx) ==
  IF cfg.dynamic THEN cfg.giveback * Narrow(cfg, ctx.iv) ELSE cfg.giveback * U2

-----------------------------------------------------------------------------
(* The rules.  pos is the position, spot and premium are the quotes, live  *)
(* is the GEX setup of the cache, {} when there is none or it is stale.    *)

WallOf(setup, type) == IF type = "call" THEN setup.callWall ELSE setup.putWall

(* _resolve_live_target.                                                   *)
Target(cfg, pos, live) ==
  LET walls == {WallOf(s, pos.type) : s \in live} \ {Nothing}
  IN  IF cfg.dynamic /\ walls # {} THEN CHOOSE w \in walls : TRUE ELSE pos.target

AtTarget(cfg, pos, spot, live, ctx) ==
  LET target == Target(cfg, pos, live) IN
  /\ pos.target # Nothing
  /\ IF pos.type = "call"
       THEN spot * U5 >= target * (U5 - Band(cfg, pos.type, ctx))
       ELSE spot * U5 <= target * (U5 + Band(cfg, pos.type, ctx))

(* Mutation: the drift is not counted on top of the distance at entry.     *)
CeilingBare(cfg) == cfg.wallDrift

Ceiling(cfg) == Unit + cfg.wallDrift

(* _thesis_confidence_decayed: the live structure s against the one at     *)
(* entry, which an adopted or reconciled position does not have.           *)
Decayed(cfg, pos, s) ==
  \E e \in pos.setup :
    LET was == WallOf(e, pos.type)
        is == WallOf(s, pos.type)
    IN  /\ e.conf > 0
        /\ \/ s.conf * e.total * Unit < e.conf * s.total * cfg.confidenceDecay
           \/ was # Nothing /\ is = Nothing
           \/ /\ was # Nothing /\ is # Nothing
              /\ (IF is > s.spot THEN is - s.spot ELSE s.spot - is) * e.spot * Unit
                   > (IF was > e.spot THEN was - e.spot ELSE e.spot - was)
                       * s.spot * Ceiling(cfg)

ThesisGone(cfg, pos, live) ==
  \E s \in live : \/ s.direction # pos.type
                  \/ cfg.dynamic /\ Decayed(cfg, pos, s)

Gain(pos) == pos.peak - pos.entry

Activated(cfg, pos) ==
  /\ pos.peak # Nothing /\ Gain(pos) > 0
  /\ pos.peak * Unit >= pos.entry * (Unit + cfg.activation)

GaveBack(cfg, pos, premium, ctx) ==
  /\ Activated(cfg, pos)
  /\ (premium - pos.entry) * U3 <= Gain(pos) * (U3 - Giveback(cfg, ctx))

StoppedOut(cfg, pos, premium, ctx, earnings) ==
  (premium - pos.entry) * U3
    <= -Stop(cfg, premium - pos.entry, ctx, earnings) * pos.entry

(* Mutation: only the very day of the floor counts.                        *)
AtFloorExactly(cfg, dte) == dte = cfg.dteFloor

AtFloor(cfg, dte) == dte <= cfg.dteFloor

Fires(rule, cfg, pos, spot, premium, dte, live, ctx, earnings) ==
  CASE rule = "profit_target" -> AtTarget(cfg, pos, spot, live, ctx)
    [] rule = "earnings_gap" -> NearEarnings(cfg, earnings) /\ premium > pos.entry
    [] rule = "thesis_invalidated" -> ThesisGone(cfg, pos, live)
    [] rule = "trailing_stop" -> GaveBack(cfg, pos, premium, ctx)
    [] rule = "stop_loss" -> StoppedOut(cfg, pos, premium, ctx, earnings)
    [] rule = "dte_stop" -> AtFloor(cfg, dte)

(* _first_triggered: the first rule of this order that fires.              *)
Priority == <<"profit_target", "earnings_gap", "thesis_invalidated",
              "trailing_stop", "stop_loss", "dte_stop">>

Reason(cfg, pos, spot, premium, dte, live, ctx, earnings) ==
  LET fires(i) == Fires(Priority[i], cfg, pos, spot, premium, dte, live, ctx, earnings)
      first == {i \in 1..6 : fires(i) /\ \A j \in 1..(i - 1) : ~fires(j)}
  IN  IF first = {} THEN "none" ELSE Priority[CHOOSE i \in first : TRUE]
=============================================================================
