------------------------------- MODULE Trade -------------------------------
(***************************************************************************)
(* One trade from its data to its exit: the pipeline (Pipeline) chooses a  *)
(* contract on a detected structure (Signals), the filled order becomes a  *)
(* position that keeps that structure, and ExitLoop._evaluate judges it    *)
(* with the monitor's rules (ExitRules) as prices, the cached structure,   *)
(* the calendar and the operator's settings change.                        *)
(*                                                                         *)
(* How an order fills and how a sell is placed are OrderLifecycle and      *)
(* ExitLoop; here both succeed at once.                                    *)
(***************************************************************************)
EXTENDS Pipeline

CONSTANTS
  Configs,       \* LiveConfig: the exit thresholds the operator may save
  Contexts,      \* ExitContext and spread: [iv, rsi, hist, spread]
  Premiums,      \* option mids
  EarningsDays,  \* days to the next earnings date
  AdoptedDte     \* days to expiry of a position found at startup

INSTANCE ExitRules

(* _FIELDS: what LiveConfig.update accepts of each threshold, from the      *)
(* settings tab and from the overrides on disk.  Values of the environment *)
(* are not validated (from_env); they are assumed to be in these ranges.   *)
Valid(c) ==
  /\ c \in [dynamic : BOOLEAN, stopLoss : Nat, dteFloor : Nat, wallBand : Nat,
            activation : Nat, giveback : Nat, confidenceDecay : Nat, wallDrift : Nat,
            ivAdjustment : Nat, momentumAdjustment : Nat, rsiConfirm : Nat,
            rsiDiverge : Nat, earningsBuffer : Nat, spreadWide : Nat,
            liquidityAdjustment : Nat]
  /\ c.stopLoss * 100 \in Unit..(95 * Unit)
  /\ c.dteFloor \in 0..30
  /\ c.wallBand * 200 \in Unit..(20 * Unit)
  /\ c.activation * 20 \in Unit..(60 * Unit)
  /\ c.giveback * 20 \in Unit..(19 * Unit)
  /\ c.confidenceDecay * 20 \in Unit..(19 * Unit)
  /\ c.wallDrift * 10 \in Unit..(50 * Unit)
  /\ \A a \in {c.ivAdjustment, c.momentumAdjustment, c.liquidityAdjustment} :
       a * 10 \in 0..(8 * Unit)
  /\ c.rsiConfirm \in 51..90 /\ c.rsiDiverge \in 10..49
  /\ c.earningsBuffer \in 0..10
  /\ c.spreadWide * 100 \in Unit..(100 * Unit)

ASSUME TradeAssumption ==
  /\ Configs # {} /\ \A c \in Configs : Valid(c)
  /\ \A ctx \in Contexts : ctx.iv \in (-Unit..Unit) \union {NoIv}
  /\ Premiums # {} /\ Premiums \subseteq Nat \ {0}
  /\ EarningsDays \subseteq Nat /\ AdoptedDte \in Nat

VARIABLES
  phase,       \* of the trade
  config,      \* LiveConfig
  thresholds,  \* the attributes of the ExitMonitor
  pos,         \* the position
  spot, premium, dte, earnings,   \* what the broker answers about it
  live,        \* the setup in the cache, {} if there is none or it is stale
  evaluated,   \* history: nothing has changed since the last tick
  reason       \* the ExitReason it was sold for

tradeVars == <<phase, config, thresholds, pos, spot, premium, dte, earnings,
               live, evaluated, reason>>
vars == <<pipeVars, tradeVars>>

Days == 0..Max({c.dte : c \in Offered} \union {AdoptedDte})
Earnings == EarningsDays \union {NoDate}
NoPosition == [type |-> "none", entry |-> Nothing, target |-> Nothing,
               setup |-> {}, peak |-> Nothing]

(* The types of the variables, and that the peak of an evaluated position  *)
(* is no lower than its premium (ExitLoop._evaluate saves it first).       *)
TypeOK ==
  /\ PipeTypeOK
  /\ phase \in {"entering", "holding", "exited"}
  /\ config \in Configs /\ thresholds.dynamic \in BOOLEAN
  /\ pos.type \in {"none", "call", "put"}
  /\ pos.entry \in Premiums \union {Nothing} /\ pos.peak \in Premiums \union {Nothing}
  /\ \A s \in pos.setup : s.direction = pos.type /\ s.target = pos.target
  /\ spot \in Spots /\ premium \in Premiums /\ dte \in Days /\ earnings \in Earnings
  /\ Cardinality(live) <= 1 /\ \A s \in live : s.spot \in Spots
  /\ evaluated => pos.peak >= premium
  /\ reason \in Range(Priority) \union {"none"}

Init ==
  /\ PipeInit
  /\ phase = "entering" /\ config = CHOOSE c \in Configs : TRUE
  /\ thresholds = config
  /\ pos = NoPosition /\ live = {} /\ evaluated = FALSE /\ reason = "none"
  /\ spot = Min(Spots) /\ premium = Min(Premiums) /\ dte = 0 /\ earnings = NoDate

(* The run of the pipeline is over, and its state is gone.                 *)
Forgotten ==
  /\ stage' = "end" /\ mode' = "autonomous" /\ bypass' = FALSE /\ alerts' = {}
  /\ tide' = NoTide /\ cands' = <<>> /\ next' = 1 /\ ordered' = {}
  /\ gex' = [t \in Tickers |-> NoReport] /\ dark' = [t \in Tickers |-> None]
  /\ contracts' = [t \in Tickers |-> {}] /\ other' = [t \in Tickers |-> NoData]

Pipe == phase = "entering" /\ PipeNext /\ UNCHANGED tradeVars

(* The settings ExitLoop was built with, which nothing reads before.       *)
Configured == config' \in Configs /\ thresholds' = config'

(* OrderLifecycleManager._promote: the fill of an ordered candidate.       *)
Open ==
  /\ phase = "entering" /\ stage = "end" /\ phase' = "holding"
  /\ \E c \in ordered, price \in Premiums :
       /\ pos' = [type |-> c.contract.type, entry |-> price, target |-> c.setup.target,
                  setup |-> {c.setup}, peak |-> Nothing]
       /\ spot' = c.setup.spot /\ premium' = price /\ dte' = c.contract.dte
       /\ live' = {c.setup}
  /\ Configured /\ Forgotten /\ UNCHANGED <<earnings, evaluated, reason>>

(* reconcile_positions: a position of the account, found at startup.       *)
Adopt ==
  /\ phase = "entering" /\ stage = "market" /\ phase' = "holding"
  /\ \E type \in {"call", "put"}, price \in Premiums :
       /\ pos' = [type |-> type, entry |-> price, target |-> Nothing,
                  setup |-> {}, peak |-> Nothing]
       /\ premium' = price
  /\ dte' = AdoptedDte
  /\ Configured /\ Forgotten
  /\ UNCHANGED <<spot, earnings, live, evaluated, reason>>

Holding == phase = "holding" /\ UNCHANGED <<pipeVars, phase, reason>>

(* The market moves, and the calendar of earnings changes.                 *)
MarketMoves ==
  /\ Holding /\ evaluated' = FALSE
  /\ \/ spot' \in Spots /\ UNCHANGED <<premium, earnings>>
     \/ premium' \in Premiums /\ UNCHANGED <<spot, earnings>>
     \/ earnings' \in Earnings /\ UNCHANGED <<spot, premium>>
  /\ UNCHANGED <<config, thresholds, pos, dte, live>>

(* GEXScanner._scan_ticker puts a setup in the cache; or it has gone stale.*)
Scan ==
  /\ Holding /\ evaluated' = FALSE
  /\ \/ live' = {}
     \/ \E g \in Reports : live' = {Detect(g, spot)}
  /\ UNCHANGED <<config, thresholds, pos, spot, premium, dte, earnings>>

DayPasses ==
  /\ Holding /\ evaluated' = FALSE /\ dte > 0 /\ dte' = dte - 1
  /\ UNCHANGED <<config, thresholds, pos, spot, premium, earnings, live>>

(* LiveConfig.update, from the settings tab.                               *)
Reconfigure ==
  /\ Holding /\ evaluated' = FALSE /\ config' \in Configs
  /\ UNCHANGED <<thresholds, pos, spot, premium, dte, earnings, live>>

(* The settings a tick copies into the monitor.                            *)
Synced == [config EXCEPT !.wallBand = thresholds.wallBand]

(* Mutation: the new high is not saved when no exit fires.                 *)
PeakDropped(p, mid) == p

Peaked(p, mid) ==
  [p EXCEPT !.peak = IF p.peak = Nothing \/ mid > p.peak THEN mid ELSE p.peak]

(* ExitLoop._tick and _evaluate, with quotes for the spot and the option.  *)
Evaluate ==
  /\ phase = "holding" /\ thresholds' = Synced /\ pos' = Peaked(pos, premium)
  /\ \E ctx \in Contexts :
       reason' = Reason(thresholds', pos', spot, premium, dte, live, ctx, earnings)
  /\ phase' = IF reason' = "none" THEN "holding" ELSE "exited"
  /\ evaluated' = (reason' = "none")
  /\ UNCHANGED <<pipeVars, config, spot, premium, dte, earnings, live>>

Next ==
  \/ Pipe \/ Open \/ Adopt
  \/ MarketMoves \/ Scan \/ DayPasses \/ Reconfigure \/ Evaluate

(* The loop polls while the market is open and gets its quotes; days pass. *)
Fairness == WF_vars(Evaluate) /\ WF_vars(DayPasses)

Spec == Init /\ [][Next]_vars /\ Fairness

-----------------------------------------------------------------------------
(* The rules that sell do not undo the ones that bought: under the prices  *)
(* and the structure of its detection, filled at its mark, a position is   *)
(* sold only because the wall or the expiry is already near (the band and  *)
(* the floor are settings of their own), whatever the context and the      *)
(* adjustments.                                                            *)
EntryIsNotExit ==
  phase = "holding" /\ pos.peak = Nothing =>
    \A s \in pos.setup, ctx \in Contexts, days \in Earnings :
      Reason(Synced, [pos EXCEPT !.peak = pos.entry], s.spot, pos.entry, dte, {s}, ctx, days)
        \in {"none", "profit_target", "dte_stop"}

(* How far the rules let a held position go: not below the stop widened by *)
(* the highest IV, a loser before earnings not below the plain stop and a  *)
(* winner not at all, an armed trailing stop not below its loosest floor,  *)
(* and no position past the expiry floor of the settings in force.         *)
HeldWithinLimits ==
  phase = "holding" /\ evaluated =>
    LET cfg == thresholds
        room == IF cfg.dynamic THEN U2 + Unit * cfg.ivAdjustment ELSE U2
        near == cfg.dynamic /\ earnings # NoDate /\ earnings <= cfg.earningsBuffer
        stop == cfg.stopLoss * (IF near THEN U2 ELSE room)
        peakGain == pos.peak - pos.entry
    IN  /\ (pos.entry - premium) * U3 < stop * pos.entry
        /\ near => premium <= pos.entry
        /\ peakGain * Unit >= pos.entry * cfg.activation /\ peakGain > 0
             => (pos.peak - premium) * U3 < peakGain * cfg.giveback * room
        /\ dte > config.dteFloor

(* "False reproduces the original static-threshold behavior exactly"       *)
(* (exits/monitor.py:96): with the switch off in the settings, neither the *)
(* context nor the earnings date nor the live walls and confidence have a  *)
(* say in the next evaluation.                                             *)
StaticIsStatic ==
  phase = "holding" /\ ~config.dynamic =>
    LET bare == [iv |-> NoIv, rsi |-> {}, hist |-> {}, spread |-> 0]
        original == Reason(Synced, pos, spot, premium, dte, live, bare, NoDate)
    IN  \A ctx \in Contexts, days \in Earnings, wall \in Spots \union {Nothing} :
          LET moved == {[s EXCEPT !.callWall = wall, !.putWall = wall, !.conf = 0] :
                          s \in live}
          IN  Reason(Synced, pos, spot, premium, dte, moved, ctx, days) = original

(* Every position is sold in the end, at the latest at its expiry floor.   *)
EventuallyExited == phase = "holding" ~> phase = "exited"

(* "Changes apply from the next scan / poll cycle - no restart needed"     *)
(* (live/approval_server.py:1360): what a tick judges by is what is set.   *)
(* The code does not satisfy this one: a tick does not copy the wall band. *)
SettingsInForce == phase = "holding" /\ evaluated => thresholds = config
=============================================================================
