------------------------------ MODULE ExitLoop ------------------------------
(***************************************************************************)
(* live/exit_loop.py: the ExitLoop, with live/position_store.py, the sells *)
(* it places at the broker, RiskEngine.record_pnl, and the other writer of *)
(* the store, OrderLifecycleManager._promote.                              *)
(*                                                                         *)
(* A tick takes a snapshot of the store and works through it with many     *)
(* awaits: prices, a quote, the market context, the placement.  Between    *)
(* two awaits the order manager, the broker and the market may act, and    *)
(* the loop goes on with the copy of the position it took from the         *)
(* snapshot.                                                               *)
(*                                                                         *)
(* All positions are taken to be on one option contract, which the account *)
(* holds as one balance: the broker refuses a sell the balance does not    *)
(* cover and answers a known ref_id with the order it already has.         *)
(***************************************************************************)
EXTENDS Integers, FiniteSets

CONSTANTS
  Positions,   \* position_id, the order id of the buy
  Adopted,     \* those opened at startup from a partly filled, working order
  Quantity,    \* contracts per buy order
  Reasons,     \* ExitReason
  MaxPremium,  \* bound: premiums are 1..MaxPremium
  MaxFaults    \* bound: failing calls in one behaviour

ASSUME ExitLoopAssumption ==
  /\ Positions # {} /\ Reasons # {} /\ "none" \notin Reasons
  /\ Adopted \subseteq Positions /\ IsFiniteSet(Adopted)
  /\ Quantity \in Nat \ {0, 1}
  /\ MaxPremium \in Nat \ {0}
  /\ MaxFaults \in Nat

VARIABLES
  buy,        \* the buy order: not placed, still working, or resolved
  bought,     \* contracts it has bought
  tracked,    \* PositionStore: quantity of the position, 0 when it has none
  peak,       \* PositionStore: peak_premium, Unknown while it is None
  seen,       \* history: highest premium observed since the position opened
  signal,     \* what ExitMonitor.evaluate answers for a position, or NoExit
  todo,       \* positions of the snapshot still to be evaluated
  copyQty,    \* the copies of quantity and peak_premium in the snapshot
  copyPeak,
  stage,      \* what the loop awaits
  cur,        \* the position it evaluates
  reason,     \* the ExitReason it sells for
  account,    \* the broker: contracts held and not pledged to a sell
  sells,      \* the broker: sell orders accepted
  recorded,   \* record_pnl calls for each position
  refused,    \* history: positions whose sell came back as an error payload
  faults

book == <<account, sells>>
store == <<tracked, peak>>
loop == <<todo, copyQty, copyPeak, stage, cur, reason>>
vars == <<buy, bought, store, seen, signal, loop, book, recorded, refused, faults>>

Unknown == 0
NoExit == "none"
Premium == 1..MaxPremium

RefId(p, r) == <<p, r>>

Sells == [pos : Positions, reason : Reasons, qty : 1..Quantity]

TypeOK ==
  /\ buy \in [Positions -> {"none", "working", "resolved"}]
  /\ bought \in [Positions -> 0..Quantity]
  /\ tracked \in [Positions -> 0..Quantity]
  /\ peak \in [Positions -> Premium \union {Unknown}]
  /\ seen \in [Positions -> Premium \union {Unknown}]
  /\ signal \in [Positions -> Reasons \union {NoExit}]
  /\ todo \subseteq Positions
  /\ copyQty \in [Positions -> 0..Quantity]
  /\ copyPeak \in [Positions -> Premium \union {Unknown}]
  /\ stage \in {"idle", "context", "placing"}
  /\ cur \in Positions
  /\ reason \in Reasons
  /\ account \in Nat
  /\ \A s \in sells : [pos |-> s.pos, reason |-> s.reason, qty |-> s.qty] \in Sells
  /\ recorded \in [Positions -> Nat]
  /\ refused \subseteq Positions
  /\ faults \in 0..MaxFaults

(* After startup: adopt_working_orders has opened a position for what an   *)
(* adopted order had already bought.                                       *)
Init ==
  /\ buy = [p \in Positions |-> IF p \in Adopted THEN "working" ELSE "none"]
  /\ bought = [p \in Positions |-> IF p \in Adopted THEN 1 ELSE 0]
  /\ tracked = bought
  /\ peak = [p \in Positions |-> Unknown]
  /\ seen = peak
  /\ signal = [p \in Positions |-> NoExit]
  /\ todo = {}
  /\ copyQty = [p \in Positions |-> 0]
  /\ copyPeak = peak
  /\ stage = "idle"
  /\ cur = CHOOSE p \in Positions : TRUE
  /\ reason = CHOOSE r \in Reasons : TRUE
  /\ account = Cardinality(Adopted)
  /\ sells = {}
  /\ recorded = [p \in Positions |-> 0]
  /\ refused = {}
  /\ faults = 0

NoFault == faults' = faults
Fault == faults < MaxFaults /\ faults' = faults + 1

-----------------------------------------------------------------------------
(* The rest of the process and the market.                                 *)

(* Mutation: what was promoted is added to what the store has.             *)
PromoteAdding(p, q) ==
  /\ buy' = [buy EXCEPT ![p] = "resolved"]
  /\ bought' = [bought EXCEPT ![p] = q]
  /\ account' = account + (q - bought[p])
  /\ tracked' = [tracked EXCEPT ![p] = @ + q]
  /\ peak' = [peak EXCEPT ![p] = Unknown]
  /\ UNCHANGED <<seen, signal, loop, sells, recorded, refused, faults>>

(* _promote: a new Position, with no peak, under the order's id.           *)
Promote(p, q) ==
  /\ buy' = [buy EXCEPT ![p] = "resolved"]
  /\ bought' = [bought EXCEPT ![p] = q]
  /\ account' = account + (q - bought[p])
  /\ tracked' = [tracked EXCEPT ![p] = q]
  /\ peak' = [peak EXCEPT ![p] = Unknown]
  /\ UNCHANGED <<seen, signal, loop, sells, recorded, refused, faults>>

(* A new order has resolved with q contracts.                              *)
PromoteNew(p, q) == p \notin Adopted /\ buy[p] = "none" /\ Promote(p, q)

(* The remainder of an adopted order resolves, having bought more or not.  *)
PromoteAdopted(p, q) == buy[p] = "working" /\ q >= bought[p] /\ Promote(p, q)

(* Prices, the gamma structure and the calendar move.                      *)
MarketMoves(p) ==
  /\ \E r \in Reasons \union {NoExit} : signal' = [signal EXCEPT ![p] = r]
  /\ UNCHANGED <<buy, bought, store, seen, loop, book, recorded, refused, faults>>

-----------------------------------------------------------------------------
(* _tick and _evaluate.                                                    *)

StartTick ==
  /\ stage = "idle" /\ todo = {}
  /\ todo' = {p \in Positions : tracked[p] > 0} /\ todo' # {}
  /\ copyQty' = tracked /\ copyPeak' = peak
  /\ UNCHANGED <<buy, bought, store, seen, signal, stage, cur, reason, book,
                 recorded, refused, faults>>

(* No spot, no quote, or an exception: the position waits for a later tick.*)
Skip(p) ==
  /\ stage = "idle" /\ p \in todo /\ Fault
  /\ todo' = todo \ {p}
  /\ UNCHANGED <<buy, bought, store, seen, signal, copyQty, copyPeak, stage,
                 cur, reason, book, recorded, refused>>

Observe(p, m) ==
  /\ stage = "idle" /\ p \in todo /\ NoFault
  /\ todo' = todo \ {p}
  /\ cur' = p
  /\ seen' = [seen EXCEPT ![p] = IF m > @ THEN m ELSE @]
  /\ copyPeak' = [copyPeak EXCEPT ![p] = IF m > @ THEN m ELSE @]
  /\ UNCHANGED <<buy, bought, signal, copyQty, reason, book, recorded, refused>>

(* Mutation: the new peak is kept on the copy only.                         *)
QuoteLocalPeak(p, m) ==
  /\ Observe(p, m) /\ stage' = "context"
  /\ UNCHANGED store

(* Mutation: without a new peak the position is left for the next tick.     *)
QuotePeakOnly(p, m) ==
  /\ Observe(p, m)
  /\ IF m > copyPeak[p]
     THEN /\ stage' = "context"
          /\ tracked' = [tracked EXCEPT ![p] = copyQty[p]]
          /\ peak' = [peak EXCEPT ![p] = m]
     ELSE stage' = "idle" /\ UNCHANGED store

(* The quote says m.  A new peak is written back at once, with the rest of *)
(* the copy.                                                               *)
Quote(p, m) ==
  /\ Observe(p, m) /\ stage' = "context"
  /\ IF m > copyPeak[p]
     THEN /\ tracked' = [tracked EXCEPT ![p] = copyQty[p]]
          /\ peak' = [peak EXCEPT ![p] = m]
     ELSE UNCHANGED store

Hold ==
  /\ stage = "context" /\ signal[cur] = NoExit
  /\ stage' = "idle"
  /\ UNCHANGED <<buy, bought, store, seen, signal, todo, copyQty, copyPeak, cur,
                 reason, book, recorded, refused, faults>>

(* Mutation: the P&L is recorded when the exit triggers.                    *)
TriggerRecording ==
  /\ stage = "context" /\ signal[cur] # NoExit
  /\ stage' = "placing" /\ reason' = signal[cur]
  /\ recorded' = [recorded EXCEPT ![cur] = @ + 1]
  /\ UNCHANGED <<buy, bought, store, seen, signal, todo, copyQty, copyPeak, cur,
                 book, refused, faults>>

Trigger ==
  /\ stage = "context" /\ signal[cur] # NoExit
  /\ stage' = "placing" /\ reason' = signal[cur]
  /\ UNCHANGED <<buy, bought, store, seen, signal, todo, copyQty, copyPeak, cur,
                 book, recorded, refused, faults>>

-----------------------------------------------------------------------------
(* _execute_exit.                                                          *)

(* store.remove and record_pnl, after a placement that did not raise.      *)
Forget ==
  /\ tracked' = [tracked EXCEPT ![cur] = 0]
  /\ peak' = [peak EXCEPT ![cur] = Unknown]
  /\ seen' = [seen EXCEPT ![cur] = Unknown]
  /\ recorded' = [recorded EXCEPT ![cur] = @ + 1]
  /\ stage' = "idle"
  /\ UNCHANGED <<buy, bought, signal, todo, copyQty, copyPeak, cur, reason>>

(* Mutation: every attempt has a ref_id of its own.                         *)
ThisSellFresh ==
  [pos |-> cur, reason |-> reason, qty |-> copyQty[cur], ref |-> <<cur, reason, faults>>]

ThisSell ==
  [pos |-> cur, reason |-> reason, qty |-> copyQty[cur], ref |-> RefId(cur, reason)]

Known == \E s \in sells : s.ref = ThisSell.ref

(* The sell reaches the broker and is taken.                               *)
Reaches ==
  IF Known THEN UNCHANGED book
  ELSE /\ account >= copyQty[cur]
       /\ account' = account - copyQty[cur]
       /\ sells' = sells \union {ThisSell}

(* The answer carries an order id.                                         *)
SellAnswered ==
  /\ stage = "placing" /\ NoFault
  /\ Reaches /\ Forget
  /\ UNCHANGED refused

(* The answer is an error payload: rh_call does not raise, the order id is *)
(* None, and the code goes on as if the sell were placed.                  *)
SellRefused ==
  /\ stage = "placing"
  /\ IF Known \/ account >= copyQty[cur] THEN Fault ELSE NoFault
  /\ refused' = refused \union {cur}
  /\ Forget
  /\ UNCHANGED book

(* Mutation: an exception takes the position out of the store as well.      *)
SellRaisesForgets ==
  /\ stage = "placing" /\ Fault
  /\ UNCHANGED book \/ Reaches
  /\ Forget
  /\ UNCHANGED refused

(* The call raises, before or after the broker took the sell: the position *)
(* stays in the store for the next tick.                                   *)
SellRaises ==
  /\ stage = "placing" /\ Fault
  /\ UNCHANGED book \/ Reaches
  /\ stage' = "idle"
  /\ UNCHANGED <<buy, bought, store, seen, signal, todo, copyQty, copyPeak, cur,
                 reason, recorded, refused>>

-----------------------------------------------------------------------------
Evaluate ==
  \/ \E p \in Positions : Skip(p) \/ \E m \in Premium : Quote(p, m)
  \/ Hold \/ Trigger
  \/ SellAnswered \/ SellRefused \/ SellRaises

Next ==
  \/ \E p \in Positions, q \in 1..Quantity : PromoteNew(p, q) \/ PromoteAdopted(p, q)
  \/ \E p \in Positions : MarketMoves(p)
  \/ StartTick
  \/ Evaluate

Spec == Init /\ [][Next]_vars

(* run() ticks for ever in market hours and survives every exception, and  *)
(* every call returns or raises.                                           *)
FairSpec == Spec /\ WF_vars(StartTick) /\ WF_vars(Evaluate)

-----------------------------------------------------------------------------
Opened(p) == buy[p] = "resolved"
OneWriter == Positions \ Adopted

(* Retrying an exit for the same reason never sells twice, whether the     *)
(* first call failed before or after the broker took it.                   *)
RetryIdempotent ==
  \A s, t \in sells : s.pos = t.pos /\ s.reason = t.reason => s = t

(* A position leaves the store only after a sell that the broker took or   *)
(* answered; one that raised leaves it there, under its stop-loss.         *)
KeptUntilAnswered ==
  \A p \in OneWriter :
    Opened(p) /\ tracked[p] = 0 => p \in refused \/ \E s \in sells : s.pos = p

(* The daily P&L of the kill-switch gets each position exactly once, when  *)
(* it leaves the store, however often the exit was attempted.              *)
PnlOncePerExit ==
  \A p \in OneWriter :
    recorded[p] = IF Opened(p) /\ tracked[p] = 0 THEN 1 ELSE 0

(* The stored peak is the highest premium any tick has observed: the       *)
(* trailing stop survives ticks that do not exit.                          *)
PeakKept == \A p \in OneWriter : tracked[p] > 0 => peak[p] = seen[p]

(* A position whose exit condition persists is sold, or at least leaves    *)
(* the store: a failing call or another position delays it, no more.       *)
ExitCompletes ==
  \A p \in Positions :
    tracked[p] > 0 /\ signal[p] # NoExit ~> tracked[p] = 0 \/ signal[p] = NoExit

(* AGENT_LOGIC.md: "If a sell order fails (e.g. market closed, API error), *)
(* the position stays in the store": no position leaves unsold.            *)
SoldBeforeForgotten ==
  \A p \in OneWriter :
    Opened(p) /\ tracked[p] = 0 => \E s \in sells : s.pos = p

(* docs/ARCHITECTURE.md, 7: a retry after a transient failure "can't       *)
(* double-sell it".                                                        *)
SoldAtMostOnce ==
  \A p \in OneWriter : \A s, t \in sells : s.pos = p /\ t.pos = p => s = t

(* "Order filled ... Position is now monitored for exits" (_promote): what *)
(* a resolved order bought is what the store holds while it holds it.      *)
FillMonitored ==
  \A p \in Positions : Opened(p) /\ tracked[p] > 0 => tracked[p] = bought[p]
=============================================================================
