--------------------------- MODULE OrderLifecycle ---------------------------
(***************************************************************************)
(* live/order_manager.py: the OrderLifecycleManager, which owns the gap    *)
(* between "buy order placed" and "position open", together with the part  *)
(* of PositionStore it writes and the broker it talks to.                  *)
(*                                                                         *)
(* The manager is one coroutine.  It polls its orders one after the other  *)
(* and never overlaps two handlers, but every network call is an await: an *)
(* action below is the code from one await to the next, so the broker, the *)
(* clock and Track (called by the executor's coroutine) run in between.    *)
(*                                                                         *)
(* An entry e is one approved candidate; its n-th order has the key        *)
(* <<e, n>>, n being WorkingOrder.attempts when it was placed.             *)
(*                                                                         *)
(* Faults of the network are explicit and budgeted by MaxFaults: a poll    *)
(* that raises, comes back empty or in an unknown state; a cancel that is  *)
(* lost, or reaches the broker while its response is lost, or is refused   *)
(* by an error payload; a placement that reaches the broker while its      *)
(* response is lost.                                                       *)
(***************************************************************************)
EXTENDS Integers, FiniteSets

CONSTANTS
  Entries,          \* approved candidates that reach placement
  Quantity,         \* contracts per entry (WorkingOrder.quantity)
  MaxReplacements,  \* _MAX_REPLACEMENTS
  RepriceAfter,     \* _REPRICE_AFTER, in clock ticks
  GiveUpAfter,      \* _GIVE_UP_AFTER, in clock ticks
  MaxFaults         \* bound: network faults in one behaviour

ASSUME LifecycleAssumption ==
  /\ Quantity \in Nat \ {0}
  /\ MaxReplacements \in Nat
  /\ RepriceAfter \in Nat \ {0}
  /\ GiveUpAfter \in Nat \ {0}
  /\ MaxFaults \in Nat

VARIABLES
  state,       \* the broker: state of every order ...
  filled,      \* ... and its processed_quantity
  orders,      \* the entries with an order in OrderLifecycleManager._orders
  attempts,    \* the fields of their WorkingOrder records
  cancelling,
  giving_up,
  age,         \* clock ticks since placed_at
  since,       \* clock ticks since last_action_at
  doing,       \* the call _check_order is awaiting for an entry, if any
  todo,        \* the entries the current _tick has still to check
  store,       \* PositionStore: contracts held under each order id, 0 if none
  lost,        \* history: entries whose live order the agent stopped following
  faults       \* network faults so far

book == <<state, filled>>
wo == <<attempts, cancelling, giving_up, age, since>>
manager == <<orders, wo, doing, todo>>
vars == <<book, manager, store, lost, faults>>

Attempts == 0..MaxReplacements

(* "working" stands for queued, unconfirmed, confirmed, partially_filled;  *)
(* "cancelled" for every state of _TERMINAL_STATES: the code never asks    *)
(* which of them it is.                                                    *)
OrderState == {"none", "working", "pending_cancelled", "filled", "cancelled"}
LiveState == {"working", "pending_cancelled"}

StateOf(e) == state[e][attempts[e]]
FilledOf(e) == filled[e][attempts[e]]
Exposed(e, n) == state[e][n] \in LiveState \/ filled[e][n] > 0

TypeOK ==
  /\ state \in [Entries -> [Attempts -> OrderState]]
  /\ filled \in [Entries -> [Attempts -> 0..Quantity]]
  /\ orders \subseteq Entries
  /\ attempts \in [Entries -> Attempts]
  /\ cancelling \in [Entries -> BOOLEAN]
  /\ giving_up \in [Entries -> BOOLEAN]
  /\ age \in [Entries -> 0..GiveUpAfter]
  /\ since \in [Entries -> 0..RepriceAfter]
  /\ doing \in [Entries -> {"nothing", "cancel", "quote", "place"}]
  /\ todo \subseteq Entries
  /\ store \in [Entries -> [Attempts -> 0..Quantity]]
  /\ lost \subseteq Entries
  /\ faults \in 0..MaxFaults

Init ==
  /\ state = [e \in Entries |-> [n \in Attempts |-> "none"]]
  /\ filled = [e \in Entries |-> [n \in Attempts |-> 0]]
  /\ orders = {}
  /\ attempts = [e \in Entries |-> 0]
  /\ cancelling = [e \in Entries |-> FALSE]
  /\ giving_up = [e \in Entries |-> FALSE]
  /\ age = [e \in Entries |-> 0]
  /\ since = [e \in Entries |-> 0]
  /\ doing = [e \in Entries |-> "nothing"]
  /\ todo = {}
  /\ store = [e \in Entries |-> [n \in Attempts |-> 0]]
  /\ lost = {}
  /\ faults = 0

NoFault == faults' = faults
Fault == faults < MaxFaults /\ faults' = faults + 1

(* _orders.pop(order_id).  The popped WorkingOrder of an entry that is not *)
(* replaced is garbage, so its record returns to the initial value.        *)
Pop(e) == orders' = orders \ {e}
Discard(e) ==
  /\ attempts' = [attempts EXCEPT ![e] = 0]
  /\ cancelling' = [cancelling EXCEPT ![e] = FALSE]
  /\ giving_up' = [giving_up EXCEPT ![e] = FALSE]
  /\ age' = [age EXCEPT ![e] = 0]
  /\ since' = [since EXCEPT ![e] = 0]
Await(e, call) == doing' = [doing EXCEPT ![e] = call]

-----------------------------------------------------------------------------
(* The broker and the clock: what the code uses of them.                   *)

(* One more contract of a live order executes; a cancel that is pending    *)
(* can still lose the race against the fill.                               *)
BrokerFill(e, n) ==
  /\ state[e][n] \in LiveState
  /\ filled' = [filled EXCEPT ![e][n] = @ + 1]
  /\ state' = [state EXCEPT ![e][n] =
                 IF filled[e][n] + 1 = Quantity THEN "filled" ELSE @]
  /\ UNCHANGED <<manager, store, lost, faults>>

(* A requested cancel takes effect.                                        *)
BrokerCancel(e, n) ==
  /\ state[e][n] = "pending_cancelled"
  /\ state' = [state EXCEPT ![e][n] = "cancelled"]
  /\ UNCHANGED <<filled, manager, store, lost, faults>>

(* An order ends on its own: rejected, failed, voided, or a GFD expiring.  *)
BrokerEnd(e, n) ==
  /\ state[e][n] = "working"
  /\ state' = [state EXCEPT ![e][n] = "cancelled"]
  /\ UNCHANGED <<filled, manager, store, lost, faults>>

(* placed_at and last_action_at grow older; ages saturate at the only      *)
(* thresholds the code compares them with.                                 *)
Older(a, e, limit) ==
  IF (e \in orders \/ doing[e] # "nothing") /\ a[e] < limit THEN a[e] + 1 ELSE a[e]

ClockTick ==
  /\ age' = [e \in Entries |-> Older(age, e, GiveUpAfter)]
  /\ since' = [e \in Entries |-> Older(since, e, RepriceAfter)]
  /\ UNCHANGED <<book, orders, attempts, cancelling, giving_up, doing, todo,
                 store, lost, faults>>

-----------------------------------------------------------------------------
(* track(): the executor placed the entry's first order and the broker     *)
(* returned its id.                                                        *)
Track(e) ==
  /\ state[e][0] = "none"
  /\ state' = [state EXCEPT ![e][0] = "working"]
  /\ orders' = orders \union {e}
  /\ Discard(e)
  /\ UNCHANGED <<filled, doing, todo, store, lost, faults>>

(* The first placement raises, or answers without an id, after the broker  *)
(* took the order: result.placed is false and track() returns at once.     *)
TrackNothing(e) ==
  /\ state[e][0] = "none"
  /\ Fault
  /\ state' = [state EXCEPT ![e][0] = "working"]
  /\ lost' = lost \union {e}
  /\ UNCHANGED <<filled, manager, store>>

-----------------------------------------------------------------------------
Idle == \A e \in Entries : doing[e] = "nothing"

(* _tick: a snapshot of the tracked orders, checked one by one.  The order *)
(* within a tick is left open.                                             *)
StartTick ==
  /\ Idle /\ todo = {} /\ orders # {}
  /\ todo' = orders
  /\ UNCHANGED <<book, orders, wo, doing, store, lost, faults>>

(* _check_order up to its next await: the poll and what follows from it.   *)
Checking(e) ==
  /\ Idle /\ e \in todo
  /\ todo' = todo \ {e}

(* rh_call raises: caught in _tick, the order stays tracked.               *)
PollRaises(e) ==
  /\ Checking(e) /\ Fault
  /\ UNCHANGED <<book, orders, wo, doing, store, lost>>

(* A payload without an order: dropped from tracking.                      *)
PollEmpty(e) ==
  /\ Checking(e) /\ Fault
  /\ Pop(e) /\ Discard(e)
  /\ lost' = lost \union {e}
  /\ UNCHANGED <<book, doing, store>>

(* A state in neither _TERMINAL_STATES nor _WORKING_STATES: left tracked.  *)
PollUnexpected(e) ==
  /\ Checking(e) /\ Fault
  /\ UNCHANGED <<book, orders, wo, doing, store, lost>>

(* Mutation: promote with WorkingOrder.quantity whatever was processed.     *)
PromoteWholeQuantity(e) ==
  /\ Pop(e) /\ Discard(e)
  /\ store' = [store EXCEPT ![e][attempts[e]] = Quantity]
  /\ UNCHANGED <<book, doing, lost>>

(* _promote: the position takes the order's id and its processed quantity. *)
Promote(e) ==
  /\ Pop(e) /\ Discard(e)
  /\ store' = [store EXCEPT ![e][attempts[e]] = FilledOf(e)]
  /\ UNCHANGED <<book, doing, lost>>

PollFilled(e) ==
  /\ Checking(e) /\ NoFault
  /\ StateOf(e) = "filled"
  /\ Promote(e)

(* Mutation: a partial fill on a cancelled order is dropped with it.        *)
PollPartialDropped(e) ==
  /\ Checking(e) /\ NoFault
  /\ StateOf(e) = "cancelled" /\ FilledOf(e) > 0
  /\ Pop(e) /\ Discard(e)
  /\ UNCHANGED <<book, doing, store, lost>>

(* Mutation: promote a partially filled order while it is still working.    *)
PollPartialEarly(e) ==
  /\ Checking(e) /\ NoFault
  /\ StateOf(e) # "filled" /\ FilledOf(e) > 0
  /\ Promote(e)

PollPartial(e) ==
  /\ Checking(e) /\ NoFault
  /\ StateOf(e) = "cancelled" /\ FilledOf(e) > 0
  /\ Promote(e)

(* Mutation: every cancel of ours is taken for a reprice.                   *)
WantsWhenCancelled(e) == cancelling[e]

WantsReplacement(e) ==
  cancelling[e] /\ ~giving_up[e] /\ attempts[e] < MaxReplacements

(* Mutation: re-place once a cancel was requested, without waiting for the  *)
(* broker to confirm it.                                                    *)
PollReplaceUnconfirmed(e) ==
  /\ Checking(e) /\ NoFault
  /\ StateOf(e) \in {"pending_cancelled", "cancelled"}
  /\ FilledOf(e) = 0
  /\ WantsReplacement(e)
  /\ Pop(e) /\ Await(e, "quote")
  /\ UNCHANGED <<book, wo, store, lost>>

(* Terminal and unfilled: popped, then re-placed when the cancel was ours  *)
(* and not final, otherwise over.                                          *)
PollReplace(e) ==
  /\ Checking(e) /\ NoFault
  /\ StateOf(e) = "cancelled" /\ FilledOf(e) = 0
  /\ WantsReplacement(e)
  /\ Pop(e) /\ Await(e, "quote")
  /\ UNCHANGED <<book, wo, store, lost>>

PollEnded(e) ==
  /\ Checking(e) /\ NoFault
  /\ StateOf(e) = "cancelled" /\ FilledOf(e) = 0
  /\ ~WantsReplacement(e)
  /\ Pop(e) /\ Discard(e)
  /\ UNCHANGED <<book, doing, store, lost>>

(* Mutation: a give-up whose cancel failed is not tried again.              *)
DueToGiveUpOnce(e) ==
  ~cancelling[e] /\ ~giving_up[e] /\ age[e] >= GiveUpAfter

DueToGiveUp(e) == ~cancelling[e] /\ age[e] >= GiveUpAfter
DueToReprice(e) ==
  /\ ~cancelling[e] /\ age[e] < GiveUpAfter
  /\ since[e] >= RepriceAfter /\ attempts[e] < MaxReplacements

PollGiveUp(e) ==
  /\ Checking(e) /\ NoFault
  /\ StateOf(e) \in LiveState
  /\ DueToGiveUp(e)
  /\ giving_up' = [giving_up EXCEPT ![e] = TRUE]
  /\ Await(e, "cancel")
  /\ UNCHANGED <<book, orders, attempts, cancelling, age, since, store, lost>>

PollReprice(e) ==
  /\ Checking(e) /\ NoFault
  /\ StateOf(e) \in LiveState
  /\ DueToReprice(e)
  /\ Await(e, "cancel")
  /\ UNCHANGED <<book, orders, wo, store, lost>>

(* Nothing due, or a cancel still to land.                                 *)
PollWait(e) ==
  /\ Checking(e) /\ NoFault
  /\ StateOf(e) \in LiveState
  /\ ~DueToGiveUp(e) /\ ~DueToReprice(e)
  /\ UNCHANGED <<book, orders, wo, doing, store, lost>>

CheckOrder(e) ==
  \/ PollRaises(e) \/ PollEmpty(e) \/ PollUnexpected(e)
  \/ PollFilled(e) \/ PollPartial(e) \/ PollReplace(e) \/ PollEnded(e)
  \/ PollGiveUp(e) \/ PollReprice(e) \/ PollWait(e)

-----------------------------------------------------------------------------
(* _request_cancel.                                                        *)

CancelReaches(e) ==
  state' = [state EXCEPT ![e][attempts[e]] =
              IF @ \in LiveState THEN "pending_cancelled" ELSE @]

CancelReturns(e) ==
  /\ cancelling' = [cancelling EXCEPT ![e] = TRUE]
  /\ since' = [since EXCEPT ![e] = 0]
  /\ UNCHANGED <<attempts, giving_up, age>>

(* The broker takes the cancel (or finds the order already over) and the   *)
(* call returns.                                                           *)
CancelAccepted(e) ==
  /\ doing[e] = "cancel" /\ NoFault
  /\ CancelReaches(e) /\ CancelReturns(e) /\ Await(e, "nothing")
  /\ UNCHANGED <<filled, orders, todo, store, lost>>

(* The call returns an error payload, which rh_call does not turn into an  *)
(* exception: no cancel is pending, the code records one.                  *)
CancelRefused(e) ==
  /\ doing[e] = "cancel" /\ Fault
  /\ CancelReturns(e) /\ Await(e, "nothing")
  /\ UNCHANGED <<book, orders, todo, store, lost>>

(* The call raises, before or after the broker took the cancel.  Raising   *)
(* for an order that is already over is the broker's normal answer.        *)
CancelRaises(e) ==
  /\ doing[e] = "cancel"
  /\ IF StateOf(e) \in LiveState THEN Fault ELSE NoFault
  /\ UNCHANGED state \/ CancelReaches(e)
  /\ Await(e, "nothing")
  /\ UNCHANGED <<filled, orders, wo, todo, store, lost>>

-----------------------------------------------------------------------------
(* _place_replacement; the order is no longer in _orders here.             *)

(* _next_price finds a price.                                              *)
QuotePriced(e) ==
  /\ doing[e] = "quote"
  /\ Await(e, "place")
  /\ UNCHANGED <<book, orders, wo, todo, store, lost, faults>>

(* No option_id, no quote, or a price that floors to zero: not re-placed.  *)
QuoteMissing(e) ==
  /\ doing[e] = "quote"
  /\ Await(e, "nothing") /\ Discard(e)
  /\ UNCHANGED <<book, orders, todo, store, lost, faults>>

PlaceAccepted(e) ==
  /\ doing[e] = "place"
  /\ state' = [state EXCEPT ![e][attempts[e] + 1] = "working"]
  /\ orders' = orders \union {e}
  /\ attempts' = [attempts EXCEPT ![e] = @ + 1]
  /\ cancelling' = [cancelling EXCEPT ![e] = FALSE]
  /\ since' = [since EXCEPT ![e] = 0]
  /\ Await(e, "nothing")
  /\ UNCHANGED <<filled, giving_up, age, todo, store, lost, faults>>

(* The broker turns the replacement down: an exception or a response       *)
(* without an id.                                                          *)
PlaceRefused(e) ==
  /\ doing[e] = "place"
  /\ Await(e, "nothing") /\ Discard(e)
  /\ UNCHANGED <<book, orders, todo, store, lost, faults>>

(* The broker takes the replacement but its response is lost.              *)
PlaceUnanswered(e) ==
  /\ doing[e] = "place" /\ Fault
  /\ state' = [state EXCEPT ![e][attempts[e] + 1] = "working"]
  /\ Await(e, "nothing") /\ Discard(e)
  /\ lost' = lost \union {e}
  /\ UNCHANGED <<filled, orders, todo, store>>

FinishCall(e) ==
  \/ CancelAccepted(e) \/ CancelRefused(e) \/ CancelRaises(e)
  \/ QuotePriced(e) \/ QuoteMissing(e)
  \/ PlaceAccepted(e) \/ PlaceRefused(e) \/ PlaceUnanswered(e)

-----------------------------------------------------------------------------
Manager == StartTick \/ \E e \in Entries : CheckOrder(e) \/ FinishCall(e)

Broker == \E e \in Entries, n \in Attempts :
            BrokerFill(e, n) \/ BrokerCancel(e, n) \/ BrokerEnd(e, n)

Next ==
  \/ \E e \in Entries : Track(e) \/ TrackNothing(e)
  \/ Manager
  \/ Broker
  \/ ClockTick

Spec == Init /\ [][Next]_vars

(* run() loops for ever and catches every exception, every call returns or *)
(* raises, time passes, and a cancel the broker took does land unless the  *)
(* order fills first.  Nothing makes an order fill or expire.              *)
Fairness ==
  /\ WF_vars(StartTick)
  /\ \A e \in Entries : WF_vars(CheckOrder(e)) /\ WF_vars(FinishCall(e))
  /\ \A e \in Entries, n \in Attempts : WF_vars(BrokerCancel(e, n))
  /\ WF_vars(ClockTick)

FairSpec == Spec /\ Fairness

-----------------------------------------------------------------------------
(* An entry has at most one order that is live or has filled contracts: a  *)
(* replacement is never placed while, or after, the order it replaces can  *)
(* still buy or has bought.  This is what cancel -> confirm cancelled ->   *)
(* place is for (module docstring): the entry never buys more than the     *)
(* quantity the risk gate approved, whatever calls are lost.               *)
SingleExposure ==
  \A e \in Entries : \A m, n \in Attempts :
    Exposed(e, m) /\ Exposed(e, n) => m = n

(* Every contract bought is either held by the position store under its    *)
(* order's id, or under an order that is still polled, or belongs to an    *)
(* entry the agent lost in one of the named faults.                        *)
Custody ==
  \A e \in Entries, n \in Attempts :
    filled[e][n] > 0 =>
      \/ store[e][n] > 0
      \/ e \in orders /\ n = attempts[e]
      \/ e \in lost

(* A position holds exactly the contracts its order bought, and that order *)
(* can buy no more: promotion happens only on a final state, so a late     *)
(* fill can never make a position too small.                               *)
PositionsExact ==
  \A e \in Entries, n \in Attempts :
    store[e][n] > 0 =>
      store[e][n] = filled[e][n] /\ state[e][n] \in {"filled", "cancelled"}

(* The states in which the manager has recorded a cancel that is not       *)
(* pending at the broker: it waits for it and never asks again.            *)
Stranded(e) ==
  e \in orders /\ cancelling[e] /\ StateOf(e) = "working"

(* A tracked order is eventually promoted, ended or dropped, with nothing  *)
(* but a cancel refused by an error payload able to prevent it: repricing  *)
(* and failed cancels never postpone the give-up for ever, because         *)
(* placed_at survives a replacement.                                       *)
EventuallySettled ==
  \A e \in Entries :
    e \in orders ~> (e \notin orders /\ doing[e] = "nothing") \/ Stranded(e)

-----------------------------------------------------------------------------
(* What the manager promises of an entry, see EntryCustody.                *)

Phase(e) ==
  IF e \in lost THEN "lost"
  ELSE IF state[e][0] = "none" THEN "idle"
  ELSE IF e \in orders \/ doing[e] # "nothing" THEN "working"
  ELSE IF \E n \in Attempts : store[e][n] > 0 THEN "open"
  ELSE "ended"

BoughtBy(e) ==
  {x \in Attempts \X (1..Quantity) : x[2] <= filled[e][x[1]]}

Held(e) ==
  IF \E n \in Attempts : store[e][n] > 0
  THEN store[e][CHOOSE n \in Attempts : store[e][n] > 0] ELSE 0

EC == INSTANCE EntryCustody WITH
        Fills <- Attempts \X (1..Quantity),
        phase <- [e \in Entries |-> Phase(e)],
        bought <- [e \in Entries |-> BoughtBy(e)],
        held <- [e \in Entries |-> Held(e)]

(* The lifecycle implements EntryCustody: whatever is repriced, raced or   *)
(* dropped, an entry settles once, hands over all it bought, and buys      *)
(* nothing afterwards.                                                     *)
ImplementsCustody == EC!CustodySpec
=============================================================================
