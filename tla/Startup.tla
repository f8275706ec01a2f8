------------------------------ MODULE Startup ------------------------------
(***************************************************************************)
(* What run_live.main rebuilds from the broker before the loops start:     *)
(* reconcile_positions (live/reconciler.py) puts the contracts the account *)
(* holds into PositionStore, keyed by instrument, then                     *)
(* adopt_working_orders (live/order_manager.py) puts the buy orders that   *)
(* are still live into OrderLifecycleManager._orders, and what they have   *)
(* bought so far into PositionStore, keyed by order.                       *)
(*                                                                         *)
(* Both memories are empty when the process starts, so every behaviour     *)
(* begins with an arbitrary state of the broker; a crash during startup is *)
(* the beginning of another behaviour.  An action is one answer of the     *)
(* broker with the code that handles it; the orders go on filling and      *)
(* ending between the answers.                                             *)
(*                                                                         *)
(* Every order buys an instrument of its own.  WorkingOrder.quantity is    *)
(* left out: only a replacement uses it, and an order that has bought      *)
(* something is never replaced.                                            *)
(***************************************************************************)
EXTENDS Integers

CONSTANTS
  Orders,     \* the agent's buy orders from before the restart
  Quantity,   \* contracts of an order
  MaxFailures   \* bound: failed or empty answers in one startup

ASSUME StartupAssumption == Quantity \in Nat \ {0} /\ MaxFailures \in Nat

VARIABLES
  state,         \* the broker: state of each order ...
  filled,        \* ... and the contracts it has bought, all still held
  phase,         \* which answer the startup awaits, "running" after it
  answer,        \* the position items it works on: contracts per instrument
  sweep,         \* which sweep of adopt_working_orders
  asked,         \* which of _ADOPTABLE_STATES it has asked for
  adopted,       \* the orders this sweep has adopted
  byInstrument,  \* PositionStore, positions reconciled: contracts, 0 if none
  byOrder,       \* PositionStore, positions of adopted orders
  orders,        \* OrderLifecycleManager._orders
  giving_up,     \* those adopted with cancelling and giving_up set
  empties,       \* position answers that came back empty by mistake
  raises,        \* position or instrument calls that failed
  misses,        \* sweep answers that failed or came back empty by mistake
  slipped        \* history: orders that were over before they were swept and
                 \* had bought more than the position answer said

book == <<state, filled>>
place == <<phase, answer, sweep, asked, adopted>>
memory == <<byInstrument, byOrder, orders, giving_up>>
failures == <<empties, raises, misses>>
vars == <<book, place, memory, failures, slipped>>

(* _ADOPTABLE_STATES, in the order of the sweep.                           *)
Adoptable == <<"queued", "confirmed", "partially_filled", "pending_cancelled">>
OrderState == {"queued", "confirmed", "partially_filled", "pending_cancelled",
               "filled", "cancelled"}
Live(o) == state[o] \notin {"filled", "cancelled"}
Contracts == [Orders -> 0..Quantity]
Nothing == [o \in Orders |-> 0]

TypeOK ==
  /\ state \in [Orders -> OrderState]
  /\ filled \in Contracts
  /\ phase \in {"positions", "again", "instruments", "sweep", "running"}
  /\ answer \in Contracts
  /\ sweep \in 1..2 /\ asked \in 1..4
  /\ adopted \subseteq Orders
  /\ byInstrument \in Contracts /\ byOrder \in Contracts
  /\ orders \subseteq Orders /\ giving_up \subseteq Orders
  /\ empties \in Nat /\ raises \in Nat /\ misses \in Nat
  /\ empties + raises + misses <= MaxFailures
  /\ slipped \subseteq Orders

(* Contracts an order can have bought in each of its states.               *)
Consistent(s, n) ==
  CASE s \in {"queued", "confirmed"} -> n = 0
    [] s = "partially_filled" -> n \in 1..(Quantity - 1)
    [] s = "filled" -> n = Quantity
    [] OTHER -> n < Quantity

Init ==
  /\ state \in [Orders -> OrderState] /\ filled \in Contracts
  /\ \A o \in Orders : Consistent(state[o], filled[o])
  /\ phase = "positions" /\ answer = Nothing
  /\ sweep = 1 /\ asked = 1 /\ adopted = {}
  /\ byInstrument = Nothing /\ byOrder = Nothing
  /\ orders = {} /\ giving_up = {}
  /\ empties = 0 /\ raises = 0 /\ misses = 0
  /\ slipped = {}

-----------------------------------------------------------------------------
(* The broker: an order only ever moves forward through these states.      *)
Book(o, s, n) ==
  /\ state' = [state EXCEPT ![o] = s]
  /\ filled' = [filled EXCEPT ![o] = n]
  /\ slipped' = IF /\ s \in {"filled", "cancelled"}
                   /\ phase \in {"again", "instruments", "sweep"}
                   /\ o \notin orders /\ n > answer[o]
                THEN slipped \union {o} ELSE slipped
  /\ UNCHANGED <<place, memory, failures>>

BrokerConfirm(o) == state[o] = "queued" /\ Book(o, "confirmed", filled[o])

BrokerFill(o) ==
  /\ Live(o)
  /\ LET n == filled[o] + 1 IN
       Book(o, IF n = Quantity THEN "filled"
               ELSE IF state[o] = "pending_cancelled" THEN "pending_cancelled"
               ELSE "partially_filled", n)

(* Somebody cancels the order in the broker's app.                         *)
CancelAsked(o) ==
  /\ Live(o) /\ state[o] # "pending_cancelled"
  /\ Book(o, "pending_cancelled", filled[o])

(* A cancel lands, or the order is rejected or expires.                    *)
BrokerEnd(o) == Live(o) /\ Book(o, "cancelled", filled[o])

Broker == \E o \in Orders :
            BrokerConfirm(o) \/ BrokerFill(o) \/ CancelAsked(o) \/ BrokerEnd(o)

-----------------------------------------------------------------------------
(* reconcile_positions.                                                    *)
CanFail == empties + raises + misses < MaxFailures

(* Mutation: an empty first answer is taken for the truth.                  *)
PositionsEmptyAccepted ==
  /\ phase \in {"positions", "again"}
  /\ phase' = "sweep"
  /\ UNCHANGED <<book, answer, sweep, asked, adopted, memory, slipped>>

(* No items: asked once more, then believed; with no instruments to look   *)
(* up the adoption begins at once.                                         *)
PositionsEmpty ==
  /\ phase \in {"positions", "again"}
  /\ phase' = IF phase = "positions" THEN "again" ELSE "sweep"
  /\ UNCHANGED <<book, answer, sweep, asked, adopted, memory, slipped>>

NoPositions ==
  /\ filled = Nothing
  /\ PositionsEmpty
  /\ UNCHANGED failures

PositionsMissed ==
  /\ filled # Nothing
  /\ PositionsEmpty
  /\ CanFail /\ empties' = empties + 1 /\ UNCHANGED <<raises, misses>>

PositionsAnswered ==
  /\ phase \in {"positions", "again"}
  /\ filled # Nothing
  /\ answer' = filled /\ slipped' = {}
  /\ phase' = "instruments"
  /\ UNCHANGED <<book, sweep, asked, adopted, memory, failures>>

(* The call raises: given up without the retry.                            *)
PositionsRaise ==
  /\ phase \in {"positions", "again"}
  /\ phase' = "sweep"
  /\ CanFail /\ raises' = raises + 1 /\ UNCHANGED <<empties, misses>>
  /\ UNCHANGED <<book, answer, sweep, asked, adopted, memory, slipped>>

(* The instruments give each item its strike and type; one position each.  *)
InstrumentsAnswered ==
  /\ phase = "instruments"
  /\ byInstrument' = answer
  /\ phase' = "sweep"
  /\ UNCHANGED <<book, answer, sweep, asked, adopted, byOrder, orders,
                 giving_up, failures, slipped>>

(* The lookup raises: {} is returned, and _to_position drops every item    *)
(* for want of a strike.                                                   *)
InstrumentsRaise ==
  /\ phase = "instruments"
  /\ phase' = "sweep"
  /\ CanFail /\ raises' = raises + 1 /\ UNCHANGED <<empties, misses>>
  /\ UNCHANGED <<book, answer, sweep, asked, adopted, memory, slipped>>

-----------------------------------------------------------------------------
(* adopt_working_orders.                                                   *)

(* Mutation: the loops start after the first sweep whatever it found.       *)
AdvanceOnce(found) ==
  /\ adopted' = found /\ sweep' = sweep
  /\ IF asked < 4 THEN asked' = asked + 1 /\ phase' = phase
                  ELSE asked' = asked /\ phase' = "running"

(* Mutation: one state too many is asked for.                               *)
AdvancePast(found) ==
  /\ adopted' = found
  /\ IF asked <= 4 THEN asked' = asked + 1 /\ UNCHANGED <<sweep, phase>>
     ELSE phase' = "running" /\ UNCHANGED <<asked, sweep>>

(* On to the next state; after the last one a sweep that adopted nothing   *)
(* is repeated once, and then the loops start.                             *)
Advance(found) ==
  /\ adopted' = found
  /\ IF asked < 4 THEN asked' = asked + 1 /\ UNCHANGED <<sweep, phase>>
     ELSE IF found = {} /\ sweep = 1 THEN asked' = 1 /\ sweep' = 2 /\ phase' = phase
     ELSE phase' = "running" /\ UNCHANGED <<asked, sweep>>

(* Mutation: the states are swept from the last to the first.               *)
NewlyListedBackwards == {o \in Orders \ orders : state[o] = Adoptable[5 - asked]}

NewlyListed == {o \in Orders \ orders : state[o] = Adoptable[asked]}

(* Mutation: every adopted order counts as one whose cancel is in flight.   *)
AdoptGivingUp(o) == giving_up' = giving_up \union o

(* Orders adopted as "pending_cancelled" are only watched to their end.    *)
AdoptAs(o) ==
  giving_up' = IF Adoptable[asked] = "pending_cancelled"
               THEN giving_up \union o ELSE giving_up

SweepAnswered ==
  /\ phase = "sweep"
  /\ orders' = orders \union NewlyListed
  /\ byOrder' = [o \in Orders |-> IF o \in NewlyListed /\ filled[o] > 0
                                  THEN filled[o] ELSE byOrder[o]]
  /\ AdoptAs(NewlyListed)
  /\ Advance(adopted \union NewlyListed)
  /\ UNCHANGED <<book, answer, byInstrument, failures, slipped>>

(* The call raises, or its answer has no orders: on to the next state.     *)
SweepMissed ==
  /\ phase = "sweep"
  /\ CanFail /\ misses' = misses + 1 /\ UNCHANGED <<empties, raises>>
  /\ Advance(adopted)
  /\ UNCHANGED <<book, answer, memory, slipped>>

-----------------------------------------------------------------------------
(* The manager's loop comes upon an adopted order that is over.            *)
Poll(o) ==
  /\ phase = "running" /\ o \in orders /\ ~Live(o)
  /\ orders' = orders \ {o}
  /\ byOrder' = IF filled[o] > 0 THEN [byOrder EXCEPT ![o] = filled[o]] ELSE byOrder
  /\ UNCHANGED <<book, place, byInstrument, giving_up, failures, slipped>>

(* The loops run and nothing from before the restart is left to settle.    *)
AllSettled == phase = "running" /\ \A o \in Orders : ~Live(o) /\ o \notin orders

Reconcile ==
  \/ NoPositions \/ PositionsMissed \/ PositionsAnswered \/ PositionsRaise
  \/ InstrumentsAnswered \/ InstrumentsRaise

Next ==
  \/ Broker
  \/ Reconcile
  \/ SweepAnswered \/ SweepMissed
  \/ \E o \in Orders : Poll(o)
  \/ AllSettled /\ UNCHANGED vars

Spec == Init /\ [][Next]_vars

-----------------------------------------------------------------------------
(* When every sweep was answered, every order that is live once the loops  *)
(* start is followed, although it changed its state between the answers:   *)
(* the sweep asks for the states in the order in which an order can pass   *)
(* through them.                                                           *)
LiveOrdersFollowed ==
  phase = "running" /\ misses = 0 => \A o \in Orders : Live(o) => o \in orders

(* One sweep answer that failed is made good when nothing was adopted: a   *)
(* startup that ends with no order adopted had none to adopt.              *)
ZeroIsTrue ==
  phase = "running" /\ misses <= 1 /\ adopted = {} => \A o \in Orders : ~Live(o)

(* What was bought is held by a position of exactly that many contracts,   *)
(* or the order is still followed -- one empty position answer makes no    *)
(* difference.  The one gap is that of an order which was filled or over   *)
(* after the positions were fetched (or found to be none) and before its   *)
(* state was asked for.                                                    *)
Monitored(o) ==
  filled[o] \in {0, byInstrument[o], byOrder[o]} \/ o \in orders

BoughtIsMonitored ==
  phase = "running" /\ misses = 0 /\ raises = 0 /\ empties <= 1 =>
    \A o \in Orders : Monitored(o) \/ o \in slipped

(* An order that is given up has a cancel pending: otherwise the manager   *)
(* would neither reprice it nor cancel it, and wait for ever.              *)
GivenUpIsCancelled ==
  \A o \in giving_up : state[o] \in {"pending_cancelled", "filled", "cancelled"}

(* run_live.py: live orders are adopted "so a fill after the restart still *)
(* becomes a monitored position".                                          *)
FillsBecomePositions ==
  phase = "running" /\ misses = 0 /\ raises = 0 /\ empties = 0 =>
    \A o \in Orders : Monitored(o)
=============================================================================
