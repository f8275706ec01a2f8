--------------------------- MODULE RestartProofs ---------------------------
(***************************************************************************)
(* Theorems about what a process has after a restart: its orders and       *)
(* positions (Startup) and its authorization (Tokens, whose definitions    *)
(* are named so that both modules can be extended).                        *)
(***************************************************************************)
EXTENDS Startup, Tokens, TLAPS

(***************************************************************************)
(* Theorems about Startup: for any orders, quantities and failures, the    *)
(* sweep follows every live order, a final zero is true, and what was      *)
(* bought is monitored but for the one gap that BoughtIsMonitored names.   *)
(*                                                                         *)
(* The argument: the states an order can pass through are ranked, ranks    *)
(* only grow, and the sweep asks for the ranks in ascending order; so an   *)
(* order whose rank the sweep has passed was there when it was asked for.  *)
(***************************************************************************)

Rank(s) ==
  IF s = "queued" THEN 1 ELSE IF s = "confirmed" THEN 2
  ELSE IF s = "partially_filled" THEN 3 ELSE IF s = "pending_cancelled" THEN 4 ELSE 5

R(o) == Rank(state[o])

LEMMA RankOf ==
  ASSUME NEW s \in OrderState
  PROVE  /\ Rank(s) \in 1..5
         /\ s \in {"filled", "cancelled"} <=> Rank(s) = 5
         /\ s \in {"pending_cancelled", "filled", "cancelled"} <=> Rank(s) >= 4
         /\ \A k \in 1..4 : s = Adoptable[k] <=> Rank(s) = k
         /\ \A k \in 1..4 : Adoptable[k] = "pending_cancelled" <=> k = 4
<1>1. /\ Adoptable[1] = "queued" /\ Adoptable[2] = "confirmed"
      /\ Adoptable[3] = "partially_filled" /\ Adoptable[4] = "pending_cancelled"
  BY DEF Adoptable
<1>2. \A k \in 1..4 : k = 1 \/ k = 2 \/ k = 3 \/ k = 4
  OBVIOUS
<1> QED
  BY <1>1, <1>2 DEF OrderState, Rank

LEMMA LiveRank == ASSUME TypeOK, NEW o \in Orders
                  PROVE  R(o) \in 1..5 /\ (Live(o) <=> R(o) < 5)
BY RankOf DEF TypeOK, R, Live

-----------------------------------------------------------------------------
(* A live order has not bought everything; the answer is never ahead.      *)
BookOK == \A o \in Orders : (Live(o) => filled[o] < Quantity) /\ answer[o] <= filled[o]

Early ==
  phase \in {"positions", "again", "instruments"} =>
    /\ sweep = 1 /\ asked = 1 /\ adopted = {} /\ orders = {} /\ byInstrument = Nothing
    /\ phase # "instruments" => answer = Nothing

Reconciled == phase \in {"sweep", "running"} /\ raises = 0 => byInstrument = answer

(* Whatever rank the sweep has passed is followed.                         *)
Passed(o) == phase = "running" \/ (phase = "sweep" /\ R(o) < asked)
Swept == misses = 0 => \A o \in Orders : R(o) < 5 /\ Passed(o) => o \in orders

GivenUp == \A o \in giving_up : R(o) >= 4

(* What a sweep that has adopted nothing says.                             *)
NoneLive == \A o \in Orders : R(o) = 5
Zero ==
  /\ phase # "running" /\ adopted = {} => orders = {}
  /\ phase = "running" /\ sweep = 1 => adopted # {}
  /\ phase = "sweep" /\ sweep = 2 /\ adopted = {} =>
       /\ misses = 0 => NoneLive
       /\ misses = 1 => NoneLive \/ \A o \in Orders : R(o) >= asked
  /\ phase = "running" /\ adopted = {} /\ misses <= 1 => NoneLive

(* An order that is over is accounted for, as far as the phase has come.   *)
Kept(o) ==
  CASE phase = "positions" -> TRUE
    [] phase = "again" -> filled[o] = 0 \/ o \in slipped \/ empties = 1
    [] phase = "instruments" -> filled[o] \in {0, answer[o]} \/ o \in slipped
    [] OTHER -> Monitored(o) \/ o \in slipped

Accounted ==
  misses = 0 /\ raises = 0 /\ empties <= 1 => \A o \in Orders : R(o) = 5 => Kept(o)

IInv ==
  TypeOK /\ BookOK /\ Early /\ Reconciled /\ Swept /\ GivenUp /\ Zero /\ Accounted

LEMMA InitInv == Init => IInv
<1> SUFFICES ASSUME Init PROVE IInv
  OBVIOUS
<1>0. 0 \in 0..Quantity /\ Nothing \in Contracts
  BY StartupAssumption DEF Nothing, Contracts
<1>1. TypeOK
  BY <1>0, StartupAssumption DEF Init, TypeOK
<1>2. BookOK
  <2> SUFFICES ASSUME NEW o \in Orders
               PROVE  (Live(o) => filled[o] < Quantity) /\ answer[o] <= filled[o]
    BY DEF BookOK
  <2>1. filled[o] \in 0..Quantity /\ state[o] \in OrderState /\ Consistent(state[o], filled[o])
    BY DEF Init, Contracts
  <2>2. answer[o] = 0
    BY DEF Init, Nothing
  <2>3. Live(o) => filled[o] < Quantity
    BY <2>1, StartupAssumption DEF Live, OrderState, Consistent
  <2> QED
    BY <2>1, <2>2, <2>3
<1>3. Early /\ Reconciled /\ Swept /\ GivenUp /\ Zero
  BY DEF Init, Early, Reconciled, Swept, Passed, GivenUp, Zero
<1>4. Accounted
  BY DEF Init, Accounted, Kept
<1> QED
  BY <1>1, <1>2, <1>3, <1>4 DEF IInv

-----------------------------------------------------------------------------
(* A step of the broker: one order moves to a state of no lower rank.      *)
LEMMA BookStep ==
  ASSUME IInv, NEW o \in Orders, Live(o),
         NEW s \in OrderState, NEW n \in 0..Quantity, Book(o, s, n),
         n >= filled[o], Rank(s) >= R(o),
         s \notin {"filled", "cancelled"} => n < Quantity
  PROVE  IInv'
<1> USE DEF book, place, memory, failures
<1>0. TypeOK
  BY DEF IInv
<1>1. TypeOK'
  BY <1>0 DEF TypeOK, Book, Contracts
<1>2. /\ state'[o] = s /\ filled'[o] = n /\ R(o)' = Rank(s)
      /\ \A p \in Orders : p # o => state'[p] = state[p] /\ filled'[p] = filled[p]
  BY <1>0 DEF TypeOK, Book, Contracts, R
<1>3. \A p \in Orders : p # o => R(p)' = R(p) /\ Live(p)' = Live(p)
  BY <1>2 DEF R, Live
<1>4. \A p \in Orders : R(p) \in 1..5 /\ R(p)' \in 1..5 /\ R(p)' >= R(p)
  BY <1>0, <1>1, <1>2, <1>3, LiveRank, RankOf
<1>5. \A p \in Orders : filled[p] \in 0..Quantity /\ answer[p] \in 0..Quantity
  BY <1>0 DEF TypeOK, Contracts
<1>6. UNCHANGED <<place, memory, failures>>
  BY DEF Book
<1>7. BookOK'
  <2>1. Live(o)' <=> s \notin {"filled", "cancelled"}
    BY <1>2 DEF Live
  <2> SUFFICES ASSUME NEW p \in Orders
               PROVE  (Live(p)' => filled'[p] < Quantity) /\ answer'[p] <= filled'[p]
    BY DEF BookOK
  <2>2. (Live(p) => filled[p] < Quantity) /\ answer[p] <= filled[p] /\ answer' = answer
    BY <1>6 DEF IInv, BookOK
  <2>3. CASE p = o
    BY <1>2, <1>5, <2>1, <2>2, <2>3
  <2>4. CASE p # o
    BY <1>2, <1>3, <2>2, <2>4
  <2> QED
    BY <2>3, <2>4
<1>8. Early' /\ Reconciled'
  BY <1>6 DEF IInv, Early, Reconciled, Nothing
<1>9. Swept'
  BY <1>0, <1>4, <1>6 DEF IInv, TypeOK, Swept, Passed
<1>10. GivenUp'
  BY <1>0, <1>4, <1>6 DEF IInv, TypeOK, GivenUp
<1>11. Zero'
  <2>1. NoneLive => NoneLive'
    BY <1>4 DEF NoneLive
  <2>2. (\A p \in Orders : R(p) >= asked) => \A p \in Orders : R(p)' >= asked'
    BY <1>0, <1>4, <1>6 DEF TypeOK
  <2> QED
    BY <1>6, <2>1, <2>2 DEF IInv, Zero
<1>12. Accounted'
  <2> SUFFICES ASSUME misses = 0, raises = 0, empties <= 1,
                      NEW p \in Orders, R(p)' = 5
               PROVE  Kept(p)'
    BY <1>6 DEF Accounted
  <2>1. slipped \subseteq slipped'
    BY DEF Book
  <2>2. CASE p # o
    <3>1. R(p) = 5
      BY <1>3, <2>2
    <3>2. Kept(p)
      BY <3>1 DEF IInv, Accounted
    <3> QED
      BY <1>2, <1>6, <2>1, <2>2, <3>2 DEF Kept, Monitored
  <2>3. CASE p = o
    <3>1. s \in {"filled", "cancelled"}
      BY <1>2, <2>3, RankOf
    <3>2. CASE phase \in {"instruments", "sweep"} /\ o \notin orders /\ n > answer[o]
      BY <1>6, <2>3, <3>1, <3>2 DEF Book, Kept
    <3>3. CASE phase \in {"instruments", "sweep"} /\ o \notin orders /\ ~(n > answer[o])
      <4>1. n = answer[o]
        BY <1>5, <3>3 DEF IInv, BookOK
      <4>2. CASE phase = "instruments"
        BY <1>2, <1>6, <2>3, <4>1, <4>2 DEF Kept
      <4>3. CASE phase = "sweep"
        BY <1>2, <1>6, <2>3, <4>1, <4>3 DEF IInv, Reconciled, Kept, Monitored
      <4> QED
        BY <3>3, <4>2, <4>3
    <3>4. CASE phase = "sweep" /\ o \in orders
      BY <1>6, <2>3, <3>4 DEF Kept, Monitored
    <3>5. CASE phase = "running"
      <4>1. o \in orders
        BY <1>0, <3>5, LiveRank DEF IInv, Swept, Passed
      <4> QED
        BY <1>6, <2>3, <3>5, <4>1 DEF Kept, Monitored
    <3>6. CASE phase = "positions"
      BY <1>6, <3>6 DEF Kept
    <3>7. CASE phase = "again"
      <4>1. answer[o] = 0 /\ orders = {}
        BY <3>7 DEF IInv, Early, Nothing
      <4>2. n = 0 \/ n > answer[o]
        BY <4>1
      <4>3. n = 0 \/ o \in slipped'
        BY <3>1, <3>7, <4>1, <4>2 DEF Book
      <4> QED
        BY <1>2, <1>6, <2>3, <3>7, <4>3 DEF Kept
    <3>8. orders = {} \/ phase # "instruments"
      BY DEF IInv, Early
    <3> QED
      BY <1>0, <3>2, <3>3, <3>4, <3>5, <3>6, <3>7, <3>8 DEF TypeOK
  <2> QED
    BY <2>2, <2>3
<1> QED
  BY <1>1, <1>7, <1>8, <1>9, <1>10, <1>11, <1>12 DEF IInv

LEMMA BrokerStep == ASSUME IInv, Broker PROVE IInv'
<1>0. TypeOK /\ BookOK
  BY DEF IInv
<1> PICK o \in Orders : BrokerConfirm(o) \/ BrokerFill(o) \/ CancelAsked(o) \/ BrokerEnd(o)
  BY DEF Broker
<1>1. state[o] \in OrderState /\ filled[o] \in 0..Quantity /\ R(o) \in 1..5
  BY <1>0, LiveRank DEF TypeOK, Contracts
<1>2. /\ \A s \in {"confirmed", "partially_filled", "pending_cancelled",
                   "filled", "cancelled"} : s \in OrderState
      /\ Rank("confirmed") = 2 /\ Rank("partially_filled") = 3
      /\ Rank("pending_cancelled") = 4 /\ Rank("filled") = 5 /\ Rank("cancelled") = 5
  BY DEF OrderState, Rank
<1>3. CASE BrokerConfirm(o)
  <2>1. Live(o) /\ Book(o, "confirmed", filled[o]) /\ R(o) = 1
    BY <1>3 DEF BrokerConfirm, Live, R, Rank
  <2>2. filled[o] < Quantity
    BY <1>0, <2>1 DEF BookOK
  <2> QED
    BY <1>1, <1>2, <2>1, <2>2, BookStep
<1>4. CASE BrokerFill(o)
  <2> DEFINE n == filled[o] + 1
             s == IF n = Quantity THEN "filled"
                  ELSE IF state[o] = "pending_cancelled" THEN "pending_cancelled"
                  ELSE "partially_filled"
  <2>1. Live(o) /\ Book(o, s, n)
    BY <1>4 DEF BrokerFill
  <2>2. filled[o] < Quantity
    BY <1>0, <2>1 DEF BookOK
  <2>3. n \in 0..Quantity /\ n >= filled[o]
    BY <1>1, <2>2, StartupAssumption
  <2>4. s \in OrderState
    BY <1>2
  <2>5. Rank(s) >= R(o)
    BY <1>1, <1>2, <2>1 DEF Live, R, Rank, OrderState
  <2>6. s \notin {"filled", "cancelled"} => n < Quantity
    BY <1>1, <2>3, StartupAssumption
  <2> HIDE DEF n, s
  <2> QED
    BY <2>1, <2>3, <2>4, <2>5, <2>6, BookStep
<1>5. CASE CancelAsked(o)
  <2>1. Live(o) /\ Book(o, "pending_cancelled", filled[o])
    BY <1>5 DEF CancelAsked
  <2>2. filled[o] < Quantity /\ R(o) <= 4
    BY <1>0, <1>1, <2>1, LiveRank DEF BookOK
  <2> QED
    BY <1>1, <1>2, <2>1, <2>2, BookStep
<1>6. CASE BrokerEnd(o)
  <2>1. Live(o) /\ Book(o, "cancelled", filled[o])
    BY <1>6 DEF BrokerEnd
  <2> QED
    BY <1>1, <1>2, <2>1, BookStep
<1> QED
  BY <1>3, <1>4, <1>5, <1>6

-----------------------------------------------------------------------------
(* The steps of reconcile_positions: no order and no position changes      *)
(* before the instruments are there.                                       *)
LEMMA ReconcileStep == ASSUME IInv, Reconcile PROVE IInv'
<1> USE DEF book, place, memory, failures
<1>0. TypeOK /\ phase \in {"positions", "again", "instruments"}
  BY DEF IInv, Reconcile, NoPositions, PositionsMissed, PositionsEmpty,
         PositionsAnswered, PositionsRaise, InstrumentsAnswered, InstrumentsRaise
<1>1. /\ sweep = 1 /\ asked = 1 /\ adopted = {} /\ orders = {} /\ byInstrument = Nothing
      /\ phase # "instruments" => answer = Nothing
  BY <1>0 DEF IInv, Early
<1>2. UNCHANGED <<book, sweep, asked, adopted, byOrder, orders, giving_up, misses>>
  BY DEF Reconcile, NoPositions, PositionsMissed, PositionsEmpty, PositionsAnswered,
         PositionsRaise, InstrumentsAnswered, InstrumentsRaise
<1>3. phase' \in {"again", "instruments", "sweep"}
  BY DEF Reconcile, NoPositions, PositionsMissed, PositionsEmpty, PositionsAnswered,
         PositionsRaise, InstrumentsAnswered, InstrumentsRaise
<1>4. /\ answer' = answer \/ (answer' = filled /\ phase' = "instruments")
      /\ answer' \in Contracts
  BY <1>0 DEF TypeOK, Reconcile, NoPositions, PositionsMissed, PositionsEmpty,
         PositionsAnswered, PositionsRaise, InstrumentsAnswered, InstrumentsRaise
<1>5. TypeOK'
  <2>1. /\ empties' \in Nat /\ raises' \in Nat /\ misses' \in Nat
        /\ empties' + raises' + misses' <= MaxFailures
    BY <1>0, StartupAssumption
    DEF TypeOK, CanFail, Reconcile, NoPositions, PositionsMissed, PositionsEmpty,
        PositionsAnswered, PositionsRaise, InstrumentsAnswered, InstrumentsRaise
  <2>2. byInstrument' \in Contracts /\ slipped' \subseteq Orders
    BY <1>0 DEF TypeOK, Reconcile, NoPositions, PositionsMissed, PositionsEmpty,
        PositionsAnswered, PositionsRaise, InstrumentsAnswered, InstrumentsRaise
  <2> QED
    BY <1>0, <1>2, <1>3, <1>4, <2>1, <2>2 DEF TypeOK
<1>6. BookOK'
  <2>1. \A o \in Orders : Live(o)' = Live(o) /\ filled' = filled
    BY <1>2 DEF Live
  <2>2. \A o \in Orders : answer'[o] <= filled[o]
    <3>1. \A o \in Orders : filled[o] <= filled[o]
      BY <1>0 DEF TypeOK, Contracts
    <3> QED
      BY <1>4, <3>1 DEF IInv, BookOK
  <2> QED
    BY <2>1, <2>2 DEF IInv, BookOK
<1>7. Early'
  BY <1>1, <1>2, <1>3 DEF Early, Reconcile, NoPositions, PositionsMissed,
     PositionsEmpty, PositionsAnswered, PositionsRaise, InstrumentsAnswered,
     InstrumentsRaise, Nothing
<1>8. Reconciled'
  <2> SUFFICES ASSUME phase' = "sweep", raises' = 0 PROVE byInstrument' = answer'
    BY <1>3 DEF Reconciled
  <2>1. ~PositionsRaise /\ ~InstrumentsRaise
    BY <1>0 DEF TypeOK, PositionsRaise, InstrumentsRaise
  <2> QED
    BY <1>1, <2>1 DEF Reconcile, NoPositions, PositionsMissed, PositionsEmpty,
       PositionsAnswered, InstrumentsAnswered
<1>9. \A o \in Orders : R(o)' = R(o) /\ R(o) \in 1..5
  BY <1>0, <1>2, LiveRank DEF R
<1>10. Swept' /\ GivenUp' /\ Zero'
  BY <1>0, <1>1, <1>2, <1>3, <1>9 DEF IInv, TypeOK, Swept, Passed, GivenUp, Zero
<1>11. Accounted'
  <2> SUFFICES ASSUME misses' = 0, raises' = 0, empties' <= 1, NEW o \in Orders, R(o)' = 5
               PROVE  Kept(o)'
    BY DEF Accounted
  <2>1. ~PositionsRaise /\ ~InstrumentsRaise
    BY <1>0 DEF TypeOK, PositionsRaise, InstrumentsRaise
  <2>2. raises = 0 /\ misses = 0 /\ empties <= 1 /\ R(o) = 5
    BY <1>0, <1>2, <1>9, <2>1
    DEF TypeOK, Reconcile, NoPositions, PositionsMissed, PositionsEmpty,
        PositionsAnswered, InstrumentsAnswered
  <2>3. Kept(o)
    BY <2>2 DEF IInv, Accounted
  <2>4. CASE NoPositions
    <3>1. filled'[o] = 0
      BY <1>2, <2>4 DEF NoPositions, Nothing
    <3> QED
      BY <1>3, <2>4, <3>1 DEF NoPositions, PositionsEmpty, Kept, Monitored
  <2>5. CASE PositionsMissed
    <3>1. empties = 0 /\ empties' = 1
      BY <1>0, <2>5 DEF TypeOK, PositionsMissed
    <3>2. CASE phase = "positions"
      BY <2>5, <3>1, <3>2 DEF PositionsMissed, PositionsEmpty, Kept
    <3>3. CASE phase = "again"
      BY <2>3, <2>5, <3>1, <3>3 DEF PositionsMissed, PositionsEmpty, Kept, Monitored
    <3> QED
      BY <2>5, <3>2, <3>3 DEF PositionsMissed, PositionsEmpty
  <2>6. CASE PositionsAnswered
    BY <1>2, <2>6 DEF PositionsAnswered, Kept
  <2>7. CASE InstrumentsAnswered
    BY <1>2, <2>3, <2>7 DEF InstrumentsAnswered, Kept, Monitored
  <2> QED
    BY <2>1, <2>4, <2>5, <2>6, <2>7 DEF Reconcile
<1> QED
  BY <1>5, <1>6, <1>7, <1>8, <1>10, <1>11 DEF IInv

-----------------------------------------------------------------------------
(* Sweeping: what Advance does, and that no order changes.                 *)
LEMMA AdvanceTypes ==
  ASSUME TypeOK, phase = "sweep", NEW found \in SUBSET Orders, Advance(found)
  PROVE  /\ sweep' \in 1..2 /\ asked' \in 1..4 /\ phase' \in {"sweep", "running"}
         /\ adopted' = found
         /\ phase' = "running" => asked = 4 /\ (found # {} \/ sweep = 2) /\ sweep' = sweep
         /\ phase' = "sweep" => \/ asked' = asked + 1 /\ sweep' = sweep
                                \/ asked' = 1 /\ sweep' = 2 /\ sweep = 1 /\ found = {}
                                   /\ asked = 4
BY DEF TypeOK, Advance

LEMMA SweepMissedStep == ASSUME IInv, SweepMissed PROVE IInv'
<1> USE DEF book, place, memory, failures
<1>0. TypeOK /\ phase = "sweep" /\ adopted \in SUBSET Orders /\ Advance(adopted)
  BY DEF IInv, TypeOK, SweepMissed
<1>1. UNCHANGED <<book, answer, memory, slipped, empties, raises>> /\ misses' = misses + 1
  BY DEF SweepMissed
<1>2. TypeOK'
  <2>1. /\ empties' \in Nat /\ raises' \in Nat /\ misses' \in Nat
        /\ empties' + raises' + misses' <= MaxFailures
    BY <1>0, <1>1, StartupAssumption DEF TypeOK, SweepMissed, CanFail
  <2>2. sweep' \in 1..2 /\ asked' \in 1..4 /\ phase' \in {"sweep", "running"} /\ adopted' = adopted
    BY <1>0, AdvanceTypes
  <2> QED
    BY <1>0, <1>1, <2>1, <2>2 DEF TypeOK
<1>3. \A o \in Orders : R(o)' = R(o) /\ R(o) \in 1..5 /\ Live(o)' = Live(o)
  BY <1>0, <1>1, LiveRank DEF R, Live
<1>4. BookOK' /\ GivenUp'
  BY <1>1, <1>3 DEF IInv, BookOK, GivenUp, TypeOK
<1>5. Early' /\ Reconciled'
  BY <1>0, <1>1, AdvanceTypes DEF IInv, Early, Reconciled
<1>6. Swept' /\ Accounted'
  BY <1>0, <1>1 DEF TypeOK, Swept, Accounted
<1>7. Zero'
  <2>1. adopted' = {} => orders' = {}
    BY <1>0, <1>1, AdvanceTypes DEF IInv, Zero
  <2>2. phase' = "running" /\ sweep' = 1 => adopted' # {}
    BY <1>0, AdvanceTypes
  <2>3. NoneLive => NoneLive'
    BY <1>3 DEF NoneLive
  <2>4. sweep = 2 /\ adopted = {} /\ misses = 0 => NoneLive
    BY <1>0 DEF IInv, Zero
  <2>5. misses' # 0 /\ (misses' <= 1 => misses = 0)
    BY <1>0, <1>1 DEF TypeOK
  <2>6. phase' = "sweep" /\ sweep' = 2 /\ adopted' = {} /\ misses' = 1 =>
          NoneLive' \/ \A o \in Orders : R(o)' >= asked'
    <3> SUFFICES ASSUME phase' = "sweep", sweep' = 2, adopted' = {}, misses' = 1
                 PROVE  NoneLive' \/ \A o \in Orders : R(o)' >= asked'
      OBVIOUS
    <3>1. CASE sweep = 2
      BY <1>0, <2>3, <2>4, <2>5, <3>1, AdvanceTypes
    <3>2. CASE sweep # 2
      BY <1>0, <1>3, <3>2, AdvanceTypes
    <3> QED
      BY <3>1, <3>2
  <2>7. phase' = "running" /\ adopted' = {} /\ misses' <= 1 => NoneLive'
    BY <1>0, <2>3, <2>4, <2>5, AdvanceTypes
  <2> QED
    BY <2>1, <2>2, <2>5, <2>6, <2>7 DEF Zero
<1> QED
  BY <1>2, <1>4, <1>5, <1>6, <1>7 DEF IInv

LEMMA SweepAnsweredStep == ASSUME IInv, SweepAnswered PROVE IInv'
<1> USE DEF book, place, memory, failures
<1> DEFINE found == adopted \union NewlyListed
<1>0. /\ TypeOK /\ phase = "sweep" /\ NewlyListed \subseteq Orders \ orders
      /\ found \in SUBSET Orders /\ Advance(found)
  BY DEF IInv, TypeOK, SweepAnswered, NewlyListed
<1>1. /\ UNCHANGED <<book, answer, byInstrument, failures, slipped>>
      /\ orders' = orders \union NewlyListed
      /\ AdoptAs(NewlyListed)
  BY DEF SweepAnswered
<1>a. \A o \in Orders :
        byOrder'[o] = IF o \in NewlyListed /\ filled[o] > 0 THEN filled[o] ELSE byOrder[o]
  BY DEF SweepAnswered
<1>2. \A o \in Orders : R(o)' = R(o) /\ R(o) \in 1..5 /\ Live(o)' = Live(o)
  BY <1>0, <1>1, LiveRank DEF R, Live
<1>3. \A o \in Orders : o \in NewlyListed <=> o \notin orders /\ R(o) = asked
  BY <1>0, RankOf DEF TypeOK, NewlyListed, R
<1> HIDE DEF found
<1>b. adopted' = found /\ (found = {} <=> adopted = {} /\ NewlyListed = {})
  BY <1>0, AdvanceTypes DEF found
<1>4. TypeOK'
  <2>1. byOrder' \in Contracts
    BY <1>0 DEF TypeOK, Contracts, SweepAnswered
  <2>2. giving_up' \subseteq Orders /\ orders' \subseteq Orders
    BY <1>0, <1>1 DEF TypeOK, AdoptAs
  <2> QED
    BY <1>0, <1>1, <2>1, <2>2, AdvanceTypes DEF TypeOK
<1>5. BookOK'
  BY <1>1, <1>2 DEF IInv, BookOK
<1>6. GivenUp'
  <2>1. Adoptable[asked] = "pending_cancelled" => asked = 4
    <3>1. "queued" \in OrderState /\ asked \in 1..4
      BY <1>0 DEF TypeOK, OrderState
    <3> QED
      BY <3>1, RankOf
  <2>2. \A o \in giving_up' : o \in giving_up \/ (o \in NewlyListed /\ asked = 4)
    BY <1>1, <2>1 DEF AdoptAs
  <2>3. \A o \in giving_up : o \in Orders /\ R(o) >= 4
    BY <1>0 DEF IInv, GivenUp, TypeOK
  <2>4. \A o \in giving_up' : o \in Orders /\ R(o) >= 4
    BY <1>0, <1>3, <2>2, <2>3
  <2> QED
    BY <1>2, <2>4 DEF GivenUp
<1>7. Early' /\ Reconciled'
  BY <1>0, <1>1, AdvanceTypes DEF IInv, Early, Reconciled
<1>c. misses = 0 => \A o \in Orders : R(o) < asked + 1 /\ R(o) < 5 => o \in orders'
  BY <1>0, <1>1, <1>2, <1>3 DEF IInv, TypeOK, Swept, Passed
<1>8. Swept'
  <2> SUFFICES ASSUME misses = 0, NEW o \in Orders, R(o) < 5, Passed(o)'
               PROVE  o \in orders'
    BY <1>1, <1>2 DEF Swept
  <2>1. asked \in 1..4
    BY <1>0 DEF TypeOK
  <2>2. CASE phase' = "running"
    BY <1>0, <1>2, <1>c, <2>1, <2>2, AdvanceTypes
  <2>3. CASE phase' = "sweep" /\ asked' = 1
    BY <1>2, <2>3 DEF Passed
  <2>4. CASE phase' = "sweep" /\ asked' = asked + 1
    BY <1>2, <1>c, <2>1, <2>4 DEF Passed
  <2> QED
    BY <1>0, <2>2, <2>3, <2>4, AdvanceTypes
<1>9. Zero'
  <2>1. adopted' = {} => adopted = {} /\ orders = {} /\ orders' = {} /\ NewlyListed = {}
    BY <1>0, <1>1, <1>b DEF IInv, Zero
  <2>2. phase' = "running" /\ sweep' = 1 => adopted' # {}
    BY <1>0, <1>b, AdvanceTypes
  <2>3. NoneLive => NoneLive'
    BY <1>2 DEF NoneLive
  <2>4. adopted' = {} /\ (\A o \in Orders : R(o) >= asked) =>
          \A o \in Orders : R(o) >= asked + 1
    BY <1>0, <1>2, <1>3, <2>1 DEF TypeOK
  <2>5. adopted' = {} /\ sweep = 2 /\ misses <= 1 =>
          NoneLive \/ (misses = 1 /\ \A o \in Orders : R(o) >= asked + 1)
    BY <1>0, <2>1, <2>4 DEF IInv, Zero, TypeOK
  <2>6. phase' = "running" /\ adopted' = {} /\ misses' <= 1 => NoneLive'
    <3> SUFFICES ASSUME phase' = "running", adopted' = {}, misses' <= 1 PROVE NoneLive
      BY <2>3
    <3>1. asked = 4 /\ sweep = 2
      BY <1>0, <1>b, AdvanceTypes
    <3> QED
      BY <1>1, <1>2, <2>5, <3>1 DEF NoneLive
  <2>7. phase' = "sweep" /\ sweep' = 2 /\ adopted' = {} =>
          /\ misses' = 0 => NoneLive'
          /\ misses' = 1 => NoneLive' \/ \A o \in Orders : R(o)' >= asked'
    <3> SUFFICES ASSUME phase' = "sweep", sweep' = 2, adopted' = {}
                 PROVE  /\ misses = 0 => NoneLive'
                        /\ misses = 1 => NoneLive' \/ \A o \in Orders : R(o)' >= asked'
      BY <1>1
    <3>1. CASE sweep = 2
      <4>1. asked' = asked + 1
        BY <1>0, <3>1, AdvanceTypes
      <4> QED
        BY <1>2, <2>3, <2>5, <3>1, <4>1
    <3>2. CASE sweep # 2
      <4>1. asked' = 1 /\ asked = 4
        BY <1>0, <3>2, AdvanceTypes
      <4>2. misses = 0 => NoneLive
        BY <1>2, <1>c, <2>1, <4>1 DEF NoneLive
      <4> QED
        BY <1>2, <2>3, <4>1, <4>2
    <3> QED
      BY <3>1, <3>2
  <2> QED
    BY <2>1, <2>2, <2>6, <2>7 DEF Zero
<1>10. Accounted'
  <2> SUFFICES ASSUME misses = 0, raises = 0, empties <= 1, NEW o \in Orders, R(o) = 5
               PROVE  Kept(o)'
    BY <1>1, <1>2 DEF Accounted
  <2>1. Monitored(o) \/ o \in slipped
    BY <1>0 DEF IInv, Accounted, Kept
  <2>2. byOrder'[o] = byOrder[o]
    BY <1>0, <1>3, <1>a DEF TypeOK
  <2>3. Monitored(o) => Monitored(o)'
    BY <1>1, <2>2 DEF Monitored
  <2> QED
    BY <1>0, <1>1, <2>1, <2>3, AdvanceTypes DEF Kept
<1> QED
  BY <1>4, <1>5, <1>6, <1>7, <1>8, <1>9, <1>10 DEF IInv

LEMMA PollStep == ASSUME IInv, NEW o \in Orders, Poll(o) PROVE IInv'
<1> USE DEF book, place, memory, failures
<1>0. /\ TypeOK /\ phase = "running" /\ o \in orders /\ R(o) = 5
      /\ orders' = orders \ {o}
      /\ UNCHANGED <<book, place, byInstrument, giving_up, failures, slipped>>
  BY LiveRank DEF IInv, Poll
<1>1. /\ byOrder' \in Contracts
      /\ \A p \in Orders : p # o => byOrder'[p] = byOrder[p]
      /\ filled[o] # 0 => byOrder'[o] = filled[o]
  BY <1>0 DEF TypeOK, Poll, Contracts
<1>2. \A p \in Orders : R(p)' = R(p) /\ R(p) \in 1..5 /\ Live(p)' = Live(p)
  BY <1>0, LiveRank DEF R, Live
<1>3. TypeOK' /\ BookOK' /\ Early' /\ Reconciled'
  BY <1>0, <1>1, <1>2 DEF IInv, TypeOK, BookOK, Early, Reconciled
<1>4. Swept' /\ GivenUp' /\ Zero'
  BY <1>0, <1>2 DEF IInv, Swept, Passed, GivenUp, Zero, NoneLive, TypeOK
<1>5. Accounted'
  BY <1>0, <1>1, <1>2 DEF IInv, Accounted, Kept, Monitored
<1> QED
  BY <1>3, <1>4, <1>5 DEF IInv

LEMMA NextInv == ASSUME IInv, [Next]_vars PROVE IInv'
<1>1. CASE UNCHANGED vars
  BY <1>1 DEF vars, book, place, memory, failures, IInv, TypeOK, BookOK, Live, Early,
     Reconciled, Swept, Passed, R, GivenUp, Zero, NoneLive, Accounted, Kept, Monitored
<1> QED
  BY <1>1, BrokerStep, ReconcileStep, SweepAnsweredStep, SweepMissedStep, PollStep
  DEF Next, AllSettled

(* IInv holds in every state of every behaviour of the startup.            *)
THEOREM Invariance == Spec => []IInv
BY InitInv, NextInv, PTL DEF Spec

(* Type correctness for any orders, quantity and number of failures.       *)
THEOREM TypeCorrect == Spec => []TypeOK
<1>1. IInv => TypeOK
  BY DEF IInv
<1> QED
  BY <1>1, Invariance, PTL

(* Whatever the orders do between the answers, every order that is live    *)
(* when the loops start is followed, if every sweep was answered.          *)
THEOREM SweepIsComplete == Spec => []LiveOrdersFollowed
<1>1. IInv => LiveOrdersFollowed
  BY LiveRank DEF IInv, Swept, Passed, LiveOrdersFollowed
<1> QED
  BY <1>1, Invariance, PTL

(* The repetition of a sweep that adopted nothing makes one failed answer  *)
(* good: no live order is overlooked by a startup that adopts none.        *)
THEOREM FinalZeroIsTrue == Spec => []ZeroIsTrue
<1>1. IInv => ZeroIsTrue
  <2> SUFFICES ASSUME IInv, phase = "running", misses <= 1, adopted = {},
                      NEW o \in Orders
               PROVE  ~Live(o)
    BY DEF ZeroIsTrue
  <2>1. R(o) = 5
    BY DEF IInv, Zero, NoneLive
  <2> QED
    BY <2>1, LiveRank DEF IInv
<1> QED
  BY <1>1, Invariance, PTL

(* Every contract bought is monitored or its order followed, but for the   *)
(* orders that were over between the two halves of the startup.            *)
THEOREM NothingElseSlips == Spec => []BoughtIsMonitored
<1>1. IInv => BoughtIsMonitored
  <2> SUFFICES ASSUME IInv, phase = "running", misses = 0, raises = 0, empties <= 1,
                      NEW o \in Orders
               PROVE  Monitored(o) \/ o \in slipped
    BY DEF BoughtIsMonitored
  <2>1. CASE R(o) = 5
    BY <2>1 DEF IInv, Accounted, Kept
  <2>2. CASE R(o) # 5
    BY <2>2, LiveRank DEF IInv, Swept, Passed, Monitored
  <2> QED
    BY <2>1, <2>2
<1> QED
  BY <1>1, Invariance, PTL

(* No adopted order is waited for without a cancel that is pending.        *)
THEOREM NoneStranded == Spec => []GivenUpIsCancelled
<1>1. IInv => GivenUpIsCancelled
  BY RankOf DEF IInv, TypeOK, GivenUp, R, GivenUpIsCancelled
<1> QED
  BY <1>1, Invariance, PTL

-----------------------------------------------------------------------------
(***************************************************************************)
(* Theorems about Tokens: however many coroutines refresh at once, and     *)
(* whatever fails, the valid refresh token stays where the next refresh    *)
(* finds it, unless a fault has cut off the answer that brought it.        *)
(*                                                                         *)
(* The argument: while an answer is on its way, the token it replaces is   *)
(* the only one that anybody can read or has posted, and that one buys     *)
(* nothing any more; so no second answer can overtake the first.           *)
(***************************************************************************)

Flight(c) == pc[c] = "answered" /\ reply[c] # NoToken

(* Tokens are numbered as they are issued, and one coroutine starts.       *)
Numbered ==
  /\ refresh <= access /\ file <= access /\ env <= access
  /\ rotates => refresh = access
  /\ \A c \in Coroutines : used[c] <= access /\ reply[c] <= access

Starting ==
  /\ up => tools \in Tokens
  /\ ~up => \A c, d \in Coroutines : pc[c] # "idle" /\ pc[d] # "idle" => c = d

Current == \A c \in Coroutines : Flight(c) => reply[c] = refresh

(* As long as the server has a new number to give to a rotated token.      *)
Rotating == rotates /\ access < MaxIssued

Unread(c) ==
  Flight(c) /\ Rotating =>
    /\ TokenToUse # refresh
    /\ \A d \in Coroutines : pc[d] = "posting" => used[d] # refresh
    /\ \A d \in Coroutines : Flight(d) => c = d

Safe == ~harmed => Usable /\ Current /\ \A c \in Coroutines : Unread(c)

TokensInv == TokensTypeOK /\ Numbered /\ Starting /\ Safe

LEMMA TokensInvInit == TokensInit => TokensInv
<1> SUFFICES ASSUME TokensInit PROVE TokensInv
  OBVIOUS
<1>1. 0 \in Tokens /\ 0 \in 0..MaxFaults
  BY TokensAssumption DEF Tokens
<1>2. TokensTypeOK
  <2>1. access \in Tokens /\ refresh \in Tokens /\ env \in Tokens /\ faults \in 0..MaxFaults
    BY <1>1 DEF TokensInit
  <2>2. rotates \in BOOLEAN /\ up \in BOOLEAN /\ harmed \in BOOLEAN
    BY DEF TokensInit
  <2>3. /\ expired \in Tokens \union {NoToken} /\ file \in Tokens \union {NoToken}
        /\ tools \in Tokens \union {NoToken}
    BY DEF TokensInit
  <2>4. /\ bearer \in [Coroutines -> Tokens] /\ used \in [Coroutines -> Tokens]
        /\ reply \in [Coroutines -> Tokens \union {NoToken}]
    BY <1>1 DEF TokensInit
  <2>5. pc \in [Coroutines -> {"idle", "calling", "posting", "answered", "loading", "retrying"}]
    BY DEF TokensInit
  <2> QED
    BY <2>1, <2>2, <2>3, <2>4, <2>5 DEF TokensTypeOK
<1>3. Numbered /\ Starting
  BY DEF TokensInit, Numbered, Starting, NoToken
<1>4. \A c \in Coroutines : ~Flight(c)
  BY DEF TokensInit, Flight
<1>5. Usable
  BY DEF TokensInit, Usable, TokenToUse
<1> QED
  BY <1>2, <1>3, <1>4, <1>5 DEF TokensInv, Safe, Current, Unread

-----------------------------------------------------------------------------
LEMMA TokenToUseType == ASSUME TokensTypeOK, Numbered
                        PROVE  TokenToUse \in Tokens /\ TokenToUse <= access
BY DEF TokensTypeOK, Numbered, TokenToUse

(* What is read or posted stays as it is, and so do the answers.           *)
LEMMA QuietStep ==
  ASSUME TokensInv, UNCHANGED <<rotates, access, refresh, used, reply>>,
         TokensTypeOK', Numbered', Starting',
         TokenToUse' = TokenToUse,
         \A c \in Coroutines : pc'[c] = "posting" => pc[c] = "posting",
         \A c \in Coroutines : pc'[c] = "answered" => pc[c] = "answered",
         harmed => harmed', ~harmed' => Usable'
  PROVE  TokensInv'
<1>1. \A c \in Coroutines : Flight(c)' => Flight(c)
  BY DEF Flight
<1> QED
  BY <1>1 DEF TokensInv, Safe, Current, Unread, Rotating

LEMMA BeginStep ==
  ASSUME TokensInv, NEW c \in Coroutines, Start(c) \/ CallUnauthorized(c)
  PROVE  TokensInv'
<1> USE DEF server, process
<1>0. TokensTypeOK /\ Numbered /\ Starting
  BY DEF TokensInv
<1>1. /\ pc[c] \in {"idle", "calling"} /\ pc' = [pc EXCEPT ![c] = "posting"]
      /\ used' = [used EXCEPT ![c] = TokenToUse]
      /\ UNCHANGED <<server, process, bearer, reply, harmed, faults>>
  BY DEF Start, CallUnauthorized, At, BeginRefresh
<1>2. TokenToUse \in Tokens /\ TokenToUse <= access
  BY <1>0, TokenToUseType
<1>3. TokensTypeOK'
  BY <1>0, <1>1, <1>2 DEF TokensTypeOK
<1>4. Numbered'
  BY <1>0, <1>1, <1>2 DEF Numbered, TokensTypeOK
<1>5. Starting'
  <2>1. CASE Start(c)
    BY <1>0, <1>1, <2>1 DEF Start, Nobody, Starting, TokensTypeOK
  <2>2. CASE CallUnauthorized(c)
    BY <1>0, <1>1, <2>2 DEF CallUnauthorized, At, Starting, TokensTypeOK
  <2> QED
    BY <2>1, <2>2
<1>6. TokenToUse' = TokenToUse
  BY <1>1 DEF TokenToUse
<1>7. \A d \in Coroutines : Flight(d)' <=> Flight(d)
  BY <1>0, <1>1 DEF Flight, TokensTypeOK
<1>8. Usable => Usable'
  BY <1>0, <1>1, <1>6 DEF Usable, TokensTypeOK
<1>9. Current => Current'
  BY <1>1, <1>7 DEF Current
<1>10. \A d \in Coroutines : Unread(d) => Unread(d)'
  BY <1>0, <1>1, <1>6, <1>7 DEF Unread, Rotating, TokensTypeOK
<1> QED
  BY <1>0, <1>1, <1>3, <1>4, <1>5, <1>8, <1>9, <1>10 DEF TokensInv, Safe

-----------------------------------------------------------------------------
LEMMA PostReachesStep == ASSUME TokensInv, NEW c \in Coroutines, PostReaches(c) PROVE TokensInv'
<1> USE DEF process, At
<1>0. TokensTypeOK /\ Numbered /\ Starting
  BY DEF TokensInv
<1>1. /\ pc[c] = "posting" /\ pc' = [pc EXCEPT ![c] = "answered"]
      /\ UNCHANGED <<rotates, expired, process, used, harmed, faults>>
  BY DEF PostReaches
<1>2. Starting'
  BY <1>0, <1>1 DEF Starting, TokensTypeOK
<1>3. TokenToUse' = TokenToUse
  BY <1>1 DEF TokenToUse
<1>4. CASE used[c] = refresh /\ Issue(c)
  <2>1. /\ access' \in Tokens /\ access' >= access /\ access' \in {access, access + 1}
        /\ access' = access => access = MaxIssued
        /\ refresh' \in Tokens /\ (rotates => refresh' = access') /\ (~rotates => refresh' = refresh)
        /\ reply' = [reply EXCEPT ![c] = refresh'] /\ bearer' = [bearer EXCEPT ![c] = access']
    BY <1>0, <1>4, TokensAssumption DEF TokensTypeOK, Issue, Tokens
  <2>2. TokensTypeOK'
    BY <1>0, <1>1, <2>1 DEF TokensTypeOK
  <2>3. Numbered'
    <3>1. access \in Int /\ access' \in Int /\ file \in Int /\ env \in Int /\ refresh \in Int
      BY <1>0, <2>2 DEF TokensTypeOK, Tokens, NoToken
    <3>2. \A d \in Coroutines : used[d] \in Int /\ reply[d] \in Int
      BY <1>0 DEF TokensTypeOK, Tokens, NoToken
    <3>3. file' <= access' /\ env' <= access' /\ \A d \in Coroutines : used'[d] <= access'
      BY <1>0, <1>1, <2>1, <3>1, <3>2 DEF Numbered
    <3>5. refresh' <= access'
      BY <1>0, <1>1, <2>1, <3>1 DEF Numbered
    <3>6. \A d \in Coroutines : reply'[d] = IF d = c THEN refresh' ELSE reply[d]
      BY <1>0, <2>1 DEF TokensTypeOK
    <3>7. \A d \in Coroutines : reply'[d] <= access'
      BY <1>0, <2>1, <3>1, <3>2, <3>5, <3>6 DEF Numbered
    <3>4. refresh' <= access' /\ (rotates' => refresh' = access')
      BY <1>0, <1>1, <2>1, <3>1 DEF Numbered
    <3> QED
      BY <3>3, <3>4, <3>7 DEF Numbered
  <2>4. reply'[c] = refresh' /\ refresh' # NoToken /\ pc'[c] = "answered"
    BY <1>0, <1>1, <2>1 DEF TokensTypeOK, Tokens, NoToken
  <2>5. Usable'
    BY <2>4 DEF Usable
  <2>6. \A d \in Coroutines : d # c => (Flight(d)' <=> Flight(d)) /\ reply'[d] = reply[d]
                                       /\ pc'[d] = pc[d]
    BY <1>0, <1>1, <2>1 DEF TokensTypeOK, Flight
  <2>7. ASSUME ~harmed PROVE Current' /\ \A d \in Coroutines : Unread(d)'
    <3>1. Current /\ \A d \in Coroutines : Unread(d)
      BY <2>7 DEF TokensInv, Safe
    <3>2. CASE Rotating
      <4>1. \A d \in Coroutines : ~Flight(d)
        BY <1>1, <1>4, <3>1, <3>2 DEF Unread
      <4>2. \A d \in Coroutines : Flight(d)' => d = c
        BY <2>6, <4>1
      <4>3. access' = access + 1 /\ refresh' = access + 1
        <5>1. access # MaxIssued
          BY <1>0, <3>2, TokensAssumption DEF Rotating, TokensTypeOK, Tokens
        <5> QED
          BY <2>1, <3>2, <5>1 DEF Rotating
      <4>4. TokenToUse' # refresh' /\ \A d \in Coroutines : used'[d] # refresh'
        <5>1. TokenToUse <= access /\ TokenToUse \in Int /\ access \in Int
          BY <1>0, TokenToUseType DEF TokensTypeOK, Tokens
        <5>2. \A d \in Coroutines : used[d] <= access /\ used[d] \in Int
          BY <1>0 DEF TokensTypeOK, Tokens, Numbered
        <5> QED
          BY <1>1, <1>3, <4>3, <5>1, <5>2
      <4> QED
        BY <2>4, <4>2, <4>4 DEF Current, Unread
    <3>3. CASE ~Rotating
      <4>1. refresh' = refresh
        <5>1. CASE ~rotates
          BY <2>1, <5>1
        <5>2. CASE rotates
          <6>1. access = MaxIssued
            BY <1>0, <3>3, <5>2, TokensAssumption DEF Rotating, TokensTypeOK, Tokens
          <6>2. access' = access
            BY <2>1, <6>1, TokensAssumption DEF Tokens
          <6> QED
            BY <1>0, <2>1, <5>2, <6>2 DEF Numbered
        <5> QED
          BY <5>1, <5>2
      <4>2. ~Rotating'
        BY <1>0, <1>1, <2>1, <3>3, TokensAssumption DEF Rotating, TokensTypeOK, Tokens
      <4> QED
        BY <2>4, <2>6, <3>1, <4>1, <4>2 DEF Current, Unread
    <3> QED
      BY <3>2, <3>3
  <2> QED
    BY <1>1, <1>2, <2>2, <2>3, <2>5, <2>7 DEF TokensInv, Safe
<1>5. CASE /\ used[c] # refresh
           /\ reply' = [reply EXCEPT ![c] = NoToken]
           /\ UNCHANGED <<access, refresh, bearer>>
  <2>1. TokensTypeOK'
    BY <1>0, <1>1, <1>5 DEF TokensTypeOK
  <2>0. Numbered'
    <3>1. NoToken <= access
      BY <1>0 DEF TokensTypeOK, Tokens, NoToken
    <3> QED
      BY <1>0, <1>1, <1>5, <3>1 DEF Numbered, TokensTypeOK
  <2>2. \A d \in Coroutines : (Flight(d)' <=> Flight(d)) /\ (Flight(d) => reply'[d] = reply[d])
    BY <1>0, <1>1, <1>5 DEF TokensTypeOK, Flight
  <2>3. \A d \in Coroutines : pc'[d] = "posting" => pc[d] = "posting"
    BY <1>0, <1>1 DEF TokensTypeOK
  <2>4. Current => Current'
    BY <1>5, <2>2 DEF Current
  <2>5. \A d \in Coroutines : Unread(d) => Unread(d)'
    BY <1>1, <1>3, <1>5, <2>2, <2>3 DEF Unread, Rotating
  <2>6. Usable => Usable'
    <3>1. refresh # NoToken
      BY <1>0 DEF TokensTypeOK, Tokens, NoToken
    <3>2. \A d \in Coroutines : pc[d] = "answered" /\ reply[d] = refresh => Flight(d)
      BY <3>1 DEF Flight
    <3>3. \A d \in Coroutines : pc[d] = "answered" /\ reply[d] = refresh =>
                                pc'[d] = "answered" /\ reply'[d] = refresh
      BY <2>2, <3>2 DEF Flight
    <3> QED
      BY <1>3, <1>5, <3>3 DEF Usable
  <2> QED
    BY <1>1, <1>2, <2>0, <2>1, <2>4, <2>5, <2>6 DEF TokensInv, Safe
<1> QED
  BY <1>4, <1>5 DEF PostReaches

(* A step after which no answer is on its way.                             *)
LEMMA GroundedStep ==
  ASSUME TokensTypeOK', Numbered', Starting', ~harmed' => Usable',
         \A c \in Coroutines : ~Flight(c)'
  PROVE  TokensInv'
BY DEF TokensInv, Safe, Current, Unread

LEMMA FaultType == ASSUME TokensTypeOK, Fault \/ NoFault PROVE faults' \in 0..MaxFaults
BY TokensAssumption DEF TokensTypeOK, Fault, NoFault

LEMMA HarmType == ASSUME TokensTypeOK, Harm \/ UNCHANGED harmed
                  PROVE  harmed' \in BOOLEAN /\ (harmed => harmed')
<1>1. harmed \in BOOLEAN
  BY DEF TokensTypeOK
<1>2. CASE UNCHANGED harmed
  BY <1>1, <1>2
<1>3. CASE Harm
  <2>1. CASE harmed \/ ~Usable'
    BY <1>3, <2>1 DEF Harm
  <2>2. CASE ~(harmed \/ ~Usable')
    BY <1>3, <2>2 DEF Harm
  <2> QED
    BY <2>1, <2>2
<1> QED
  BY <1>2, <1>3

LEMMA HarmSeen == ASSUME Harm, ~harmed' PROVE Usable'
BY DEF Harm

LEMMA PostReturnsStep == ASSUME TokensInv, NEW c \in Coroutines, PostReturns(c) PROVE TokensInv'
<1> USE DEF server, At
<1>0. TokensTypeOK /\ Numbered /\ Starting
  BY DEF TokensInv
<1>1. /\ pc[c] = "answered" /\ reply[c] # NoToken /\ env' = reply[c]
      /\ pc' = [pc EXCEPT ![c] = "loading"]
      /\ UNCHANGED <<server, tools, up, bearer, used, reply>>
      /\ Save(c)
  BY DEF PostReturns
<1>2. file' \in {file, reply[c]} /\ faults' \in 0..MaxFaults
  BY <1>0, <1>1, FaultType DEF Save
<1>3. harmed' \in BOOLEAN /\ (harmed => harmed')
  BY <1>0, <1>1, HarmType DEF Save
<1>4. TokensTypeOK'
  <2>1. reply[c] \in Tokens
    BY <1>0, <1>1 DEF TokensTypeOK
  <2>2. file' \in Tokens \union {NoToken} /\ env' \in Tokens
    BY <1>0, <1>1, <1>2, <2>1 DEF TokensTypeOK
  <2>3. pc' \in [Coroutines -> {"idle", "calling", "posting", "answered", "loading", "retrying"}]
    BY <1>0, <1>1 DEF TokensTypeOK
  <2> QED
    BY <1>0, <1>1, <1>2, <1>3, <2>2, <2>3 DEF TokensTypeOK
<1>5. Starting'
  BY <1>0, <1>1 DEF Starting, TokensTypeOK
<1>6. Flight(c)
  BY <1>1 DEF Flight
<1>7. Numbered'
  <2>1. reply[c] <= access
    BY <1>0 DEF Numbered
  <2> QED
    BY <1>0, <1>1, <1>2, <2>1 DEF Numbered
<1>8. \A d \in Coroutines : Flight(d)' => Flight(d) /\ d # c
  BY <1>0, <1>1 DEF Flight, TokensTypeOK
<1>9. ~harmed' => Usable'
  <2> SUFFICES ASSUME ~harmed' PROVE Usable'
    OBVIOUS
  <2>1. reply[c] = refresh
    BY <1>3, <1>6 DEF TokensInv, Safe, Current
  <2>2. CASE file' = reply[c]
    BY <1>1, <2>1, <2>2 DEF Usable, TokenToUse
  <2>3. CASE Harm
    BY <2>3, HarmSeen
  <2> QED
    BY <1>1, <2>2, <2>3 DEF Save
<1>10. ~harmed' => Current' /\ \A d \in Coroutines : Unread(d)'
  <2> SUFFICES ASSUME ~harmed' PROVE Current' /\ \A d \in Coroutines : Unread(d)'
    OBVIOUS
  <2>1. Current /\ Unread(c)
    BY <1>3 DEF TokensInv, Safe
  <2>2. Current'
    BY <1>1, <1>8, <2>1 DEF Current
  <2>3. Rotating => \A d \in Coroutines : ~Flight(d)'
    BY <1>6, <1>8, <2>1 DEF Unread
  <2>4. Rotating' = Rotating
    BY <1>1 DEF Rotating
  <2> QED
    BY <2>2, <2>3, <2>4 DEF Unread
<1> QED
  BY <1>4, <1>5, <1>7, <1>9, <1>10 DEF TokensInv, Safe

-----------------------------------------------------------------------------
LEMMA UsableKept ==
  ASSUME Usable, TokenToUse' = TokenToUse, UNCHANGED <<refresh, reply>>,
         \A d \in Coroutines : pc[d] = "answered" /\ reply[d] = refresh => pc'[d] = "answered"
  PROVE  Usable'
BY DEF Usable

LEMMA NotHarmed == ASSUME TokensInv, ~harmed PROVE Usable
BY DEF TokensInv, Safe

(* A coroutine goes on to a call, a retry or the end of it: no token moves.  *)
LEMMA MoveOnStep ==
  ASSUME TokensInv, NEW c \in Coroutines, NEW there \in {"idle", "calling", "retrying"},
         pc' = [pc EXCEPT ![c] = there],
         pc[c] = "answered" => reply[c] = NoToken,
         pc[c] = "idle" => up,
         UNCHANGED <<server, file, env, used, reply, harmed>>, Fault \/ NoFault,
         bearer' \in [Coroutines -> Tokens],
         tools' \in Tokens \union {NoToken}, up' \in BOOLEAN,
         up' => tools' \in Tokens, up => up'
  PROVE  TokensInv'
<1> USE DEF server
<1>0. TokensTypeOK /\ Numbered /\ Starting
  BY DEF TokensInv
<1>1. \A d \in Coroutines : pc'[d] = IF d = c THEN there ELSE pc[d]
  BY <1>0 DEF TokensTypeOK
<1>2. TokensTypeOK'
  <2>1. pc' \in [Coroutines -> {"idle", "calling", "posting", "answered", "loading", "retrying"}]
    BY <1>0 DEF TokensTypeOK
  <2>2. faults' \in 0..MaxFaults
    BY <1>0, FaultType
  <2> QED
    BY <1>0, <2>1, <2>2 DEF TokensTypeOK
<1>3. Numbered'
  BY <1>0 DEF Numbered
<1>4. Starting'
  BY <1>0, <1>1 DEF Starting
<1>5. TokenToUse' = TokenToUse
  BY DEF TokenToUse
<1>6. ASSUME ~harmed' PROVE Usable'
  <2>1. Usable
    BY <1>6, NotHarmed
  <2>2. refresh # NoToken
    BY <1>0 DEF TokensTypeOK, Tokens, NoToken
  <2> QED
    BY <1>1, <1>5, <2>1, <2>2, UsableKept
<1>7. /\ \A d \in Coroutines : pc'[d] = "posting" => pc[d] = "posting"
      /\ \A d \in Coroutines : pc'[d] = "answered" => pc[d] = "answered"
  BY <1>1
<1> QED
  BY <1>2, <1>3, <1>4, <1>5, <1>6, <1>7, QuietStep

LEMMA CallsStep ==
  ASSUME TokensInv, NEW c \in Coroutines,
         Call(c) \/ CallEnds(c) \/ PostRefused(c) \/ RetryEnds(c) \/ LoadReturns(c)
  PROVE  TokensInv'
<1> USE DEF server, process, At
<1>0. /\ bearer \in [Coroutines -> Tokens] /\ tools \in Tokens \union {NoToken}
      /\ up \in BOOLEAN /\ (up => tools \in Tokens)
  BY DEF TokensInv, TokensTypeOK, Starting
<1>1. CASE Call(c)
  <2>1. bearer' \in [Coroutines -> Tokens]
    BY <1>0, <1>1 DEF Call
  <2> QED
    BY <1>0, <1>1, <2>1, MoveOnStep DEF Call, NoFault
<1>2. CASE CallEnds(c)
  BY <1>0, <1>2, MoveOnStep DEF CallEnds, NoFault
<1>3. CASE PostRefused(c)
  BY <1>0, <1>3, MoveOnStep DEF PostRefused, NoFault
<1>4. CASE RetryEnds(c)
  BY <1>0, <1>4, MoveOnStep DEF RetryEnds, NoFault
<1>5. CASE LoadReturns(c)
  <2>1. tools' = bearer[c] /\ bearer[c] \in Tokens
    BY <1>0, <1>5 DEF LoadReturns, Install
  <2>2. PICK there \in {"idle", "calling", "retrying"} : pc' = [pc EXCEPT ![c] = there]
    BY <1>5 DEF LoadReturns
  <2> QED
    BY <1>0, <1>5, <2>1, <2>2, MoveOnStep DEF LoadReturns, NoFault
<1> QED
  BY <1>1, <1>2, <1>3, <1>4, <1>5

LEMMA ExpireStep == ASSUME TokensInv, Expire PROVE TokensInv'
<1> USE DEF process, coroutines
<1>0. TokensTypeOK /\ Numbered /\ Starting
  BY DEF TokensInv
<1>1. /\ expired' \in (expired + 1)..access
      /\ UNCHANGED <<rotates, access, refresh, process, coroutines, harmed, faults>>
  BY DEF Expire
<1>2. TokensTypeOK'
  <2>1. expired' \in Tokens
    BY <1>0, <1>1, TokensAssumption DEF TokensTypeOK, Tokens, NoToken
  <2> QED
    BY <1>0, <1>1, <2>1 DEF TokensTypeOK
<1>3. Numbered' /\ Starting'
  BY <1>0, <1>1 DEF Numbered, Starting
<1>4. TokenToUse' = TokenToUse
  BY <1>1 DEF TokenToUse
<1>5. ASSUME ~harmed' PROVE Usable'
  <2>1. Usable
    BY <1>1, <1>5, NotHarmed
  <2> QED
    BY <1>1, <1>4, <2>1, UsableKept
<1> QED
  BY <1>1, <1>2, <1>3, <1>4, <1>5, QuietStep

-----------------------------------------------------------------------------
LEMMA PostLostStep == ASSUME TokensInv, NEW c \in Coroutines, PostLost(c) PROVE TokensInv'
<1> USE DEF server, process
<1>0. TokensTypeOK /\ Numbered /\ Starting
  BY DEF TokensInv
<1>1. /\ pc[c] # "idle" /\ pc' = [pc EXCEPT ![c] = "idle"] /\ Fault /\ Harm
      /\ UNCHANGED <<server, process, bearer, used, reply>>
  BY DEF PostLost
<1>2. TokensTypeOK'
  <2>1. faults' \in 0..MaxFaults /\ harmed' \in BOOLEAN
    BY <1>0, <1>1, FaultType, HarmType
  <2>2. pc' \in [Coroutines -> {"idle", "calling", "posting", "answered", "loading", "retrying"}]
    BY <1>0, <1>1 DEF TokensTypeOK
  <2> QED
    BY <1>0, <1>1, <2>1, <2>2 DEF TokensTypeOK
<1>3. Numbered' /\ Starting'
  BY <1>0, <1>1 DEF Numbered, Starting, TokensTypeOK
<1>4. TokenToUse' = TokenToUse
  BY <1>1 DEF TokenToUse
<1>5. /\ \A d \in Coroutines : pc'[d] = "posting" => pc[d] = "posting"
      /\ \A d \in Coroutines : pc'[d] = "answered" => pc[d] = "answered"
  BY <1>0, <1>1 DEF TokensTypeOK
<1>6. harmed => harmed'
  BY <1>0, <1>1, HarmType
<1>7. ASSUME ~harmed' PROVE Usable'
  BY <1>1, <1>7, HarmSeen
<1> QED
  BY <1>1, <1>2, <1>3, <1>4, <1>5, <1>6, <1>7, QuietStep

LEMMA LoadRaisesStep == ASSUME TokensInv, NEW c \in Coroutines, LoadRaises(c) PROVE TokensInv'
<1> USE DEF server, At
<1>0. TokensTypeOK /\ Numbered /\ Starting
  BY DEF TokensInv
<1>1. /\ pc[c] = "loading" /\ pc' = [pc EXCEPT ![c] = "idle"]
      /\ env' = IF up THEN env ELSE 0
      /\ UNCHANGED <<server, file, tools, up, bearer, used, reply>>
  BY DEF LoadRaises
<1>2. (Fault \/ NoFault) /\ Harm
  BY DEF LoadRaises
<1>3. \A d \in Coroutines : pc'[d] = IF d = c THEN "idle" ELSE pc[d]
  BY <1>0, <1>1 DEF TokensTypeOK
<1>4. access \in Int /\ 0 <= access /\ 0 \in Tokens
  BY <1>0, TokensAssumption DEF TokensTypeOK, Tokens
<1>5. TokensTypeOK'
  <2>1. faults' \in 0..MaxFaults /\ harmed' \in BOOLEAN
    BY <1>0, <1>2, FaultType, HarmType
  <2>2. pc' \in [Coroutines -> {"idle", "calling", "posting", "answered", "loading", "retrying"}]
    BY <1>0, <1>1 DEF TokensTypeOK
  <2>3. env' \in Tokens
    BY <1>0, <1>1, <1>4 DEF TokensTypeOK
  <2> QED
    BY <1>0, <1>1, <2>1, <2>2, <2>3 DEF TokensTypeOK
<1>6. Numbered' /\ Starting'
  BY <1>0, <1>1, <1>3, <1>4 DEF Numbered, Starting
<1>7. ASSUME ~harmed' PROVE Usable'
  BY <1>2, <1>7, HarmSeen
<1>8. CASE up
  <2>1. TokenToUse' = TokenToUse
    BY <1>1, <1>8 DEF TokenToUse
  <2>2. harmed => harmed'
    BY <1>0, <1>2, HarmType
  <2> QED
    BY <1>1, <1>3, <1>5, <1>6, <1>7, <2>1, <2>2, QuietStep
<1>9. CASE ~up
  <2>1. \A d \in Coroutines : pc'[d] = "idle"
    BY <1>0, <1>1, <1>3, <1>9 DEF Starting
  <2> QED
    BY <1>5, <1>6, <1>7, <2>1, GroundedStep DEF Flight
<1> QED
  BY <1>8, <1>9

LEMMA CrashStep == ASSUME TokensInv, Crash PROVE TokensInv'
<1> USE DEF server
<1>0. TokensTypeOK /\ Numbered
  BY DEF TokensInv
<1>1. /\ Fault /\ Harm /\ up' = FALSE /\ env' = 0 /\ tools' = NoToken
      /\ pc' = [d \in Coroutines |-> "idle"]
      /\ UNCHANGED <<server, file, bearer, used, reply>>
  BY DEF Crash
<1>2. access \in Int /\ 0 <= access /\ 0 \in Tokens
  BY <1>0, TokensAssumption DEF TokensTypeOK, Tokens
<1>3. TokensTypeOK'
  <2>1. faults' \in 0..MaxFaults /\ harmed' \in BOOLEAN
    BY <1>0, <1>1, FaultType, HarmType
  <2> QED
    BY <1>0, <1>1, <1>2, <2>1 DEF TokensTypeOK
<1>4. Numbered' /\ Starting'
  BY <1>0, <1>1, <1>2 DEF Numbered, Starting
<1>5. ASSUME ~harmed' PROVE Usable'
  BY <1>1, <1>5, HarmSeen
<1>6. \A d \in Coroutines : ~Flight(d)'
  BY <1>1 DEF Flight
<1> QED
  BY <1>3, <1>4, <1>5, <1>6, GroundedStep

LEMMA StutterStep == ASSUME TokensInv, UNCHANGED tokenVars PROVE TokensInv'
<1> USE DEF tokenVars, server, process, coroutines
<1>1. TokensTypeOK' /\ Numbered' /\ Starting'
  BY DEF TokensInv, TokensTypeOK, Numbered, Starting
<1>2. TokenToUse' = TokenToUse /\ \A d \in Coroutines : Flight(d)' <=> Flight(d)
  BY DEF TokenToUse, Flight
<1>3. Usable' <=> Usable
  BY <1>2 DEF Usable
<1> QED
  BY <1>1, <1>2, <1>3, NotHarmed, QuietStep

-----------------------------------------------------------------------------
LEMMA TokensInvNext == ASSUME TokensInv, [TokensNext]_tokenVars PROVE TokensInv'
<1>1. CASE \E c \in Coroutines : Start(c) \/ Step(c)
  <2>1. PICK c \in Coroutines : Start(c) \/ Step(c)
    BY <1>1
  <2> QED
    BY <2>1, BeginStep, CallsStep, PostReachesStep, PostReturnsStep, PostLostStep,
       LoadRaisesStep DEF Step
<1>2. CASE Expire
  BY <1>2, ExpireStep
<1>3. CASE Crash
  BY <1>3, CrashStep
<1>4. CASE UNCHANGED tokenVars
  BY <1>4, StutterStep
<1> QED
  BY <1>1, <1>2, <1>3, <1>4 DEF TokensNext

(* The inductive invariant.                                                *)
THEOREM TokensInvariance == TokensSpec => []TokensInv
<1>1. TokensInv /\ [TokensNext]_tokenVars => TokensInv'
  BY TokensInvNext
<1> QED
  BY TokensInvInit, <1>1, PTL DEF TokensSpec

(* Type correctness of the token refresh for any coroutines and faults.    *)
THEOREM TokensTypeCorrect == TokensSpec => []TokensTypeOK
<1>1. TokensInv => TokensTypeOK
  BY DEF TokensInv
<1> QED
  BY TokensInvariance, <1>1, PTL

(* refresh_rh_token: only a fault can cost the process its authorization,  *)
(* whatever number of coroutines refreshes at once.                        *)
THEOREM RefreshTokenSurvives == TokensSpec => []AuthSurvives
<1>1. TokensInv => AuthSurvives
  BY DEF TokensInv, Safe, AuthSurvives
<1> QED
  BY TokensInvariance, <1>1, PTL
=============================================================================
