------------------------ MODULE OrderLifecycleProofs ------------------------
(***************************************************************************)
(* Theorems about OrderLifecycle, for every set of entries and every value *)
(* of the parameters.  TypeOK, SingleExposure, Custody and PositionsExact  *)
(* are not inductive one by one: that a fill keeps within the quantity and *)
(* a replacement within the ladder depends on what the manager and the     *)
(* broker have in common.  IInv adds it, entry by entry.                   *)
(*                                                                         *)
(* The second part proves that OrderLifecycle implements EntryCustody:     *)
(* each step of the manager, the broker or the clock is, for one entry, a  *)
(* step of EntryCustody, and changes nothing that is promised about the    *)
(* others.  IInv is what makes the mapping one: of all orders of an entry  *)
(* only one ever buys, so what an entry has bought is the first executions *)
(* of that order, and its position holds as many.                          *)
(***************************************************************************)
EXTENDS OrderLifecycle, FiniteSetTheorems, TLAPS

(* What holds of one entry whatever happens to the others.                 *)

Dead(e, n) == state[e][n] = "cancelled" /\ filled[e][n] = 0

BookConsistent(e) ==
  \A n \in Attempts :
    /\ state[e][n] = "none" => filled[e][n] = 0
    /\ state[e][n] \in LiveState => filled[e][n] < Quantity
    /\ state[e][n] = "filled" => filled[e][n] = Quantity

(* Every order but the last one is over and bought nothing.                *)
Superseded(e) ==
  \A m, n \in Attempts : m < n /\ state[e][n] # "none" => Dead(e, m)

(* An entry that is tracked or being handled is at its last order.         *)
AtLastOrder(e) ==
  e \in orders \/ doing[e] # "nothing" =>
    /\ StateOf(e) # "none"
    /\ \A n \in Attempts : attempts[e] < n => state[e][n] = "none"

Replacing(e) ==
  doing[e] \in {"quote", "place"} =>
    e \notin orders /\ attempts[e] < MaxReplacements /\ Dead(e, attempts[e])

Bookkeeping(e) ==
  /\ doing[e] = "cancel" => e \in orders
  /\ e \in todo => e \in orders /\ doing[e] = "nothing"
  /\ e \in lost => e \notin orders /\ doing[e] = "nothing" /\ state[e][0] # "none"

InCustody(e) ==
  \A n \in Attempts :
    Exposed(e, n) => store[e][n] > 0 \/ (e \in orders /\ n = attempts[e]) \/ e \in lost

Exact(e) ==
  \A n \in Attempts :
    store[e][n] > 0 =>
      store[e][n] = filled[e][n] /\ state[e][n] \in {"filled", "cancelled"}

EntryInv(e) ==
  /\ BookConsistent(e) /\ Superseded(e) /\ AtLastOrder(e) /\ Replacing(e)
  /\ Bookkeeping(e) /\ InCustody(e) /\ Exact(e)

IInv == TypeOK /\ \A e \in Entries : EntryInv(e)

-----------------------------------------------------------------------------
LEMMA FirstAttempt == 0 \in Attempts /\ Attempts \subseteq Nat
BY LifecycleAssumption DEF Attempts

LEMMA InitInv == Init => IInv
<1> SUFFICES ASSUME Init PROVE IInv
  OBVIOUS
<1> USE LifecycleAssumption, FirstAttempt
<1>1. TypeOK
  BY DEF Init, TypeOK, OrderState
<1>2. ASSUME NEW e \in Entries PROVE EntryInv(e)
  BY DEF Init, EntryInv, BookConsistent, Superseded, AtLastOrder, Replacing,
         Bookkeeping, InCustody, Exact, Exposed, StateOf, LiveState
<1>3. QED
  BY <1>1, <1>2 DEF IInv

-----------------------------------------------------------------------------
(* A step keeps the types.  That a fill stays within the quantity and a    *)
(* replacement within the attempts is what EntryInv is needed for.         *)
LEMMA TypeStep == IInv /\ [Next]_vars => TypeOK'
<1> SUFFICES ASSUME IInv, [Next]_vars PROVE TypeOK'
  OBVIOUS
<1> USE LifecycleAssumption, FirstAttempt DEF TypeOK, manager, wo, book
<1>a. TypeOK
  BY DEF IInv
<1>c. \A s \in {"working", "pending_cancelled", "filled", "cancelled"} : s \in OrderState
  BY DEF OrderState
<1> USE <1>c
<1>b. \A e \in Entries : EntryInv(e)
  BY DEF IInv
<1>1. ASSUME NEW e \in Entries, Track(e) PROVE TypeOK'
  BY <1>a, <1>1 DEF Track, Discard
<1>2. ASSUME NEW e \in Entries, TrackNothing(e) PROVE TypeOK'
  BY <1>a, <1>2 DEF TrackNothing, Fault
<1>3. CASE StartTick
  BY <1>a, <1>3 DEF StartTick
<1>4. ASSUME NEW e \in Entries, CheckOrder(e) PROVE TypeOK'
  <2> USE <1>a DEF Checking, NoFault, Fault, Pop, Discard, Await
  <2>1. CASE PollRaises(e) BY <2>1 DEF PollRaises
  <2>2. CASE PollEmpty(e) BY <2>2 DEF PollEmpty
  <2>3. CASE PollUnexpected(e) BY <2>3 DEF PollUnexpected
  <2>0. FilledOf(e) \in 0..Quantity
    <3>1. filled[e] \in [Attempts -> 0..Quantity] /\ attempts[e] \in Attempts
      OBVIOUS
    <3>2. QED
      BY <3>1 DEF FilledOf
  <2>4. CASE PollFilled(e) BY <2>0, <2>4 DEF PollFilled, Promote
  <2>5. CASE PollPartial(e) BY <2>0, <2>5 DEF PollPartial, Promote
  <2>6. CASE PollReplace(e) BY <2>6 DEF PollReplace
  <2>7. CASE PollEnded(e) BY <2>7 DEF PollEnded
  <2>8. CASE PollGiveUp(e) BY <2>8 DEF PollGiveUp
  <2>9. CASE PollReprice(e) BY <2>9 DEF PollReprice
  <2>10. CASE PollWait(e) BY <2>10 DEF PollWait
  <2>11. QED
    BY <1>4, <2>1, <2>2, <2>3, <2>4, <2>5, <2>6, <2>7, <2>8, <2>9, <2>10
    DEF CheckOrder
<1>5. ASSUME NEW e \in Entries, FinishCall(e) PROVE TypeOK'
  <2> USE <1>a DEF NoFault, Fault, Discard, Await
  <2>0. doing[e] = "place" => attempts[e] + 1 \in Attempts
    BY <1>b, SMTT(40) DEF EntryInv, Replacing, Attempts
  <2>c. ASSUME CancelReaches(e) PROVE state' \in [Entries -> [Attempts -> OrderState]]
    <3> DEFINE after == IF StateOf(e) \in LiveState THEN "pending_cancelled" ELSE StateOf(e)
    <3>1. after \in OrderState
      <4>1. state[e] \in [Attempts -> OrderState] /\ attempts[e] \in Attempts
        OBVIOUS
      <4>2. QED
        BY <4>1 DEF StateOf
    <3>2. state' = [state EXCEPT ![e][attempts[e]] = after]
      BY <2>c DEF CancelReaches, StateOf
    <3>3. attempts[e] \in Attempts
      OBVIOUS
    <3> HIDE DEF after
    <3>4. QED
      BY <3>1, <3>2, <3>3
  <2>1. CASE CancelAccepted(e)
    BY <2>c, <2>1 DEF CancelAccepted, CancelReturns
  <2>2. CASE CancelRefused(e) BY <2>2 DEF CancelRefused, CancelReturns
  <2>3. CASE CancelRaises(e)
    <3>1. state' \in [Entries -> [Attempts -> OrderState]]
      BY <2>c, <2>3 DEF CancelRaises
    <3>2. faults' \in 0..MaxFaults
      BY <2>3 DEF CancelRaises
    <3>3. QED
      BY <2>3, <3>1, <3>2 DEF CancelRaises
  <2>4. CASE QuotePriced(e) BY <2>4 DEF QuotePriced
  <2>5. CASE QuoteMissing(e) BY <2>5 DEF QuoteMissing
  <2>6. CASE PlaceAccepted(e) BY <2>0, <2>6 DEF PlaceAccepted
  <2>7. CASE PlaceRefused(e) BY <2>7 DEF PlaceRefused
  <2>8. CASE PlaceUnanswered(e) BY <2>0, <2>8 DEF PlaceUnanswered
  <2>9. QED
    BY <1>5, <2>1, <2>2, <2>3, <2>4, <2>5, <2>6, <2>7, <2>8 DEF FinishCall
<1>6. ASSUME NEW e \in Entries, NEW n \in Attempts, BrokerFill(e, n) PROVE TypeOK'
  <2>1. filled[e][n] + 1 \in 0..Quantity
    BY <1>a, <1>b, <1>6 DEF BrokerFill, EntryInv, BookConsistent
  <2>2. QED
    BY <1>a, <1>6, <2>1 DEF BrokerFill
<1>7. ASSUME NEW e \in Entries, NEW n \in Attempts,
             BrokerCancel(e, n) \/ BrokerEnd(e, n)
      PROVE TypeOK'
  <2>1. state' = [state EXCEPT ![e][n] = "cancelled"]
    BY <1>7 DEF BrokerCancel, BrokerEnd
  <2>2. UNCHANGED <<filled, manager, store, lost, faults>>
    BY <1>7 DEF BrokerCancel, BrokerEnd
  <2>3. QED
    BY <1>a, <2>1, <2>2
<1>8. CASE ClockTick
  BY <1>a, <1>8 DEF ClockTick, Older
<1>9. CASE UNCHANGED vars
  BY <1>a, <1>9 DEF vars
<1>10. QED
  BY <1>1, <1>2, <1>3, <1>4, <1>5, <1>6, <1>7, <1>8, <1>9
  DEF Next, Manager, Broker

-----------------------------------------------------------------------------
(* What EntryInv(e) reads is untouched by a step about another entry.      *)
SameEntry(e) ==
  /\ state'[e] = state[e] /\ filled'[e] = filled[e] /\ store'[e] = store[e]
  /\ attempts'[e] = attempts[e] /\ doing'[e] = doing[e]
  /\ e \in orders' <=> e \in orders
  /\ e \in todo' => e \in todo
  /\ e \in lost' <=> e \in lost

LEMMA Frame ==
  ASSUME NEW e \in Entries, EntryInv(e), SameEntry(e) PROVE EntryInv(e)'
BY DEF SameEntry, EntryInv, BookConsistent, Superseded, AtLastOrder, Replacing,
       Bookkeeping, InCustody, Exact, Exposed, Dead, StateOf

(* A step whose effect is confined to entry e preserves the invariant if   *)
(* it does so for e.                                                       *)
LEMMA Elsewhere ==
  ASSUME NEW e \in Entries, IInv, EntryInv(e)',
         \A d \in Entries \ {e} : SameEntry(d)
  PROVE  \A d \in Entries : EntryInv(d)'
BY Frame DEF IInv


-----------------------------------------------------------------------------
(* An entry whose first order was never placed has left no trace.          *)
LEMMA Unplaced ==
  ASSUME NEW e \in Entries, TypeOK, EntryInv(e), state[e][0] = "none"
  PROVE  /\ \A n \in Attempts : state[e][n] = "none" /\ filled[e][n] = 0 /\ ~(store[e][n] > 0)
         /\ e \notin orders /\ e \notin todo /\ e \notin lost /\ doing[e] = "nothing"
<1>1. \A n \in Attempts : state[e][n] = "none"
  BY FirstAttempt DEF EntryInv, Superseded, Dead
<1>2. e \notin orders /\ doing[e] = "nothing"
  BY <1>1 DEF EntryInv, AtLastOrder, StateOf, TypeOK
<1>3. QED
  BY <1>1, <1>2 DEF EntryInv, BookConsistent, Bookkeeping, Exact

(* An entry that is tracked, or being handled, and not yet lost has bought *)
(* only through its last order.                                            *)
LEMMA OnlyLastBuys ==
  ASSUME NEW e \in Entries, TypeOK, EntryInv(e),
         e \in orders \/ doing[e] # "nothing"
  PROVE  /\ attempts[e] \in Attempts
         /\ \A n \in Attempts : n < attempts[e] => Dead(e, n)
         /\ \A n \in Attempts : attempts[e] < n =>
              state[e][n] = "none" /\ filled[e][n] = 0
BY DEF EntryInv, BookConsistent, Superseded, AtLastOrder, StateOf, TypeOK

LEMMA EntryStep == IInv /\ [Next]_vars => \A d \in Entries : EntryInv(d)'
<1> SUFFICES ASSUME IInv, [Next]_vars PROVE \A d \in Entries : EntryInv(d)'
  OBVIOUS
<1>a. TypeOK /\ \A e \in Entries : EntryInv(e)
  BY DEF IInv
<1> USE LifecycleAssumption, FirstAttempt, <1>a DEF manager, wo, book
<1>1. ASSUME NEW e \in Entries, Track(e) PROVE \A d \in Entries : EntryInv(d)'
  <2>1. \A d \in Entries \ {e} : SameEntry(d)
    BY <1>1 DEF Track, Discard, SameEntry, TypeOK
  <2>2. EntryInv(e)'
    <3>1. state[e][0] = "none"
      BY <1>1 DEF Track
    <3>2. /\ \A n \in Attempts : state[e][n] = "none" /\ filled[e][n] = 0 /\ ~(store[e][n] > 0)
          /\ e \notin orders /\ e \notin todo /\ e \notin lost /\ doing[e] = "nothing"
      BY <3>1, Unplaced
    <3>3. /\ \A n \in Attempts : state'[e][n] = IF n = 0 THEN "working" ELSE "none"
          /\ filled'[e] = filled[e] /\ store'[e] = store[e]
          /\ attempts'[e] = 0 /\ doing'[e] = "nothing"
          /\ e \in orders' /\ e \notin todo' /\ e \notin lost'
      BY <1>1, <3>2 DEF Track, Discard, TypeOK
    <3>4. QED
      BY <3>2, <3>3 DEF EntryInv, BookConsistent, Superseded, AtLastOrder, Replacing,
           Bookkeeping, InCustody, Exact, Exposed, Dead, StateOf, FilledOf, LiveState
  <2>3. QED
    BY <2>1, <2>2, Elsewhere
<1>2. ASSUME NEW e \in Entries, TrackNothing(e) PROVE \A d \in Entries : EntryInv(d)'
  <2>1. \A d \in Entries \ {e} : SameEntry(d)
    BY <1>2 DEF TrackNothing, SameEntry, TypeOK
  <2>2. EntryInv(e)'
    <3>1. state[e][0] = "none"
      BY <1>2 DEF TrackNothing
    <3>2. /\ \A n \in Attempts : state[e][n] = "none" /\ filled[e][n] = 0 /\ ~(store[e][n] > 0)
          /\ e \notin orders /\ e \notin todo /\ e \notin lost /\ doing[e] = "nothing"
      BY <3>1, Unplaced
    <3>3. /\ \A n \in Attempts : state'[e][n] = IF n = 0 THEN "working" ELSE "none"
          /\ filled'[e] = filled[e] /\ store'[e] = store[e]
          /\ e \notin orders' /\ e \notin todo' /\ e \in lost' /\ doing'[e] = "nothing"
      BY <1>2, <3>2 DEF TrackNothing, TypeOK
    <3>4. QED
      BY <3>2, <3>3 DEF EntryInv, BookConsistent, Superseded, AtLastOrder, Replacing,
           Bookkeeping, InCustody, Exact, Exposed, Dead, StateOf, FilledOf, LiveState
  <2>3. QED
    BY <2>1, <2>2, Elsewhere
<1>3. ASSUME NEW e \in Entries, PollRaises(e) PROVE \A d \in Entries : EntryInv(d)'
  <2>1. \A d \in Entries \ {e} : SameEntry(d)
    BY <1>3 DEF PollRaises, Checking, Idle, SameEntry, TypeOK
  <2>2. EntryInv(e)'
    BY <1>3 DEF PollRaises, Checking, Idle, TypeOK, EntryInv, BookConsistent, Superseded, AtLastOrder, Replacing,
           Bookkeeping, InCustody, Exact, Exposed, Dead, StateOf, FilledOf, LiveState
  <2>3. QED
    BY <2>1, <2>2, Elsewhere
<1>4. ASSUME NEW e \in Entries, PollEmpty(e) PROVE \A d \in Entries : EntryInv(d)'
  <2>1. \A d \in Entries \ {e} : SameEntry(d)
    BY <1>4 DEF PollEmpty, Checking, Idle, Pop, Discard, SameEntry, TypeOK
  <2>2. EntryInv(e)'
    <3>1. e \in orders /\ doing[e] = "nothing" /\ state[e][0] # "none"
      BY <1>4, Unplaced DEF PollEmpty, Checking, EntryInv, Bookkeeping
    <3>2. /\ state'[e] = state[e] /\ filled'[e] = filled[e] /\ store'[e] = store[e]
          /\ e \notin orders' /\ e \notin todo' /\ e \in lost' /\ doing'[e] = "nothing"
      BY <1>4, <3>1 DEF PollEmpty, Checking, Pop, TypeOK
    <3>3. QED
      BY <3>1, <3>2 DEF EntryInv, BookConsistent, Superseded, AtLastOrder, Replacing,
           Bookkeeping, InCustody, Exact, Exposed, Dead, StateOf, FilledOf, LiveState
  <2>3. QED
    BY <2>1, <2>2, Elsewhere
<1>5. ASSUME NEW e \in Entries, PollUnexpected(e) PROVE \A d \in Entries : EntryInv(d)'
  <2>1. \A d \in Entries \ {e} : SameEntry(d)
    BY <1>5 DEF PollUnexpected, Checking, Idle, SameEntry, TypeOK
  <2>2. EntryInv(e)'
    BY <1>5 DEF PollUnexpected, Checking, Idle, TypeOK, EntryInv, BookConsistent, Superseded, AtLastOrder, Replacing,
           Bookkeeping, InCustody, Exact, Exposed, Dead, StateOf, FilledOf, LiveState
  <2>3. QED
    BY <2>1, <2>2, Elsewhere
<1>6. ASSUME NEW e \in Entries, PollFilled(e) PROVE \A d \in Entries : EntryInv(d)'
  <2>1. \A d \in Entries \ {e} : SameEntry(d)
    BY <1>6 DEF PollFilled, Promote, Checking, Idle, Pop, Discard, SameEntry, TypeOK
  <2>2. EntryInv(e)'
    BY <1>6 DEF PollFilled, Promote, Checking, Idle, Pop, Discard, TypeOK, EntryInv, BookConsistent, Superseded, AtLastOrder, Replacing,
           Bookkeeping, InCustody, Exact, Exposed, Dead, StateOf, FilledOf, LiveState
  <2>3. QED
    BY <2>1, <2>2, Elsewhere
<1>7. ASSUME NEW e \in Entries, PollPartial(e) PROVE \A d \in Entries : EntryInv(d)'
  <2>1. \A d \in Entries \ {e} : SameEntry(d)
    BY <1>7 DEF PollPartial, Promote, Checking, Idle, Pop, Discard, SameEntry, TypeOK
  <2>2. EntryInv(e)'
    BY <1>7 DEF PollPartial, Promote, Checking, Idle, Pop, Discard, TypeOK, EntryInv, BookConsistent, Superseded, AtLastOrder, Replacing,
           Bookkeeping, InCustody, Exact, Exposed, Dead, StateOf, FilledOf, LiveState
  <2>3. QED
    BY <2>1, <2>2, Elsewhere
<1>8. ASSUME NEW e \in Entries, PollReplace(e) PROVE \A d \in Entries : EntryInv(d)'
  <2>1. \A d \in Entries \ {e} : SameEntry(d)
    BY <1>8 DEF PollReplace, WantsReplacement, Checking, Idle, Pop, Await, SameEntry, TypeOK
  <2>2. EntryInv(e)'
    BY <1>8 DEF PollReplace, WantsReplacement, Checking, Idle, Pop, Await, TypeOK, EntryInv, BookConsistent, Superseded, AtLastOrder, Replacing,
           Bookkeeping, InCustody, Exact, Exposed, Dead, StateOf, FilledOf, LiveState
  <2>3. QED
    BY <2>1, <2>2, Elsewhere
<1>9. ASSUME NEW e \in Entries, PollEnded(e) PROVE \A d \in Entries : EntryInv(d)'
  <2>1. \A d \in Entries \ {e} : SameEntry(d)
    BY <1>9 DEF PollEnded, Checking, Idle, Pop, Discard, SameEntry, TypeOK
  <2>2. EntryInv(e)'
    BY <1>9 DEF PollEnded, Checking, Idle, Pop, Discard, TypeOK, EntryInv, BookConsistent, Superseded, AtLastOrder, Replacing,
           Bookkeeping, InCustody, Exact, Exposed, Dead, StateOf, FilledOf, LiveState
  <2>3. QED
    BY <2>1, <2>2, Elsewhere
<1>10. ASSUME NEW e \in Entries, PollGiveUp(e) PROVE \A d \in Entries : EntryInv(d)'
  <2>1. \A d \in Entries \ {e} : SameEntry(d)
    BY <1>10 DEF PollGiveUp, Checking, Idle, Await, SameEntry, TypeOK
  <2>2. EntryInv(e)'
    BY <1>10 DEF PollGiveUp, Checking, Idle, Await, TypeOK, EntryInv, BookConsistent, Superseded, AtLastOrder, Replacing,
           Bookkeeping, InCustody, Exact, Exposed, Dead, StateOf, FilledOf, LiveState
  <2>3. QED
    BY <2>1, <2>2, Elsewhere
<1>11. ASSUME NEW e \in Entries, PollReprice(e) PROVE \A d \in Entries : EntryInv(d)'
  <2>1. \A d \in Entries \ {e} : SameEntry(d)
    BY <1>11 DEF PollReprice, Checking, Idle, Await, SameEntry, TypeOK
  <2>2. EntryInv(e)'
    BY <1>11 DEF PollReprice, Checking, Idle, Await, TypeOK, EntryInv, BookConsistent, Superseded, AtLastOrder, Replacing,
           Bookkeeping, InCustody, Exact, Exposed, Dead, StateOf, FilledOf, LiveState
  <2>3. QED
    BY <2>1, <2>2, Elsewhere
<1>12. ASSUME NEW e \in Entries, PollWait(e) PROVE \A d \in Entries : EntryInv(d)'
  <2>1. \A d \in Entries \ {e} : SameEntry(d)
    BY <1>12 DEF PollWait, Checking, Idle, SameEntry, TypeOK
  <2>2. EntryInv(e)'
    BY <1>12 DEF PollWait, Checking, Idle, TypeOK, EntryInv, BookConsistent, Superseded, AtLastOrder, Replacing,
           Bookkeeping, InCustody, Exact, Exposed, Dead, StateOf, FilledOf, LiveState
  <2>3. QED
    BY <2>1, <2>2, Elsewhere
<1>13. ASSUME NEW e \in Entries, CancelAccepted(e) PROVE \A d \in Entries : EntryInv(d)'
  <2>1. \A d \in Entries \ {e} : SameEntry(d)
    BY <1>13 DEF CancelAccepted, CancelReaches, CancelReturns, Await, SameEntry, TypeOK
  <2>2. EntryInv(e)'
    BY <1>13 DEF CancelAccepted, CancelReaches, CancelReturns, Await, TypeOK, EntryInv, BookConsistent, Superseded, AtLastOrder, Replacing,
           Bookkeeping, InCustody, Exact, Exposed, Dead, StateOf, FilledOf, LiveState
  <2>3. QED
    BY <2>1, <2>2, Elsewhere
<1>14. ASSUME NEW e \in Entries, CancelRefused(e) PROVE \A d \in Entries : EntryInv(d)'
  <2>1. \A d \in Entries \ {e} : SameEntry(d)
    BY <1>14 DEF CancelRefused, CancelReturns, Await, SameEntry, TypeOK
  <2>2. EntryInv(e)'
    BY <1>14 DEF CancelRefused, CancelReturns, Await, TypeOK, EntryInv, BookConsistent, Superseded, AtLastOrder, Replacing,
           Bookkeeping, InCustody, Exact, Exposed, Dead, StateOf, FilledOf, LiveState
  <2>3. QED
    BY <2>1, <2>2, Elsewhere
<1>15. ASSUME NEW e \in Entries, CancelRaises(e) PROVE \A d \in Entries : EntryInv(d)'
  <2>1. \A d \in Entries \ {e} : SameEntry(d)
    BY <1>15 DEF CancelRaises, CancelReaches, Await, SameEntry, TypeOK
  <2>2. EntryInv(e)'
    BY <1>15 DEF CancelRaises, CancelReaches, Await, TypeOK, EntryInv, BookConsistent, Superseded, AtLastOrder, Replacing,
           Bookkeeping, InCustody, Exact, Exposed, Dead, StateOf, FilledOf, LiveState
  <2>3. QED
    BY <2>1, <2>2, Elsewhere
<1>16. ASSUME NEW e \in Entries, QuotePriced(e) PROVE \A d \in Entries : EntryInv(d)'
  <2>1. \A d \in Entries \ {e} : SameEntry(d)
    BY <1>16 DEF QuotePriced, Await, SameEntry, TypeOK
  <2>2. EntryInv(e)'
    BY <1>16 DEF QuotePriced, Await, TypeOK, EntryInv, BookConsistent, Superseded, AtLastOrder, Replacing,
           Bookkeeping, InCustody, Exact, Exposed, Dead, StateOf, FilledOf, LiveState
  <2>3. QED
    BY <2>1, <2>2, Elsewhere
<1>17. ASSUME NEW e \in Entries, QuoteMissing(e) PROVE \A d \in Entries : EntryInv(d)'
  <2>1. \A d \in Entries \ {e} : SameEntry(d)
    BY <1>17 DEF QuoteMissing, Await, Discard, SameEntry, TypeOK
  <2>2. EntryInv(e)'
    BY <1>17 DEF QuoteMissing, Await, Discard, TypeOK, EntryInv, BookConsistent, Superseded, AtLastOrder, Replacing,
           Bookkeeping, InCustody, Exact, Exposed, Dead, StateOf, FilledOf, LiveState
  <2>3. QED
    BY <2>1, <2>2, Elsewhere
<1>18. ASSUME NEW e \in Entries, PlaceAccepted(e) PROVE \A d \in Entries : EntryInv(d)'
  <2>1. \A d \in Entries \ {e} : SameEntry(d)
    BY <1>18 DEF PlaceAccepted, Await, SameEntry, TypeOK
  <2>2. EntryInv(e)'
    <3> DEFINE next == attempts[e] + 1
    <3>1. doing[e] = "place" /\ e \notin orders /\ Dead(e, attempts[e])
      BY <1>18 DEF PlaceAccepted, EntryInv, Replacing
    <3>2. next \in Attempts /\ attempts[e] \in Attempts /\ next > attempts[e]
      BY <3>1, SMTT(40) DEF EntryInv, Replacing, Attempts, TypeOK
    <3>3. \A n \in Attempts :
            /\ n < next => Dead(e, n)
            /\ n >= next => state[e][n] = "none" /\ filled[e][n] = 0
      BY <3>1, <3>2, OnlyLastBuys DEF Attempts
    <3>4. e \notin todo /\ e \notin lost
      BY <3>1 DEF EntryInv, Bookkeeping
    <3>5. /\ \A n \in Attempts : state'[e][n] = IF n = next THEN "working" ELSE state[e][n]
          /\ filled'[e] = filled[e] /\ store'[e] = store[e]
          /\ attempts'[e] = next /\ doing'[e] = "nothing"
          /\ e \in orders' /\ e \notin todo' /\ e \notin lost'
      BY <1>18, <3>1, <3>2, <3>4 DEF PlaceAccepted, Await, TypeOK
    <3> HIDE DEF next
    <3>6. QED
      BY <3>2, <3>3, <3>5, <3>1 DEF EntryInv, BookConsistent, Superseded, AtLastOrder, Replacing,
           Bookkeeping, InCustody, Exact, Exposed, Dead, StateOf, FilledOf, LiveState
  <2>3. QED
    BY <2>1, <2>2, Elsewhere
<1>19. ASSUME NEW e \in Entries, PlaceRefused(e) PROVE \A d \in Entries : EntryInv(d)'
  <2>1. \A d \in Entries \ {e} : SameEntry(d)
    BY <1>19 DEF PlaceRefused, Await, Discard, SameEntry, TypeOK
  <2>2. EntryInv(e)'
    BY <1>19 DEF PlaceRefused, Await, Discard, TypeOK, EntryInv, BookConsistent, Superseded, AtLastOrder, Replacing,
           Bookkeeping, InCustody, Exact, Exposed, Dead, StateOf, FilledOf, LiveState
  <2>3. QED
    BY <2>1, <2>2, Elsewhere
<1>20. ASSUME NEW e \in Entries, PlaceUnanswered(e) PROVE \A d \in Entries : EntryInv(d)'
  <2>1. \A d \in Entries \ {e} : SameEntry(d)
    BY <1>20 DEF PlaceUnanswered, Await, Discard, SameEntry, TypeOK
  <2>2. EntryInv(e)'
    <3> DEFINE next == attempts[e] + 1
    <3>1. doing[e] = "place" /\ e \notin orders /\ Dead(e, attempts[e])
      BY <1>20 DEF PlaceUnanswered, EntryInv, Replacing
    <3>2. next \in Attempts /\ attempts[e] \in Attempts /\ next > attempts[e]
      BY <3>1, SMTT(40) DEF EntryInv, Replacing, Attempts, TypeOK
    <3>3. \A n \in Attempts :
            /\ n < next => Dead(e, n)
            /\ n >= next => state[e][n] = "none" /\ filled[e][n] = 0
      BY <3>1, <3>2, OnlyLastBuys DEF Attempts
    <3>4. e \notin todo /\ e \notin lost
      BY <3>1 DEF EntryInv, Bookkeeping
    <3>5. /\ \A n \in Attempts : state'[e][n] = IF n = next THEN "working" ELSE state[e][n]
          /\ filled'[e] = filled[e] /\ store'[e] = store[e]
          /\ e \notin orders' /\ e \notin todo' /\ e \in lost' /\ doing'[e] = "nothing"
      BY <1>20, <3>1, <3>2, <3>4 DEF PlaceUnanswered, Await, Discard, TypeOK
    <3> HIDE DEF next
    <3>6. QED
      BY <3>2, <3>3, <3>5, <3>1 DEF EntryInv, BookConsistent, Superseded, AtLastOrder, Replacing,
           Bookkeeping, InCustody, Exact, Exposed, Dead, StateOf, FilledOf, LiveState
  <2>3. QED
    BY <2>1, <2>2, Elsewhere
<1>21. ASSUME NEW e \in Entries, NEW n \in Attempts, BrokerFill(e, n) PROVE \A d \in Entries : EntryInv(d)'
  <2>1. \A d \in Entries \ {e} : SameEntry(d)
    BY <1>21 DEF BrokerFill, SameEntry, TypeOK
  <2>2. EntryInv(e)'
    <3>1. /\ state[e][n] \in LiveState /\ filled[e][n] < Quantity
          /\ filled[e][n] \in 0..Quantity
      BY <1>21 DEF BrokerFill, EntryInv, BookConsistent, TypeOK
    <3>2. \A m \in Attempts :
            /\ filled'[e][m] = IF m = n THEN filled[e][n] + 1 ELSE filled[e][m]
            /\ state'[e][m] = IF m = n /\ filled[e][n] + 1 = Quantity
                              THEN "filled" ELSE state[e][m]
      BY <1>21 DEF BrokerFill, TypeOK
    <3>3. /\ store'[e] = store[e] /\ attempts'[e] = attempts[e] /\ doing'[e] = doing[e]
          /\ orders' = orders /\ todo' = todo /\ lost' = lost
      BY <1>21 DEF BrokerFill
    <3>4. ~(store[e][n] > 0)
      BY <3>1 DEF EntryInv, Exact, LiveState
    <3>a. \A m \in Attempts : /\ state'[e][m] = "none" <=> state[e][m] = "none"
                              /\ Dead(e, m) => Dead(e, m)'
      BY <3>1, <3>2 DEF Dead, LiveState
    <3>b. BookConsistent(e)'
      BY <3>1, <3>2 DEF EntryInv, BookConsistent, LiveState
    <3>c. Superseded(e)'
      BY <3>a DEF EntryInv, Superseded
    <3>d. attempts[e] \in Attempts
      BY DEF TypeOK
    <3>5. (AtLastOrder(e) /\ Replacing(e))'
      BY <3>3, <3>a, <3>d DEF EntryInv, AtLastOrder, Replacing, StateOf
    <3>6. Bookkeeping(e)'
      BY <3>3, <3>a, FirstAttempt DEF EntryInv, Bookkeeping
    <3>7. InCustody(e)'
      BY <3>1, <3>2, <3>3 DEF EntryInv, InCustody, Exposed, LiveState
    <3>8. Exact(e)'
      BY <3>1, <3>2, <3>3, <3>4 DEF EntryInv, Exact
    <3>9. QED
      BY <3>b, <3>c, <3>5, <3>6, <3>7, <3>8 DEF EntryInv
  <2>3. QED
    BY <2>1, <2>2, Elsewhere
<1>22. ASSUME NEW e \in Entries, NEW n \in Attempts, BrokerCancel(e, n) PROVE \A d \in Entries : EntryInv(d)'
  <2>1. \A d \in Entries \ {e} : SameEntry(d)
    BY <1>22 DEF BrokerCancel, SameEntry, TypeOK
  <2>2. EntryInv(e)'
    BY <1>22 DEF BrokerCancel, TypeOK, EntryInv, BookConsistent, Superseded, AtLastOrder, Replacing,
           Bookkeeping, InCustody, Exact, Exposed, Dead, StateOf, FilledOf, LiveState
  <2>3. QED
    BY <2>1, <2>2, Elsewhere
<1>23. ASSUME NEW e \in Entries, NEW n \in Attempts, BrokerEnd(e, n) PROVE \A d \in Entries : EntryInv(d)'
  <2>1. \A d \in Entries \ {e} : SameEntry(d)
    BY <1>23 DEF BrokerEnd, SameEntry, TypeOK
  <2>2. EntryInv(e)'
    BY <1>23 DEF BrokerEnd, TypeOK, EntryInv, BookConsistent, Superseded, AtLastOrder, Replacing,
           Bookkeeping, InCustody, Exact, Exposed, Dead, StateOf, FilledOf, LiveState
  <2>3. QED
    BY <2>1, <2>2, Elsewhere
<1>24. CASE StartTick
  <2>1. ASSUME NEW d \in Entries PROVE EntryInv(d)'
    BY <1>24 DEF StartTick, Idle, TypeOK, EntryInv, BookConsistent, Superseded, AtLastOrder, Replacing,
           Bookkeeping, InCustody, Exact, Exposed, Dead, StateOf, FilledOf, LiveState
  <2>2. QED
    BY <2>1
<1>25. CASE ClockTick \/ UNCHANGED vars
  <2>1. \A d \in Entries : SameEntry(d)
    BY <1>25 DEF ClockTick, vars, SameEntry
  <2>2. QED
    BY <2>1, Frame
<1>26. QED
  BY <1>1, <1>2, <1>3, <1>4, <1>5, <1>6, <1>7, <1>8, <1>9, <1>10, <1>11, <1>12, <1>13, <1>14, <1>15, <1>16, <1>17, <1>18, <1>19, <1>20, <1>21, <1>22, <1>23, <1>24, <1>25
  DEF Next, Manager, Broker, CheckOrder, FinishCall

LEMMA NextInv == IInv /\ [Next]_vars => IInv'
BY TypeStep, EntryStep DEF IInv

THEOREM Invariance == Spec => []IInv
<1>1. Init => IInv
  BY InitInv
<1>2. IInv /\ [Next]_vars => IInv'
  BY NextInv
<1>3. QED
  BY <1>1, <1>2, PTL DEF Spec

(* Every variable of the order manager, the position store and the broker  *)
(* keeps its type: attempts stay within _MAX_REPLACEMENTS and no order or  *)
(* position exceeds the approved quantity.                                 *)
THEOREM TypeCorrect == Spec => []TypeOK
<1>1. IInv => TypeOK
  BY DEF IInv
<1>2. QED
  BY <1>1, Invariance, PTL

(* An entry never has two orders that can buy or have bought, for any      *)
(* number of entries, replacements and lost calls.                         *)
THEOREM NeverTwoExposed == Spec => []SingleExposure
<1>1. IInv => SingleExposure
  <2> SUFFICES ASSUME IInv, NEW e \in Entries, NEW m \in Attempts, NEW n \in Attempts,
                      Exposed(e, m), Exposed(e, n), m # n
               PROVE FALSE
    BY DEF SingleExposure
  <2>1. EntryInv(e)
    BY DEF IInv
  <2>2. state[e][m] # "none" /\ state[e][n] # "none"
    BY <2>1 DEF EntryInv, BookConsistent, Exposed, LiveState
  <2>3. ~Dead(e, m) /\ ~Dead(e, n)
    BY DEF Exposed, Dead, LiveState
  <2>4. m < n \/ n < m
    BY FirstAttempt
  <2>5. QED
    BY <2>1, <2>2, <2>3, <2>4 DEF EntryInv, Superseded
<1>2. QED
  BY <1>1, Invariance, PTL

(* Every contract bought is held, followed, or of an entry lost in a named *)
(* fault.                                                                  *)
THEOREM EveryContractInCustody == Spec => []Custody
<1>1. IInv => Custody
  BY DEF IInv, EntryInv, InCustody, Custody, Exposed
<1>2. QED
  BY <1>1, Invariance, PTL

(* A position is exactly what its order bought, and final.                 *)
THEOREM PositionsAreFinal == Spec => []PositionsExact
<1>1. IInv => PositionsExact
  BY DEF IInv, EntryInv, Exact, PositionsExact
<1>2. QED
  BY <1>1, Invariance, PTL

-----------------------------------------------------------------------------
(* The refinement of EntryCustody.                                         *)


Busy(e) == e \in orders \/ doing[e] # "nothing"
Holds(e) == \E n \in Attempts : store[e][n] > 0

(* The values of the mapping, case by case.                                *)
PhaseValue(e) ==
  /\ e \in lost => Phase(e) = "lost"
  /\ e \notin lost /\ state[e][0] = "none" => Phase(e) = "idle"
  /\ e \notin lost /\ state[e][0] # "none" =>
       /\ Busy(e) => Phase(e) = "working"
       /\ ~Busy(e) => Phase(e) = IF Holds(e) THEN "open" ELSE "ended"

HeldValue(e) ==
  /\ \A n \in Attempts : store[e][n] > 0 => Held(e) = store[e][n]
  /\ ~Holds(e) => Held(e) = 0

BoughtValue(e) ==
  /\ \A n \in Attempts : filled[e][n] > 0 => /\ BoughtBy(e) = {n} \X (1..filled[e][n])
                                             /\ Cardinality(BoughtBy(e)) = filled[e][n]
  /\ (\A n \in Attempts : filled[e][n] = 0) => BoughtBy(e) = {}

Values == \A e \in Entries : PhaseValue(e) /\ HeldValue(e) /\ BoughtValue(e)

-----------------------------------------------------------------------------
LEMMA OneBuyer ==
  ASSUME NEW e \in Entries, IInv,
         NEW m \in Attempts, NEW n \in Attempts, filled[e][m] > 0, filled[e][n] > 0
  PROVE  m = n
<1>1. state[e][m] # "none" /\ state[e][n] # "none" /\ ~Dead(e, m) /\ ~Dead(e, n)
  BY DEF IInv, EntryInv, BookConsistent, Dead
<1>2. ~(m < n) /\ ~(n < m)
  BY <1>1 DEF IInv, EntryInv, Superseded
<1> QED
  BY <1>2, FirstAttempt

LEMMA AllValues == IInv => Values
<1> SUFFICES ASSUME IInv, NEW e \in Entries
             PROVE  PhaseValue(e) /\ HeldValue(e) /\ BoughtValue(e)
  BY DEF Values
<1>1. PhaseValue(e)
  BY DEF PhaseValue, Phase, Busy, Holds
<1>2. HeldValue(e)
  <2>1. \A m, n \in Attempts : store[e][m] > 0 /\ store[e][n] > 0 => m = n
    BY OneBuyer DEF IInv, EntryInv, Exact
  <2> QED
    BY <2>1 DEF HeldValue, Held, Holds
<1>3. BoughtValue(e)
  <2>0. \A n \in Attempts : filled[e][n] \in 0..Quantity
    BY DEF IInv, TypeOK
  <2>1. ASSUME NEW n \in Attempts, filled[e][n] > 0
        PROVE  /\ BoughtBy(e) = {n} \X (1..filled[e][n])
               /\ Cardinality(BoughtBy(e)) = filled[e][n]
    <3>1. \A m \in Attempts : m # n => filled[e][m] = 0
      BY <2>0, <2>1, OneBuyer
    <3>2. BoughtBy(e) = {n} \X (1..filled[e][n])
      BY <2>0, <2>1, <3>1, LifecycleAssumption DEF BoughtBy
    <3>3. filled[e][n] \in Int
      BY <2>0
    <3>4. IsFiniteSet(1..filled[e][n]) /\ Cardinality(1..filled[e][n]) = filled[e][n]
      <4>1. /\ IsFiniteSet(1..filled[e][n])
            /\ Cardinality(1..filled[e][n])
                 = IF 1 > filled[e][n] THEN 0 ELSE filled[e][n] - 1 + 1
        BY <3>3, FS_Interval
      <4> QED
        BY <2>1, <3>3, <4>1
    <3>5. IsFiniteSet({n}) /\ Cardinality({n}) = 1
      BY FS_Singleton
    <3>6. Cardinality({n} \X (1..filled[e][n])) = 1 * filled[e][n]
      BY <3>4, <3>5, FS_Product, ZenonT(40)
    <3> QED
      BY <3>2, <3>3, <3>6
  <2>2. (\A n \in Attempts : filled[e][n] = 0) => BoughtBy(e) = {}
    BY LifecycleAssumption DEF BoughtBy
  <2> QED
    BY <2>1, <2>2 DEF BoughtValue
<1> QED
  BY <1>1, <1>2, <1>3

LEMMA AllValuesNext == IInv' => Values'
BY AllValues, PTL

-----------------------------------------------------------------------------
(* A step as one entry sees it through the mapping.                        *)
Same(e) == Phase(e)' = Phase(e) /\ BoughtBy(e)' = BoughtBy(e) /\ Held(e)' = Held(e)

Submits(e) ==
  /\ Phase(e) = "idle" /\ Phase(e)' = "working"
  /\ BoughtBy(e)' = BoughtBy(e) /\ Held(e)' = Held(e)

Buys(e) ==
  /\ Phase(e) \in {"working", "lost"} /\ Cardinality(BoughtBy(e)) < Quantity
  /\ \E f \in (Attempts \X (1..Quantity)) \ BoughtBy(e) : BoughtBy(e)' = BoughtBy(e) \union {f}
  /\ Phase(e)' = Phase(e) /\ Held(e)' = Held(e)

Settles(e) ==
  /\ Phase(e) = "working" /\ BoughtBy(e) # {} /\ Phase(e)' = "open"
  /\ Held(e)' = Cardinality(BoughtBy(e)) /\ BoughtBy(e)' = BoughtBy(e)

Ends(e) ==
  /\ Phase(e) = "working" /\ BoughtBy(e) = {} /\ Phase(e)' = "ended"
  /\ BoughtBy(e)' = BoughtBy(e) /\ Held(e)' = Held(e)

Loses(e) ==
  /\ Phase(e) \in {"idle", "working"} /\ Phase(e)' = "lost"
  /\ BoughtBy(e)' = BoughtBy(e) /\ Held(e)' = Held(e)

Moves(e) == Same(e) \/ Submits(e) \/ Buys(e) \/ Settles(e) \/ Ends(e) \/ Loses(e)

LEMMA Stutter ==
  ASSUME \A d \in Entries : Same(d) PROVE UNCHANGED EC!custodyVars
BY DEF Same, EC!custodyVars

LEMMA Lift ==
  ASSUME NEW e \in Entries, Moves(e), \A d \in Entries \ {e} : Same(d)
  PROVE  [EC!CustodyNext]_(EC!custodyVars)
<1>1. CASE Same(e)
  BY <1>1, Stutter
<1>2. CASE Submits(e)
  BY <1>2 DEF Submits, Same, EC!CustodyNext, EC!Submit
<1>3. CASE Buys(e)
  <2>1. PICK f \in (Attempts \X (1..Quantity)) \ BoughtBy(e) :
              BoughtBy(e)' = BoughtBy(e) \union {f}
    BY <1>3 DEF Buys
  <2>2. /\ [d \in Entries |-> BoughtBy(d)]'
             = [[d \in Entries |-> BoughtBy(d)] EXCEPT ![e] = BoughtBy(e) \union {f}]
        /\ [d \in Entries |-> Phase(d)]' = [d \in Entries |-> Phase(d)]
        /\ [d \in Entries |-> Held(d)]' = [d \in Entries |-> Held(d)]
    BY <1>3, <2>1 DEF Buys, Same
  <2>3. /\ [d \in Entries |-> Phase(d)][e] \in {"working", "lost"}
        /\ [d \in Entries |-> BoughtBy(d)][e] = BoughtBy(e)
        /\ Cardinality(BoughtBy(e)) < Quantity
    BY <1>3 DEF Buys
  <2>4. EC!Buy(e)
    BY <2>1, <2>2, <2>3 DEF EC!Buy, EC!Cardinality, Cardinality
  <2> QED
    BY <2>4 DEF EC!CustodyNext
<1>4. CASE Settles(e)
  <2>1. /\ [d \in Entries |-> Phase(d)]' = [[d \in Entries |-> Phase(d)] EXCEPT ![e] = "open"]
        /\ [d \in Entries |-> Held(d)]'
             = [[d \in Entries |-> Held(d)] EXCEPT ![e] = Cardinality(BoughtBy(e))]
        /\ [d \in Entries |-> BoughtBy(d)]' = [d \in Entries |-> BoughtBy(d)]
    BY <1>4 DEF Settles, Same
  <2>2. /\ [d \in Entries |-> Phase(d)][e] = "working"
        /\ [d \in Entries |-> BoughtBy(d)][e] = BoughtBy(e) /\ BoughtBy(e) # {}
    BY <1>4 DEF Settles
  <2>3. EC!Settle(e)
    BY <2>1, <2>2 DEF EC!Settle, EC!Cardinality, Cardinality
  <2> QED
    BY <2>3 DEF EC!CustodyNext
<1>5. CASE Ends(e)
  BY <1>5 DEF Ends, Same, EC!CustodyNext, EC!End
<1>6. CASE Loses(e)
  BY <1>6 DEF Loses, Same, EC!CustodyNext, EC!Lose
<1> QED
  BY <1>1, <1>2, <1>3, <1>4, <1>5, <1>6 DEF Moves

-----------------------------------------------------------------------------
(* What leaves the contracts of an entry where they are.                   *)
Still(e) == filled'[e] = filled[e] /\ store'[e] = store[e]

LEMMA StillSame ==
  ASSUME NEW e \in Entries, IInv, IInv', Still(e)
  PROVE  BoughtBy(e)' = BoughtBy(e) /\ Held(e)' = Held(e)
<1>1. HeldValue(e) /\ HeldValue(e)'
  BY AllValues, AllValuesNext DEF Values
<1>2. Held(e)' = Held(e)
  BY <1>1 DEF HeldValue, Holds, Still
<1>3. BoughtBy(e)' = BoughtBy(e)
  BY DEF BoughtBy, Still
<1> QED
  BY <1>2, <1>3

LEMMA QuietSame ==
  ASSUME NEW e \in Entries, IInv, IInv', Still(e),
         e \in lost' <=> e \in lost, state'[e][0] = "none" <=> state[e][0] = "none",
         Busy(e)' <=> Busy(e)
  PROVE  Same(e)
<1>1. PhaseValue(e) /\ PhaseValue(e)'
  BY AllValues, AllValuesNext DEF Values
<1>2. Holds(e)' <=> Holds(e)
  BY DEF Holds, Still
<1>3. Phase(e)' = Phase(e)
  BY <1>1, <1>2 DEF PhaseValue
<1> QED
  BY <1>3, StillSame DEF Same

LEMMA OthersSame ==
  ASSUME NEW e \in Entries, IInv, IInv', SameEntry(e) PROVE Same(e)
BY QuietSame DEF SameEntry, Still, Busy

Refines == [EC!CustodyNext]_(EC!custodyVars)

LEMMA Local ==
  ASSUME NEW e \in Entries, IInv, IInv', Moves(e), \A d \in Entries \ {e} : SameEntry(d)
  PROVE  Refines
<1>1. \A d \in Entries \ {e} : Same(d)
  BY OthersSame
<1> QED
  BY <1>1, Lift DEF Refines

LEMMA Quiet ==
  ASSUME NEW e \in Entries, IInv, IInv', Still(e), \A d \in Entries \ {e} : SameEntry(d),
         e \in lost' <=> e \in lost, state'[e][0] = "none" <=> state[e][0] = "none",
         Busy(e)' <=> Busy(e)
  PROVE  Refines
BY QuietSame, Local DEF Moves

-----------------------------------------------------------------------------
(* The entry is placed.                                                    *)
LEMMA PlacedRefines ==
  ASSUME NEW e \in Entries, IInv, IInv', Track(e) \/ TrackNothing(e)
  PROVE  Refines
<1> USE FirstAttempt DEF manager, wo, book
<1>1. TypeOK /\ EntryInv(e) /\ state[e][0] = "none"
  BY DEF IInv, Track, TrackNothing
<1>2. e \notin orders /\ e \notin lost /\ doing[e] = "nothing"
  BY <1>1, Unplaced
<1>3. \A d \in Entries \ {e} : SameEntry(d)
  BY <1>1 DEF Track, TrackNothing, Discard, SameEntry, TypeOK
<1>4. Still(e) /\ state'[e][0] = "working"
  BY <1>1 DEF Still, Track, TrackNothing, TypeOK
<1>5. BoughtBy(e)' = BoughtBy(e) /\ Held(e)' = Held(e)
  BY <1>4, StillSame
<1>6. PhaseValue(e) /\ PhaseValue(e)'
  BY AllValues, AllValuesNext DEF Values
<1>7. Phase(e) = "idle"
  BY <1>1, <1>2, <1>6 DEF PhaseValue
<1>8. CASE Track(e)
  <2>1. Phase(e)' = "working"
    BY <1>2, <1>4, <1>6, <1>8 DEF Track, PhaseValue, Busy
  <2> QED
    BY <1>3, <1>5, <1>7, <2>1, Local DEF Moves, Submits
<1>9. CASE TrackNothing(e)
  <2>1. Phase(e)' = "lost"
    BY <1>6, <1>9 DEF TrackNothing, PhaseValue
  <2> QED
    BY <1>3, <1>5, <1>7, <2>1, Local DEF Moves, Loses
<1> QED
  BY <1>8, <1>9

(* The broker.                                                             *)
LEMMA BrokerRefines ==
  ASSUME NEW e \in Entries, NEW n \in Attempts, IInv, IInv',
         BrokerFill(e, n) \/ BrokerCancel(e, n) \/ BrokerEnd(e, n)
  PROVE  Refines
<1> USE FirstAttempt DEF manager, wo, book
<1>1. TypeOK /\ EntryInv(e)
  BY DEF IInv
<1>2. \A d \in Entries \ {e} : SameEntry(d)
  BY <1>1 DEF BrokerFill, BrokerCancel, BrokerEnd, SameEntry, TypeOK
<1>3. /\ state'[e][0] = "none" <=> state[e][0] = "none"
      /\ e \in lost' <=> e \in lost
      /\ Busy(e)' <=> Busy(e)
      /\ store'[e] = store[e]
  BY <1>1 DEF BrokerFill, BrokerCancel, BrokerEnd, Busy, LiveState, TypeOK
<1>4. CASE BrokerCancel(e, n) \/ BrokerEnd(e, n)
  <2>1. Still(e)
    BY <1>4 DEF BrokerCancel, BrokerEnd, Still
  <2> QED
    BY <1>2, <1>3, <2>1, Quiet
<1>5. CASE BrokerFill(e, n)
  <2>1. /\ state[e][n] \in LiveState /\ filled' = [filled EXCEPT ![e][n] = filled[e][n] + 1]
        /\ UNCHANGED <<manager, store, lost>>
    BY <1>5 DEF BrokerFill
  <2>2. /\ filled[e] \in [Attempts -> 0..Quantity] /\ filled[e][n] < Quantity
        /\ filled'[e] = [filled[e] EXCEPT ![n] = filled[e][n] + 1]
    BY <1>1, <2>1 DEF TypeOK, EntryInv, BookConsistent
  <2>3. e \in lost \/ Busy(e)
    <3>1. Exposed(e, n) /\ ~(store[e][n] > 0)
      BY <1>1, <2>1 DEF Exposed, LiveState, EntryInv, Exact
    <3> QED
      BY <1>1, <3>1 DEF Busy, EntryInv, InCustody
  <2>4. state[e][0] # "none"
    BY <1>1, <2>1, Unplaced DEF LiveState
  <2>5. Phase(e) \in {"working", "lost"} /\ Phase(e)' = Phase(e)
    <3>1. PhaseValue(e) /\ PhaseValue(e)'
      BY AllValues, AllValuesNext DEF Values
    <3> QED
      BY <1>3, <2>3, <2>4, <3>1 DEF PhaseValue
  <2>6. Held(e)' = Held(e)
    <3>1. HeldValue(e) /\ HeldValue(e)'
      BY AllValues, AllValuesNext DEF Values
    <3> QED
      BY <1>3, <3>1 DEF HeldValue, Holds
  <2>7. BoughtValue(e) /\ BoughtValue(e)'
    BY AllValues, AllValuesNext DEF Values
  <2>8. BoughtBy(e)' = {n} \X (1..(filled[e][n] + 1))
    BY <2>2, <2>7 DEF BoughtValue
  <2>9. BoughtBy(e) = {n} \X (1..filled[e][n]) /\ Cardinality(BoughtBy(e)) = filled[e][n]
    <3>1. CASE filled[e][n] > 0
      BY <2>7, <3>1 DEF BoughtValue
    <3>2. CASE filled[e][n] = 0
      <4>1. \A m \in Attempts : filled[e][m] = 0
        <5>1. ASSUME NEW m \in Attempts, filled[e][m] > 0 PROVE FALSE
          <6>1. m # n
            BY <3>2, <5>1
          <6>2. filled'[e][m] > 0 /\ filled'[e][n] > 0
            BY <2>2, <5>1, <6>1
          <6>3. state[e][m] # "none" /\ ~Dead(e, m) /\ state[e][n] # "none" /\ ~Dead(e, n)
            BY <1>1, <2>1, <5>1 DEF EntryInv, BookConsistent, Dead, LiveState
          <6> QED
            BY <1>1, <6>1, <6>3 DEF EntryInv, Superseded
        <5> QED
          BY <2>2, <5>1
      <4>2. BoughtBy(e) = {}
        BY <2>7, <4>1 DEF BoughtValue
      <4> QED
        BY <3>2, <4>2, FS_EmptySet
    <3> QED
      BY <2>2, <3>1, <3>2
  <2>10. Buys(e)
    <3>0. filled[e][n] \in 0..Quantity
      BY <2>2
    <3>1. <<n, filled[e][n] + 1>> \in (Attempts \X (1..Quantity)) \ BoughtBy(e)
      BY <2>2, <2>9, <3>0, LifecycleAssumption
    <3>2. BoughtBy(e)' = BoughtBy(e) \union {<<n, filled[e][n] + 1>>}
      BY <2>2, <2>8, <2>9
    <3> QED
      BY <2>2, <2>5, <2>6, <2>9, <3>1, <3>2 DEF Buys
  <2> QED
    BY <1>2, <2>10, Local DEF Moves
<1> QED
  BY <1>4, <1>5

-----------------------------------------------------------------------------
(* The manager.  An entry it follows or handles is working.                *)
LEMMA Followed ==
  ASSUME NEW e \in Entries, IInv, Busy(e)
  PROVE  Phase(e) = "working" /\ e \notin lost /\ state[e][0] # "none"
<1>1. TypeOK /\ EntryInv(e)
  BY DEF IInv
<1>2. e \notin lost /\ state[e][0] # "none"
  BY <1>1, Unplaced DEF Busy, EntryInv, Bookkeeping
<1>3. PhaseValue(e)
  BY AllValues DEF Values
<1> QED
  BY <1>2, <1>3 DEF PhaseValue

LEMMA PolledBusy ==
  ASSUME NEW e \in Entries, IInv, Checking(e)
  PROVE  e \in orders /\ doing[e] = "nothing" /\ Busy(e)
BY DEF IInv, EntryInv, Bookkeeping, Checking, Busy

(* It goes on: a poll that decides nothing, a cancel, a replacement.       *)
LEMMA PollGoesOn ==
  ASSUME NEW e \in Entries, IInv, IInv',
         \/ PollRaises(e) \/ PollUnexpected(e) \/ PollReplace(e)
         \/ PollGiveUp(e) \/ PollReprice(e) \/ PollWait(e)
  PROVE  Refines
<1> USE DEF manager, wo, book, Pop, Await
<1>1. TypeOK
  BY DEF IInv
<1>2. Checking(e)
  BY DEF PollRaises, PollUnexpected, PollReplace, PollGiveUp, PollReprice, PollWait
<1>3. Busy(e)
  BY <1>2, PolledBusy
<1>4. /\ UNCHANGED <<state, filled, store, lost>> /\ todo' \subseteq todo
      /\ \A d \in Entries \ {e} : /\ d \in orders' <=> d \in orders
                                 /\ doing'[d] = doing[d] /\ attempts'[d] = attempts[d]
  BY <1>1, <1>2 DEF Checking, PollRaises, PollUnexpected, PollReplace, PollGiveUp, PollReprice,
                    PollWait, TypeOK
<1>5. Busy(e)'
  <2>1. CASE PollReplace(e) \/ PollGiveUp(e) \/ PollReprice(e)
    BY <1>1, <2>1 DEF PollReplace, PollGiveUp, PollReprice, Busy, TypeOK
  <2>2. CASE PollRaises(e) \/ PollUnexpected(e) \/ PollWait(e)
    BY <1>3, <2>2 DEF PollRaises, PollUnexpected, PollWait, Busy
  <2> QED
    BY <2>1, <2>2
<1>6. \A d \in Entries \ {e} : SameEntry(d)
  BY <1>4 DEF SameEntry
<1> QED
  BY <1>3, <1>4, <1>5, <1>6, Quiet DEF Still

LEMMA CallGoesOn ==
  ASSUME NEW e \in Entries, IInv, IInv',
         \/ CancelAccepted(e) \/ CancelRefused(e) \/ CancelRaises(e)
         \/ QuotePriced(e) \/ PlaceAccepted(e)
  PROVE  Refines
<1> USE FirstAttempt DEF manager, wo, book, Await
<1>1. TypeOK /\ EntryInv(e)
  BY DEF IInv
<1>2. Busy(e)
  BY DEF CancelAccepted, CancelRefused, CancelRaises, QuotePriced, PlaceAccepted, Busy
<1>3. /\ UNCHANGED <<filled, store, lost, todo>>
      /\ \A d \in Entries \ {e} : /\ d \in orders' <=> d \in orders
                                 /\ doing'[d] = doing[d] /\ attempts'[d] = attempts[d]
  BY <1>1 DEF CancelAccepted, CancelRefused, CancelRaises, CancelReturns, QuotePriced,
              PlaceAccepted, TypeOK
<1>4. /\ \A d \in Entries \ {e} : state'[d] = state[d]
      /\ state'[e][0] = "none" <=> state[e][0] = "none"
  <2>1. CASE CancelAccepted(e) \/ CancelRaises(e)
    BY <1>1, <2>1 DEF CancelAccepted, CancelRaises, CancelReaches, LiveState, TypeOK
  <2>2. CASE CancelRefused(e) \/ QuotePriced(e)
    BY <2>2 DEF CancelRefused, QuotePriced
  <2>3. CASE PlaceAccepted(e)
    BY <1>1, <2>3 DEF PlaceAccepted, TypeOK, Attempts
  <2> QED
    BY <2>1, <2>2, <2>3
<1>5. Busy(e)'
  <2>1. CASE CancelAccepted(e) \/ CancelRefused(e) \/ CancelRaises(e)
    BY <1>1, <2>1 DEF CancelAccepted, CancelRefused, CancelRaises, Busy, EntryInv, Bookkeeping
  <2>2. CASE QuotePriced(e) \/ PlaceAccepted(e)
    BY <1>1, <2>2 DEF QuotePriced, PlaceAccepted, Busy, TypeOK
  <2> QED
    BY <2>1, <2>2
<1>6. \A d \in Entries \ {e} : SameEntry(d)
  BY <1>3, <1>4 DEF SameEntry
<1> QED
  BY <1>2, <1>3, <1>4, <1>5, <1>6, Quiet DEF Still

-----------------------------------------------------------------------------
(* It is settled: what the order bought becomes the position.              *)
LEMMA PromoteRefines ==
  ASSUME NEW e \in Entries, IInv, IInv', PollFilled(e) \/ PollPartial(e)
  PROVE  Refines
<1> USE FirstAttempt DEF manager, wo, book, Pop, Discard
<1> DEFINE n == attempts[e]
<1>1. TypeOK /\ EntryInv(e) /\ n \in Attempts
  BY DEF IInv, TypeOK
<1>2. Checking(e) /\ Promote(e)
  BY DEF PollFilled, PollPartial
<1>3. Busy(e) /\ doing[e] = "nothing"
  BY <1>2, PolledBusy
<1>4. filled[e][n] > 0 /\ filled[e][n] \in 0..Quantity
  <2>1. filled[e][n] \in 0..Quantity
    <3>1. filled[e] \in [Attempts -> 0..Quantity]
      BY <1>1 DEF TypeOK
    <3> QED
      BY <1>1, <3>1
  <2>2. CASE PollFilled(e)
    BY <1>1, <2>1, <2>2, LifecycleAssumption DEF PollFilled, StateOf, EntryInv, BookConsistent
  <2>3. CASE PollPartial(e)
    BY <2>1, <2>3 DEF PollPartial, FilledOf
  <2> QED
    BY <2>1, <2>2, <2>3
<1>5. /\ UNCHANGED <<state, filled, lost, doing>> /\ e \notin orders'
      /\ store'[e][n] = filled[e][n]
      /\ \A d \in Entries \ {e} : SameEntry(d)
  BY <1>1, <1>2 DEF Checking, Promote, FilledOf, SameEntry, TypeOK
<1>6. /\ PhaseValue(e)' /\ HeldValue(e)' /\ BoughtValue(e)
  BY AllValues, AllValuesNext DEF Values
<1>7. Phase(e) = "working" /\ e \notin lost /\ state[e][0] # "none"
  BY <1>3, Followed
<1>8. Phase(e)' = "open"
  <2>1. Holds(e)' /\ ~Busy(e)'
    BY <1>1, <1>3, <1>4, <1>5 DEF Holds, Busy
  <2> QED
    BY <1>5, <1>6, <1>7, <2>1 DEF PhaseValue
<1>9. BoughtBy(e) # {} /\ Cardinality(BoughtBy(e)) = filled[e][n]
  <2>1. BoughtBy(e) = {n} \X (1..filled[e][n]) /\ Cardinality(BoughtBy(e)) = filled[e][n]
    BY <1>1, <1>4, <1>6 DEF BoughtValue
  <2>2. <<n, 1>> \in {n} \X (1..filled[e][n])
    BY <1>4
  <2> QED
    BY <2>1, <2>2
<1>10. Held(e)' = filled[e][n] /\ BoughtBy(e)' = BoughtBy(e)
  <2>1. BoughtBy(e)' = BoughtBy(e)
    BY <1>5 DEF BoughtBy
  <2> QED
    BY <1>1, <1>4, <1>5, <1>6, <2>1 DEF HeldValue
<1> HIDE DEF n
<1>11. Settles(e)
  BY <1>7, <1>8, <1>9, <1>10 DEF Settles
<1> QED
  BY <1>5, <1>11, Local DEF Moves

(* It ends with nothing bought: cancelled, or not placed again.            *)
LEMMA EndRefines ==
  ASSUME NEW e \in Entries, IInv, IInv', PollEnded(e) \/ QuoteMissing(e) \/ PlaceRefused(e)
  PROVE  Refines
<1> USE FirstAttempt DEF manager, wo, book, Pop, Discard, Await
<1>1. TypeOK /\ EntryInv(e)
  BY DEF IInv
<1>2. Busy(e) /\ filled[e][attempts[e]] = 0 /\ (PollEnded(e) => doing[e] = "nothing")
  <2>1. CASE PollEnded(e)
    BY <2>1, PolledBusy DEF PollEnded, FilledOf
  <2>2. CASE QuoteMissing(e) \/ PlaceRefused(e)
    BY <1>1, <2>2 DEF QuoteMissing, PlaceRefused, Busy, EntryInv, Replacing, Dead,
                      PollEnded, Checking, Idle
  <2> QED
    BY <2>1, <2>2
<1>3. \A n \in Attempts : filled[e][n] = 0
  <2>1. ASSUME NEW n \in Attempts PROVE filled[e][n] = 0
    <3>0. n \in Nat /\ attempts[e] \in Nat
      BY <1>1 DEF TypeOK
    <3>1. n < attempts[e] \/ n = attempts[e] \/ attempts[e] < n
      BY <3>0
    <3> QED
      BY <1>1, <1>2, <3>1, OnlyLastBuys DEF Busy, Dead
  <2> QED
    BY <2>1
<1>4. /\ UNCHANGED <<state, filled, store, lost>> /\ ~Busy(e)'
      /\ \A d \in Entries \ {e} : SameEntry(d)
  <2>1. CASE PollEnded(e)
    BY <1>1, <1>2, <2>1 DEF PollEnded, Checking, Busy, SameEntry, TypeOK
  <2>2. CASE QuoteMissing(e) \/ PlaceRefused(e)
    BY <1>1, <2>2 DEF QuoteMissing, PlaceRefused, Busy, SameEntry, TypeOK, EntryInv, Replacing
  <2> QED
    BY <2>1, <2>2
<1>5. PhaseValue(e)' /\ BoughtValue(e)
  BY AllValues, AllValuesNext DEF Values
<1>6. Phase(e) = "working" /\ e \notin lost /\ state[e][0] # "none"
  BY <1>2, Followed
<1>7. Phase(e)' = "ended"
  <2>0. Exact(e)
    BY ONLY <1>1 DEF EntryInv
  <2>1. ASSUME NEW n \in Attempts, store[e][n] > 0 PROVE FALSE
    <3>1. store[e][n] = filled[e][n]
      BY ONLY <2>0, <2>1 DEF Exact
    <3>2. store[e][n] = 0
      BY ONLY <1>3, <3>1
    <3> QED
      BY ONLY <2>1, <3>2
  <2>2. ~Holds(e)'
    BY <1>4, <2>1 DEF Holds
  <2> QED
    BY <1>4, <1>5, <1>6, <2>2 DEF PhaseValue
<1>8. Ends(e)
  BY <1>3, <1>4, <1>5, <1>6, <1>7, StillSame DEF Ends, Still, BoughtValue
<1> QED
  BY <1>4, <1>8, Local DEF Moves

(* It is lost in one of the named faults.                                  *)
LEMMA LoseRefines ==
  ASSUME NEW e \in Entries, IInv, IInv', PollEmpty(e) \/ PlaceUnanswered(e)
  PROVE  Refines
<1> USE FirstAttempt DEF manager, wo, book, Pop, Discard, Await
<1>1. TypeOK /\ EntryInv(e)
  BY DEF IInv
<1>2. Busy(e)
  <2>1. CASE PollEmpty(e)
    BY <2>1, PolledBusy DEF PollEmpty
  <2>2. CASE PlaceUnanswered(e)
    BY <2>2 DEF PlaceUnanswered, Busy
  <2> QED
    BY <2>1, <2>2
<1>3. /\ Still(e) /\ e \in lost' /\ \A d \in Entries \ {e} : SameEntry(d)
  BY <1>1 DEF PollEmpty, PlaceUnanswered, Checking, Still, SameEntry, TypeOK
<1>4. Phase(e) = "working"
  BY <1>2, Followed
<1>5. Phase(e)' = "lost"
  <2>1. PhaseValue(e)'
    BY AllValuesNext DEF Values
  <2> QED
    BY <1>3, <2>1 DEF PhaseValue
<1>6. Loses(e)
  BY <1>3, <1>4, <1>5, StillSame DEF Loses
<1> QED
  BY <1>3, <1>6, Local DEF Moves

(* The clock, and the start of a tick, are no steps of any entry.          *)
LEMMA ClockRefines ==
  ASSUME IInv, IInv', StartTick \/ ClockTick \/ UNCHANGED vars
  PROVE  Refines
<1>1. UNCHANGED <<book, orders, doing, store, lost>>
  BY DEF StartTick, ClockTick, vars, manager
<1>2. \A e \in Entries : Same(e)
  BY <1>1, QuietSame DEF Still, Busy, book
<1> QED
  BY <1>2, Stutter DEF Refines

-----------------------------------------------------------------------------
LEMMA StepRefines == IInv /\ IInv' /\ [Next]_vars => [EC!CustodyNext]_(EC!custodyVars)
<1> SUFFICES ASSUME IInv, IInv', [Next]_vars PROVE Refines
  BY DEF Refines
<1>1. ASSUME NEW e \in Entries, Track(e) \/ TrackNothing(e) PROVE Refines
  BY <1>1, PlacedRefines
<1>2. ASSUME NEW e \in Entries, CheckOrder(e) PROVE Refines
  BY <1>2, PollGoesOn, PromoteRefines, EndRefines, LoseRefines DEF CheckOrder
<1>3. ASSUME NEW e \in Entries, FinishCall(e) PROVE Refines
  BY <1>3, CallGoesOn, EndRefines, LoseRefines DEF FinishCall
<1>4. ASSUME NEW e \in Entries, NEW n \in Attempts,
             BrokerFill(e, n) \/ BrokerCancel(e, n) \/ BrokerEnd(e, n)
      PROVE  Refines
  BY <1>4, BrokerRefines
<1>5. CASE StartTick \/ ClockTick \/ UNCHANGED vars
  BY <1>5, ClockRefines
<1> QED
  BY <1>1, <1>2, <1>3, <1>4, <1>5 DEF Next, Manager, Broker

LEMMA InitRefines == Init => EC!CustodyInit
<1> SUFFICES ASSUME Init PROVE EC!CustodyInit
  OBVIOUS
<1>1. Values
  BY InitInv, AllValues
<1>2. \A e \in Entries : Phase(e) = "idle" /\ BoughtBy(e) = {} /\ Held(e) = 0
  BY <1>1, FirstAttempt DEF Init, Values, PhaseValue, HeldValue, BoughtValue, Holds
<1> QED
  BY <1>2 DEF EC!CustodyInit

(* The manager keeps the promise of EntryCustody, for any number of        *)
(* entries: each is settled once, with all it bought, and buys no more     *)
(* than was approved, or is lost in a named fault.                         *)
THEOREM LifecycleImplementsCustody == Spec => ImplementsCustody
<1>1. IInv /\ [Next]_vars => IInv'
  BY NextInv
<1> QED
  BY <1>1, InitInv, InitRefines, StepRefines, PTL DEF Spec, ImplementsCustody, EC!CustodySpec
=============================================================================
