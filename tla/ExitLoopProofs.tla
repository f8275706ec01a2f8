--------------------------- MODULE ExitLoopProofs ---------------------------
(***************************************************************************)
(* Theorems about ExitLoop, for any positions, quantities, reasons and     *)
(* faults: what the runs check of its safety holds of every instance.      *)
(*                                                                         *)
(* The argument: a position with one writer, promoted once, is in the      *)
(* store exactly while it is being worked on, so the copies of the         *)
(* snapshot agree with it until its own evaluation ends; and a sell is     *)
(* known by its position and its reason.                                   *)
(***************************************************************************)
EXTENDS ExitLoop, FiniteSetTheorems, TLAPS

Ledger ==
  /\ \A p \in Positions : buy[p] = "none" => bought[p] = 0
  /\ \A s \in sells : s.ref = RefId(s.pos, s.reason)
  /\ RetryIdempotent

Snapshot ==
  /\ \A p \in todo : copyQty[p] > 0
  /\ stage # "idle" => copyQty[cur] > 0 /\ cur \notin todo

(* The state of a position that only _promote and the loop write.          *)
Single(p) ==
  /\ buy[p] # "working"
  /\ buy[p] = "none" => tracked[p] = 0
  /\ tracked[p] = 0 => seen[p] = Unknown
  /\ tracked[p] > 0 => peak[p] = seen[p]
  /\ recorded[p] = IF Opened(p) /\ tracked[p] = 0 THEN 1 ELSE 0
  /\ Opened(p) /\ tracked[p] = 0 => p \in refused \/ \E s \in sells : s.pos = p
  /\ p \in todo => tracked[p] > 0 /\ copyPeak[p] = peak[p]
  /\ stage # "idle" /\ p = cur => tracked[p] > 0

IInv == TypeOK /\ Ledger /\ Snapshot /\ \A p \in OneWriter : Single(p)

LEMMA InitInv == Init => IInv
<1> SUFFICES ASSUME Init PROVE IInv
  OBVIOUS
<1> USE ExitLoopAssumption DEF Unknown, NoExit, Premium
<1>1. TypeOK
  <2>1. /\ buy \in [Positions -> {"none", "working", "resolved"}]
        /\ bought \in [Positions -> 0..Quantity]
    BY DEF Init
  <2>2. /\ tracked \in [Positions -> 0..Quantity] /\ copyQty \in [Positions -> 0..Quantity]
        /\ recorded \in [Positions -> Nat] /\ faults \in 0..MaxFaults
    BY <2>1 DEF Init
  <2>3. /\ peak \in [Positions -> Premium \union {Unknown}] /\ seen = peak /\ copyPeak = peak
        /\ signal \in [Positions -> Reasons \union {NoExit}]
    BY DEF Init
  <2>4. cur \in Positions /\ reason \in Reasons
    BY DEF Init
  <2>5. account \in Nat
    BY FS_CardinalityType DEF Init
  <2>6. todo = {} /\ sells = {} /\ refused = {} /\ stage = "idle"
    BY DEF Init
  <2> QED
    BY <2>1, <2>2, <2>3, <2>4, <2>5, <2>6 DEF TypeOK
<1>2. Ledger /\ Snapshot
  BY DEF Init, Ledger, Snapshot, RetryIdempotent
<1>3. \A p \in OneWriter : Single(p)
  BY DEF Init, OneWriter, Single, Opened
<1> QED
  BY <1>1, <1>2, <1>3 DEF IInv

-----------------------------------------------------------------------------
(* Steps of the process and the market.                                    *)

LEMMA PromoteStep ==
  ASSUME IInv, NEW p \in Positions, NEW q \in 1..Quantity,
         PromoteNew(p, q) \/ PromoteAdopted(p, q)
  PROVE  IInv'
<1> USE ExitLoopAssumption DEF IInv, Premium, Unknown, store, loop
<1>1. /\ buy' = [buy EXCEPT ![p] = "resolved"] /\ bought' = [bought EXCEPT ![p] = q]
      /\ account' = account + (q - bought[p])
      /\ tracked' = [tracked EXCEPT ![p] = q] /\ peak' = [peak EXCEPT ![p] = Unknown]
      /\ UNCHANGED <<seen, signal, loop, sells, recorded, refused, faults>>
  BY DEF PromoteNew, PromoteAdopted, Promote
<1>2. bought[p] \in 0..Quantity /\ q >= bought[p]
  BY DEF PromoteNew, PromoteAdopted, TypeOK, Ledger
<1>3. TypeOK'
  BY <1>1, <1>2 DEF TypeOK
<1>4. Ledger'
  BY <1>1 DEF Ledger, RetryIdempotent, TypeOK
<1>5. Snapshot'
  BY <1>1 DEF Snapshot
<1>6. ASSUME NEW o \in OneWriter PROVE Single(o)'
  <2>1. CASE o = p
    <3>1. buy[p] = "none"
      BY <2>1 DEF PromoteNew, PromoteAdopted, OneWriter, Single
    <3>2. Single(p)
      BY <2>1
    <3> QED
      BY <1>1, <2>1, <3>1, <3>2 DEF Single, Opened, TypeOK
  <2>2. CASE o # p
    <3>1. Single(o) /\ o \in Positions
      BY DEF OneWriter
    <3>2. /\ buy'[o] = buy[o] /\ tracked'[o] = tracked[o] /\ peak'[o] = peak[o]
          /\ UNCHANGED <<seen, loop, sells, recorded, refused>>
      BY <1>1, <2>2, <3>1 DEF TypeOK
    <3> QED
      BY <3>1, <3>2 DEF Single, Opened
  <2> QED
    BY <2>1, <2>2
<1> QED
  BY <1>3, <1>4, <1>5, <1>6

LEMMA MarketStep == ASSUME IInv, NEW p \in Positions, MarketMoves(p) PROVE IInv'
<1> USE DEF IInv, store, loop, book
<1>1. PICK r \in Reasons \union {NoExit} : signal' = [signal EXCEPT ![p] = r]
  BY DEF MarketMoves
<1>2. UNCHANGED <<buy, bought, store, seen, loop, book, recorded, refused, faults>>
  BY DEF MarketMoves
<1>3. TypeOK'
  BY <1>1, <1>2 DEF TypeOK
<1>4. Ledger' /\ Snapshot' /\ \A o \in OneWriter : Single(o)'
  BY <1>2 DEF Ledger, RetryIdempotent, Snapshot, Single, Opened
<1> QED
  BY <1>3, <1>4

-----------------------------------------------------------------------------
(* Steps of a tick.                                                        *)

LEMMA StartTickStep == ASSUME IInv, StartTick PROVE IInv'
<1> USE DEF IInv, store, book
<1>1. /\ stage = "idle" /\ todo' = {p \in Positions : tracked[p] > 0}
      /\ copyQty' = tracked /\ copyPeak' = peak
      /\ UNCHANGED <<buy, bought, store, seen, signal, stage, cur, reason, book,
                     recorded, refused, faults>>
  BY DEF StartTick
<1>2. TypeOK'
  BY <1>1 DEF TypeOK
<1>3. Ledger' /\ Snapshot'
  BY <1>1 DEF Ledger, RetryIdempotent, Snapshot
<1>4. \A o \in OneWriter : Single(o)'
  BY <1>1 DEF Single, Opened, OneWriter
<1> QED
  BY <1>2, <1>3, <1>4

LEMMA SkipStep == ASSUME IInv, NEW p \in Positions, Skip(p) PROVE IInv'
<1> USE ExitLoopAssumption DEF IInv, store, book, Fault
<1>1. /\ stage = "idle" /\ todo' = todo \ {p} /\ faults < MaxFaults /\ faults' = faults + 1
      /\ UNCHANGED <<buy, bought, store, seen, signal, copyQty, copyPeak, stage, cur,
                     reason, book, recorded, refused>>
  BY DEF Skip
<1>2. TypeOK'
  BY <1>1 DEF TypeOK
<1>3. Ledger' /\ Snapshot'
  BY <1>1 DEF Ledger, RetryIdempotent, Snapshot
<1>4. \A o \in OneWriter : Single(o)'
  BY <1>1 DEF Single, Opened
<1> QED
  BY <1>2, <1>3, <1>4

LEMMA QuoteStep ==
  ASSUME IInv, NEW p \in Positions, NEW m \in Premium, Quote(p, m)
  PROVE  IInv'
<1> USE ExitLoopAssumption DEF IInv, Premium, Unknown, NoFault
<1> DEFINE high(x) == IF m > x THEN m ELSE x
<1>1. /\ stage = "idle" /\ stage' = "context" /\ p \in todo /\ todo' = todo \ {p}
      /\ cur' = p /\ seen' = [seen EXCEPT ![p] = high(seen[p])]
      /\ copyPeak' = [copyPeak EXCEPT ![p] = high(copyPeak[p])]
      /\ UNCHANGED <<buy, bought, signal, copyQty, reason, book, recorded, refused, faults>>
  BY DEF Quote, Observe
<1>2. /\ m > copyPeak[p] => tracked' = [tracked EXCEPT ![p] = copyQty[p]]
                            /\ peak' = [peak EXCEPT ![p] = m]
      /\ ~(m > copyPeak[p]) => UNCHANGED <<tracked, peak>>
  BY DEF Quote, store
<1>3. copyQty[p] > 0 /\ copyQty[p] \in 0..Quantity
  BY <1>1 DEF Snapshot, TypeOK
<1>4. /\ seen[p] \in Premium \union {Unknown} /\ copyPeak[p] \in Premium \union {Unknown}
      /\ high(seen[p]) \in Premium \union {Unknown}
      /\ high(copyPeak[p]) \in Premium \union {Unknown}
  BY DEF TypeOK
<1> HIDE DEF high
<1>5. TypeOK'
  <2>1. tracked' \in [Positions -> 0..Quantity] /\ peak' \in [Positions -> Premium \union {Unknown}]
    BY <1>2, <1>3 DEF TypeOK
  <2>2. /\ seen' \in [Positions -> Premium \union {Unknown}]
        /\ copyPeak' \in [Positions -> Premium \union {Unknown}]
    BY <1>1, <1>4 DEF TypeOK
  <2> QED
    BY <1>1, <2>1, <2>2 DEF TypeOK, book
<1>6. Ledger' /\ Snapshot'
  BY <1>1, <1>3 DEF Ledger, RetryIdempotent, Snapshot, book
<1>7. ASSUME NEW o \in OneWriter PROVE Single(o)'
  <2>1. Single(o) /\ o \in Positions
    BY DEF OneWriter
  <2>2. CASE o = p
    <3>1. /\ tracked[p] > 0 /\ copyPeak[p] = peak[p] /\ peak[p] = seen[p]
          /\ buy[p] = "resolved" /\ recorded[p] = 0
      BY <1>1, <2>1, <2>2 DEF Single, Opened, TypeOK
    <3>2. tracked'[p] > 0
      BY <1>2, <1>3, <3>1 DEF TypeOK
    <3>3. peak'[p] = high(peak[p]) /\ seen'[p] = high(seen[p])
      BY <1>1, <1>2, <1>4, <3>1 DEF TypeOK, high
    <3> QED
      BY <1>1, <2>2, <3>1, <3>2, <3>3 DEF Single, Opened, book
  <2>3. CASE o # p
    <3>1. /\ tracked'[o] = tracked[o] /\ peak'[o] = peak[o] /\ seen'[o] = seen[o]
          /\ copyPeak'[o] = copyPeak[o]
      BY <1>1, <1>2, <2>1, <2>3 DEF TypeOK
    <3> QED
      BY <1>1, <2>1, <2>3, <3>1 DEF Single, Opened, book
  <2> QED
    BY <2>2, <2>3
<1> QED
  BY <1>5, <1>6, <1>7

LEMMA DecideStep == ASSUME IInv, Hold \/ Trigger PROVE IInv'
<1> USE DEF IInv, store, book
<1>1. /\ stage = "context" /\ stage' \in {"idle", "placing"} /\ reason' \in Reasons
      /\ UNCHANGED <<buy, bought, store, seen, signal, todo, copyQty, copyPeak, cur,
                     book, recorded, refused, faults>>
  BY DEF Hold, Trigger, TypeOK
<1>2. TypeOK'
  BY <1>1 DEF TypeOK
<1>3. Ledger' /\ Snapshot'
  BY <1>1 DEF Ledger, RetryIdempotent, Snapshot
<1>4. \A o \in OneWriter : Single(o)'
  BY <1>1 DEF Single, Opened
<1> QED
  BY <1>2, <1>3, <1>4

-----------------------------------------------------------------------------
(* The sell.                                                               *)

(* What the broker's book may have become when the call is over.           *)
LEMMA BookStep ==
  ASSUME IInv, stage = "placing", UNCHANGED book \/ Reaches
  PROVE  /\ account' \in Nat
         /\ sells \subseteq sells'
         /\ \A s \in sells' : /\ [pos |-> s.pos, reason |-> s.reason, qty |-> s.qty] \in Sells
                             /\ s.ref = RefId(s.pos, s.reason)
         /\ RetryIdempotent'
<1> USE ExitLoopAssumption DEF IInv
<1>1. /\ account \in Nat /\ cur \in Positions /\ reason \in Reasons
      /\ copyQty[cur] \in 1..Quantity
      /\ \A s \in sells : /\ [pos |-> s.pos, reason |-> s.reason, qty |-> s.qty] \in Sells
                          /\ s.ref = RefId(s.pos, s.reason)
      /\ RetryIdempotent
  BY DEF TypeOK, Snapshot, Ledger
<1>2. CASE UNCHANGED book
  BY <1>1, <1>2 DEF book, RetryIdempotent
<1>3. CASE Reaches /\ ~UNCHANGED book
  <2>1. /\ account >= copyQty[cur] /\ account' = account - copyQty[cur]
        /\ sells' = sells \union {ThisSell} /\ ~Known
    BY <1>3 DEF Reaches
  <2>2. account' \in Nat
    BY <1>1, <2>1
  <2>3. /\ ThisSell.pos = cur /\ ThisSell.reason = reason
        /\ ThisSell.qty = copyQty[cur] /\ ThisSell.ref = RefId(cur, reason)
    BY DEF ThisSell
  <2>4. /\ [pos |-> ThisSell.pos, reason |-> ThisSell.reason, qty |-> ThisSell.qty] \in Sells
        /\ ThisSell.ref = RefId(ThisSell.pos, ThisSell.reason)
    BY <1>1, <2>3 DEF Sells
  <2>5. \A s \in sells : ~(s.pos = cur /\ s.reason = reason)
    BY <1>1, <2>1, <2>3 DEF Known
  <2> HIDE DEF IInv
  <2>6. RetryIdempotent'
    BY <1>1, <2>1, <2>3, <2>5 DEF RetryIdempotent
  <2> QED
    BY <1>1, <2>1, <2>2, <2>4, <2>6
<1> QED
  BY <1>2, <1>3

(* A sell that was taken is in the book, now or from an earlier attempt.   *)
LEMMA Taken == ASSUME IInv, Reaches PROVE \E s \in sells' : s.pos = cur
<1>1. CASE Known
  <2>1. PICK s \in sells : s.ref = ThisSell.ref
    BY <1>1 DEF Known
  <2>2. s.ref = <<s.pos, s.reason>>
    BY DEF IInv, Ledger, RefId
  <2>3. ThisSell.ref = <<cur, reason>>
    BY DEF RefId, ThisSell
  <2>4. <<s.pos, s.reason>> = <<cur, reason>>
    BY <2>1, <2>2, <2>3
  <2>5. s.pos = cur
    BY <2>4, Zenon
  <2>6. sells' = sells
    BY <1>1 DEF Reaches, book
  <2> QED
    BY <2>5, <2>6
<1>2. CASE ~Known
  <2>1. ThisSell \in sells' /\ ThisSell.pos = cur
    BY <1>2 DEF Reaches, ThisSell
  <2> QED
    BY <2>1
<1> QED
  BY <1>1, <1>2

(* The position leaves the store after a call that did not raise.          *)
LEMMA ForgetStep ==
  ASSUME IInv, stage = "placing", Forget, UNCHANGED book \/ Reaches,
         faults' \in 0..MaxFaults,
         refused \subseteq refused', refused' \subseteq Positions,
         cur \in refused' \/ \E s \in sells' : s.pos = cur
  PROVE  IInv'
<1> USE ExitLoopAssumption DEF IInv, Premium, Unknown
<1>1. /\ tracked' = [tracked EXCEPT ![cur] = 0] /\ peak' = [peak EXCEPT ![cur] = Unknown]
      /\ seen' = [seen EXCEPT ![cur] = Unknown]
      /\ recorded' = [recorded EXCEPT ![cur] = @ + 1] /\ stage' = "idle"
      /\ UNCHANGED <<buy, bought, signal, todo, copyQty, copyPeak, cur, reason>>
  BY DEF Forget
<1>2. /\ account' \in Nat /\ sells \subseteq sells'
      /\ \A s \in sells' : /\ [pos |-> s.pos, reason |-> s.reason, qty |-> s.qty] \in Sells
                           /\ s.ref = RefId(s.pos, s.reason)
      /\ RetryIdempotent'
  BY BookStep
<1>3. TypeOK'
  BY <1>1, <1>2 DEF TypeOK
<1>4. Ledger' /\ Snapshot'
  BY <1>1, <1>2 DEF Ledger, Snapshot
<1>5. ASSUME NEW o \in OneWriter PROVE Single(o)'
  <2>1. Single(o) /\ o \in Positions
    BY DEF OneWriter
  <2>2. CASE o = cur
    <3>1. buy[o] = "resolved" /\ recorded[o] = 0 /\ o \notin todo
      BY <2>1, <2>2 DEF Single, Snapshot, Opened, TypeOK
    <3>2. tracked'[o] = 0 /\ seen'[o] = Unknown /\ recorded'[o] = 1
      BY <1>1, <2>1, <2>2, <3>1 DEF TypeOK
    <3> QED
      BY <1>1, <2>2, <3>1, <3>2 DEF Single, Opened
  <2>3. CASE o # cur
    <3>1. /\ tracked'[o] = tracked[o] /\ peak'[o] = peak[o] /\ seen'[o] = seen[o]
          /\ recorded'[o] = recorded[o]
      BY <1>1, <2>1, <2>3 DEF TypeOK
    <3>2. /\ UNCHANGED <<buy, todo, copyPeak, cur>> /\ stage' = "idle"
          /\ (\E s \in sells : s.pos = o) => \E s \in sells' : s.pos = o
      BY <1>1, <1>2
    <3> QED
      BY <2>1, <3>1, <3>2 DEF Single, Opened
  <2> QED
    BY <2>2, <2>3
<1> QED
  BY <1>3, <1>4, <1>5

LEMMA SellStep == ASSUME IInv, SellAnswered \/ SellRefused \/ SellRaises PROVE IInv'
<1> USE ExitLoopAssumption
<1>0. faults \in 0..MaxFaults /\ refused \subseteq Positions /\ cur \in Positions
  BY DEF IInv, TypeOK
<1>1. CASE SellAnswered
  <2>1. /\ stage = "placing" /\ faults' = faults /\ Reaches /\ Forget
        /\ refused' = refused
    BY <1>1 DEF SellAnswered, NoFault
  <2> QED
    BY <1>0, <2>1, Taken, ForgetStep
<1>2. CASE SellRefused
  <2>1. /\ stage = "placing" /\ refused' = refused \union {cur} /\ Forget
        /\ UNCHANGED book
    BY <1>2 DEF SellRefused
  <2>2. faults' \in 0..MaxFaults
    BY <1>0, <1>2 DEF SellRefused, Fault, NoFault
  <2> QED
    BY <1>0, <2>1, <2>2, ForgetStep
<1>3. CASE SellRaises
  <2> USE DEF IInv, store
  <2>1. /\ stage = "placing" /\ stage' = "idle" /\ faults < MaxFaults
        /\ faults' = faults + 1 /\ (UNCHANGED book \/ Reaches)
        /\ UNCHANGED <<buy, bought, store, seen, signal, todo, copyQty, copyPeak, cur,
                       reason, recorded, refused>>
    BY <1>3 DEF SellRaises, Fault
  <2>2. /\ account' \in Nat /\ sells \subseteq sells'
        /\ \A s \in sells' : /\ [pos |-> s.pos, reason |-> s.reason, qty |-> s.qty] \in Sells
                             /\ s.ref = RefId(s.pos, s.reason)
        /\ RetryIdempotent'
    BY <2>1, BookStep
  <2>3. TypeOK'
    BY <2>1, <2>2 DEF TypeOK
  <2>4. Ledger' /\ Snapshot'
    BY <2>1, <2>2 DEF Ledger, Snapshot
  <2>5. ASSUME NEW o \in OneWriter PROVE Single(o)'
    <3>1. Single(o)
      OBVIOUS
    <3>2. (\E s \in sells : s.pos = o) => \E s \in sells' : s.pos = o
      BY <2>2
    <3> QED
      BY <2>1, <3>1, <3>2 DEF Single, Opened
  <2> QED
    BY <2>3, <2>4, <2>5
<1> QED
  BY <1>1, <1>2, <1>3

-----------------------------------------------------------------------------
LEMMA NextInv == IInv /\ [Next]_vars => IInv'
<1> SUFFICES ASSUME IInv, [Next]_vars PROVE IInv'
  OBVIOUS
<1>1. ASSUME NEW p \in Positions, NEW q \in 1..Quantity, PromoteNew(p, q) \/ PromoteAdopted(p, q)
      PROVE  IInv'
  BY <1>1, PromoteStep
<1>2. ASSUME NEW p \in Positions, MarketMoves(p) PROVE IInv'
  BY <1>2, MarketStep
<1>3. CASE StartTick
  BY <1>3, StartTickStep
<1>4. ASSUME NEW p \in Positions, Skip(p) PROVE IInv'
  BY <1>4, SkipStep
<1>5. ASSUME NEW p \in Positions, NEW m \in Premium, Quote(p, m) PROVE IInv'
  BY <1>5, QuoteStep
<1>6. CASE Hold \/ Trigger
  BY <1>6, DecideStep
<1>7. CASE SellAnswered \/ SellRefused \/ SellRaises
  BY <1>7, SellStep
<1>8. CASE UNCHANGED vars
  BY <1>8 DEF vars, store, loop, book, IInv, TypeOK, Ledger, RetryIdempotent, Snapshot,
              Single, Opened
<1> QED
  BY <1>1, <1>2, <1>3, <1>4, <1>5, <1>6, <1>7, <1>8 DEF Next, Evaluate

LEMMA Invariance == Spec => []IInv
BY InitInv, NextInv, PTL DEF Spec

(* Types: no balance at the broker ever goes below zero, no copy, quantity *)
(* or peak leaves its range.                                               *)
THEOREM TypeCorrect == Spec => []TypeOK
<1>1. IInv => TypeOK
  BY DEF IInv
<1> QED
  BY <1>1, Invariance, PTL

(* A retried exit with the same reason is one sell order at the broker,    *)
(* whatever calls failed on the way.                                       *)
THEOREM RetriesSellOnce == Spec => []RetryIdempotent
<1>1. IInv => RetryIdempotent
  BY DEF IInv, Ledger
<1> QED
  BY <1>1, Invariance, PTL

(* A position with one writer leaves the store only after its sell was     *)
(* taken or answered.                                                      *)
THEOREM NoneForgotten == Spec => []KeptUntilAnswered
<1>1. IInv => KeptUntilAnswered
  BY DEF IInv, Single, KeptUntilAnswered
<1> QED
  BY <1>1, Invariance, PTL

(* record_pnl is called once for each position that has left the store.    *)
THEOREM PnlRecordedOnce == Spec => []PnlOncePerExit
<1>1. IInv => PnlOncePerExit
  BY DEF IInv, Single, PnlOncePerExit
<1> QED
  BY <1>1, Invariance, PTL

(* The trailing stop works from the highest premium a tick has seen.       *)
THEOREM PeakRemembered == Spec => []PeakKept
<1>1. IInv => PeakKept
  BY DEF IInv, Single, PeakKept
<1> QED
  BY <1>1, Invariance, PTL
=============================================================================
