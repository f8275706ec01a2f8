--------------------------- MODULE NightlyProofs ---------------------------
(***************************************************************************)
(* Theorems about Nightly, for any tickers, days, prices and faults: the   *)
(* two captures, the replay that reads what they write and the crashes     *)
(* that cut all of them off keep the manifest behind the files.            *)
(***************************************************************************)
EXTENDS Nightly, FiniteSetTheorems, SequenceTheorems, NaturalsInduction,
        WellFoundedInduction, TLAPS

(* What StateCaptureLoop has written of the tickers it set out to write.   *)
Saved == {t \in saverSet : t \notin saverTodo}

IInv ==
  /\ CoverageBacked
  /\ saver = "tide" => saverTodo = saverSet
  /\ saver = "tickers" => \A t \in Saved : Cell(t) \in gex

LEMMA InitInv == Init => IInv
BY DEF Init, CaptureInit, IInv, CoverageBacked, Saved

LEMMA CaptureStep == IInv /\ CaptureNext => IInv'
<1> SUFFICES ASSUME IInv, CaptureNext PROVE IInv'
  OBVIOUS
<1> USE DEF IInv, CoverageBacked, Saved, Cell
<1>0. CASE FlowLogged \/ \E d \in Filled : Backfill(d)
  BY <1>0 DEF FlowLogged, Backfill
<1>1. CASE LoopFires \/ LoopWritesTide \/ LoopWritesAlerts \/ LoopRaises
  BY <1>1 DEF LoopFires, LoopWritesTide, LoopWritesAlerts, LoopRaises, disk
<1>2. CASE \E c \in loopTodo : LoopWritesGex(c) \/ LoopWritesRest(c)
  BY <1>2 DEF LoopWritesGex, LoopWritesRest
<1>3. CASE SaverFires \/ SaverRaises
  BY <1>3 DEF SaverFires, SaverRaises, disk
<1>4. CASE SaverWritesTide
  BY <1>4 DEF SaverWritesTide
<1>5. ASSUME NEW t \in saverTodo, SaverWritesTicker(t) PROVE IInv'
  BY <1>5 DEF SaverWritesTicker
<1>6. CASE SaverWritesCoverage
  BY <1>6 DEF SaverWritesCoverage
<1> QED
  BY <1>0, <1>1, <1>2, <1>3, <1>4, <1>5, <1>6 DEF CaptureNext

LEMMA NextInv == IInv /\ [Next]_vars => IInv'
<1> SUFFICES ASSUME IInv, [Next]_vars PROVE IInv'
  OBVIOUS
<1> USE DEF IInv, CoverageBacked, Saved, Cell, disk
<1>1. CASE CaptureNext
  BY <1>1, CaptureStep
<1>2. CASE BacktestFires \/ RunRaises
  BY <1>2 DEF BacktestFires, RunRaises
<1>3. CASE StepOneDay \/ Persist
  BY <1>3 DEF StepOneDay, Persist, captureVars
<1>4. CASE CaptureTime \/ ReplayTime \/ NextDay
  BY <1>4 DEF CaptureTime, ReplayTime, NextDay
<1>5. CASE Crash
  BY <1>5 DEF Crash, CaptureLost
<1>6. CASE UNCHANGED vars
  BY <1>6 DEF vars, captureVars
<1> QED
  BY <1>1, <1>2, <1>3, <1>4, <1>5, <1>6 DEF Next

(* Whatever fails, overlaps or dies in a capture, the tickers counted for  *)
(* a day in the manifest have their report in the directory of that day.   *)
THEOREM CoverageIsReal == Spec => []CoverageBacked
<1>1. IInv => CoverageBacked
  BY DEF IInv
<1> QED
  BY <1>1, InitInv, NextInv, PTL DEF Spec

-----------------------------------------------------------------------------
LEMMA TypeInit == Init => CaptureTypeOK
BY CaptureAssumption DEF Init, CaptureInit, CaptureTypeOK, Days, Cells, NoPrice

(* mkdir adds the day it is given, with today's date, and changes nothing  *)
(* else.                                                                   *)
LEMMA MadeTyped ==
  ASSUME CaptureTypeOK, NEW d \in Days
  PROVE  /\ Made(d) \in [Days -> 0..MaxDay]
         /\ \A e \in dirs : Made(d)[e] = added[e]
         /\ \A e \in Days : Made(d)[e] \in {added[e], day}
         /\ \A e \in Days \ dirs : e # d => Made(d)[e] = 0
BY CaptureAssumption DEF CaptureTypeOK, Days, Made, dirs

LEMMA TypeCapture == CaptureTypeOK /\ CaptureNext => CaptureTypeOK'
<1> SUFFICES ASSUME CaptureTypeOK, CaptureNext PROVE CaptureTypeOK'
  OBVIOUS
<1> USE CaptureAssumption DEF CaptureTypeOK, Days, Cell, NoPrice, disk
<1> DEFINE M == Made(day)
<1>M. M \in [Days -> 0..MaxDay] /\ \A d \in Days : Made(d) \in [Days -> 0..MaxDay]
  BY MadeTyped, Zenon DEF CaptureTypeOK
<1> HIDE DEF M
<1>0. CASE FlowLogged
  BY <1>0, <1>M DEF FlowLogged, M
<1>F. ASSUME NEW d \in Filled, Backfill(d) PROVE CaptureTypeOK'
  <2>1. d \in Days
    OBVIOUS
  <2>2. /\ added' = Made(d) /\ tide' \in [Days -> {"absent", "empty", "full"}]
        /\ UNCHANGED <<day, clock, missed, coverage, loop, loopTodo, saver, saverTodo, saverSet,
                       faults>>
    BY <1>F DEF Backfill
  <2>3. PICK fetched \in SUBSET Names : \E price \in [fetched -> Prices \union {NoPrice}] :
          /\ gex' = gex \union ({d} \X fetched)
          /\ quote' = [c \in Cells |-> IF c \in {d} \X fetched THEN price[c[2]] ELSE quote[c]]
    BY <1>F, Zenon DEF Backfill
  <2>4. gex' \subseteq Cells
    BY <2>1, <2>3 DEF Cells
  <2>5. quote' \in [Cells -> Prices \union {NoPrice}]
    <3>1. PICK price \in [fetched -> Prices \union {NoPrice}] :
            quote' = [c \in Cells |-> IF c \in {d} \X fetched THEN price[c[2]] ELSE quote[c]]
      BY <2>3
    <3>2. \A c \in {d} \X fetched : c[2] \in fetched
      OBVIOUS
    <3> QED
      BY <3>1, <3>2
  <2> QED
    BY <1>M, <2>1, <2>2, <2>4, <2>5
<1>1. CASE LoopFires \/ LoopWritesTide
  <2>1. /\ missed' \in {missed, missed \union {"loop"}} /\ added' \in {added, M}
        /\ loop' \in {loop, "tide", "alerts"}
        /\ tide' \in [Days -> {"absent", "empty", "full"}]
        /\ UNCHANGED <<day, clock, gex, quote, coverage, loopTodo, saver, saverTodo, saverSet,
                       faults>>
    BY <1>1 DEF LoopFires, LoopWritesTide, M
  <2> QED
    BY <1>M, <2>1
<1>2. CASE LoopWritesAlerts
  <2>1. \A S \in SUBSET Names : {Cell(t) : t \in S} \subseteq Cells
    BY DEF Cells
  <2> HIDE DEF Cell
  <2>2. loopTodo' \subseteq Cells
    BY <1>2, <2>1 DEF LoopWritesAlerts
  <2>3. /\ loop' \in {"idle", "tickers"}
        /\ UNCHANGED <<day, clock, missed, added, tide, gex, quote, coverage, saver, saverTodo,
                       saverSet, faults>>
    BY <1>2 DEF LoopWritesAlerts
  <2> QED
    BY <2>2, <2>3
<1>3. CASE LoopRaises
  BY <1>3 DEF LoopRaises
<1>4. ASSUME NEW c \in loopTodo, LoopWritesGex(c) \/ LoopWritesRest(c) PROVE CaptureTypeOK'
  <2>1. c \in Cells
    OBVIOUS
  <2> QED
    BY <1>4, <2>1, ZenonT(40) DEF LoopWritesGex, LoopWritesRest
<1>5. CASE SaverFires \/ SaverRaises
  <2>1. /\ missed' \in {missed, missed \union {"saver"}} /\ added' \in {added, M}
        /\ faults' \in {faults, faults + 1} /\ (faults' # faults => faults < MaxFaults)
        /\ UNCHANGED <<day, clock, tide, gex, quote, coverage, loop, loopTodo>>
    BY <1>5 DEF SaverFires, SaverRaises, M
  <2>2. \/ UNCHANGED <<saver, saverTodo, saverSet>>
        \/ saver' \in {"tide", "idle"} /\ saverTodo' = saverSet' /\ saverSet' \subseteq Names
    BY <1>5 DEF SaverFires, SaverRaises
  <2>3. added' \in [Days -> 0..MaxDay]
    BY <1>M, <2>1
  <2>4. saver' \in {"idle", "tide", "tickers"} /\ saverTodo' \subseteq saverSet' /\ saverSet' \subseteq Names
    BY <2>2
  <2> QED
    BY <2>1, <2>3, <2>4
<1>6. CASE SaverWritesTide
  BY <1>6 DEF SaverWritesTide
<1>7. ASSUME NEW t \in saverTodo, SaverWritesTicker(t) PROVE CaptureTypeOK'
  <2>1. Cell(t) \in Cells
    BY DEF Cells
  <2> HIDE DEF Cell
  <2> QED
    BY <1>7, <2>1 DEF SaverWritesTicker
<1>8. CASE SaverWritesCoverage
  <2>1. {Cell(t) : t \in saverSet} \subseteq Cells
    BY DEF Cells
  <2> HIDE DEF Cell
  <2> QED
    BY <1>8, <2>1 DEF SaverWritesCoverage
<1> QED
  BY <1>0, <1>F, <1>1, <1>2, <1>3, <1>4, <1>5, <1>6, <1>7, <1>8 DEF CaptureNext

LEMMA TypeNext == CaptureTypeOK /\ [Next]_vars => CaptureTypeOK'
<1> SUFFICES ASSUME CaptureTypeOK, [Next]_vars PROVE CaptureTypeOK'
  OBVIOUS
<1> USE CaptureAssumption DEF CaptureTypeOK, Days, disk
<1>1. CASE CaptureNext
  BY <1>1, TypeCapture
<1>2. CASE BacktestFires \/ RunRaises
  <2>1. /\ missed' \in {missed, missed \union {"backtest"}}
        /\ faults' \in {faults, faults + 1} /\ (faults' # faults => faults < MaxFaults)
        /\ UNCHANGED <<day, clock, added, tide, gex, quote, coverage, loop, loopTodo, saver,
                       saverTodo, saverSet>>
    BY <1>2 DEF BacktestFires, RunRaises
  <2> QED
    BY <2>1
<1>3. CASE StepOneDay \/ Persist
  BY <1>3 DEF StepOneDay, Persist, captureVars
<1>4. CASE CaptureTime \/ ReplayTime \/ NextDay
  <2>1. /\ day' \in Days /\ clock' \in {"session", "capture", "replay"}
        /\ missed' \in {missed, {}}
        /\ UNCHANGED <<added, tide, gex, quote, coverage, loop, loopTodo, saver, saverTodo,
                       saverSet, faults>>
    BY <1>4 DEF CaptureTime, ReplayTime, NextDay
  <2> QED
    BY <2>1
<1>5. CASE Crash
  <2>1. missed' \subseteq {"loop", "saver", "backtest"}
    BY <1>5 DEF Crash
  <2>2. /\ faults' \in 0..MaxFaults /\ CaptureLost
        /\ UNCHANGED <<day, clock, added, tide, gex, quote, coverage>>
    BY <1>5 DEF Crash
  <2> QED
    BY <2>1, <2>2 DEF CaptureLost
<1>6. CASE UNCHANGED vars
  BY <1>6 DEF vars, captureVars
<1> QED
  BY <1>1, <1>2, <1>3, <1>4, <1>5, <1>6 DEF Next

(* Types: every file belongs to a day and a ticker there is, and a capture *)
(* in progress has only tickers left that it set out to write.             *)
THEOREM CaptureTypeCorrect == Spec => []CaptureTypeOK
BY TypeInit, TypeNext, PTL DEF Spec

-----------------------------------------------------------------------------
(* Induction, by a least counterexample.                                   *)
LEMMA LeastNat ==
  ASSUME NEW T \in SUBSET Nat, T # {}
  PROVE  \E m \in T : \A k \in T : m <= k
<1>1. PICK m \in T : \A k \in T : <<k, m>> \notin OpToRel(<, Nat)
  BY WFMin, NatLessThanWellFounded, Zenon
<1>2. \A k \in T : ~(k < m)
  BY <1>1, Zenon DEF OpToRel
<1> QED
  BY <1>2

(* A run of n steps exists: from x on, each state is the step of the last. *)
Run(u, x, step, n, X) ==
  /\ u \in [0..n -> X] /\ u[0] = x
  /\ \A k \in 1..n : u[k] = step[<<u[k - 1], k>>]

LEMMA RunExists ==
  ASSUME NEW L \in Nat, NEW X, NEW x \in X, NEW step \in [X \X (1..L) -> X]
  PROVE  \E u : Run(u, x, step, L, X)
<1> DEFINE Bad == {n \in 0..L : ~\E u : Run(u, x, step, n, X)}
<1> SUFFICES ASSUME Bad # {} PROVE FALSE
  OBVIOUS
<1>1. PICK n \in Bad : \A k \in Bad : n <= k
  <2>1. Bad \in SUBSET Nat
    OBVIOUS
  <2> HIDE DEF Bad
  <2> QED
    BY <2>1, LeastNat
<1>2. n \in 0..L /\ ~\E u : Run(u, x, step, n, X)
  BY <1>1
<1>3. CASE n = 0
  <2>1. Run([k \in 0..0 |-> x], x, step, 0, X)
    BY DEF Run
  <2> QED
    BY <1>2, <1>3, <2>1
<1>4. CASE n # 0
  <2>1. n - 1 \in 0..L /\ n - 1 \notin Bad
    BY <1>1, <1>2, <1>4
  <2>2. PICK v : Run(v, x, step, n - 1, X)
    BY <2>1
  <2> DEFINE u == [k \in 0..n |-> IF k < n THEN v[k] ELSE step[<<v[n - 1], n>>]]
  <2>3. v \in [0..(n - 1) -> X] /\ v[0] = x /\ \A k \in 1..(n - 1) : v[k] = step[<<v[k - 1], k>>]
    BY <2>2 DEF Run
  <2>4. v[n - 1] \in X /\ n \in 1..L
    BY <1>2, <1>4, <2>1, <2>3
  <2>5. step[<<v[n - 1], n>>] \in X
    BY <2>4
  <2>6. \A k \in 0..n : k < n => k \in 0..(n - 1) /\ v[k] \in X
    BY <1>2, <2>3
  <2>7. u \in [0..n -> X]
    BY <2>5, <2>6
  <2>8. u[0] = x
    BY <1>2, <1>4, <2>3
  <2>9. ASSUME NEW k \in 1..n PROVE u[k] = step[<<u[k - 1], k>>]
    <3>1. k - 1 \in 0..n /\ k - 1 < n /\ u[k - 1] = v[k - 1]
      BY <1>2, <2>9
    <3>2. CASE k < n
      BY <1>2, <2>3, <2>9, <3>1, <3>2
    <3>3. CASE k = n
      BY <1>2, <2>9, <3>1, <3>3
    <3> QED
      BY <1>2, <3>2, <3>3
  <2> QED
    BY <1>2, <2>7, <2>8, <2>9 DEF Run
<1> QED
  BY <1>3, <1>4

(* Two functions that start alike and go on alike are alike.               *)
LEMMA SameRun ==
  ASSUME NEW L \in Nat, NEW u, NEW w, u[0] = w[0],
         \A n \in 1..L : u[n - 1] = w[n - 1] => u[n] = w[n]
  PROVE  \A n \in 0..L : u[n] = w[n]
<1> DEFINE Bad == {n \in 0..L : u[n] # w[n]}
<1> SUFFICES ASSUME Bad # {} PROVE FALSE
  OBVIOUS
<1>1. PICK n \in Bad : \A k \in Bad : n <= k
  <2>1. Bad \in SUBSET Nat
    OBVIOUS
  <2> HIDE DEF Bad
  <2> QED
    BY <2>1, LeastNat
<1>2. n \in 0..L /\ u[n] # w[n] /\ n # 0
  BY <1>1
<1>3. n - 1 \notin Bad /\ n - 1 \in 0..L /\ n \in 1..L
  BY <1>1, <1>2
<1> QED
  BY <1>2, <1>3

-----------------------------------------------------------------------------
(* Sums.                                                                   *)

Sums(u, f) ==
  u \in [0..Len(f) -> Int] /\ u[0] = 0 /\ \A n \in 1..Len(f) : u[n] = u[n - 1] + f[n]

LEMMA SumsExist ==
  ASSUME NEW f \in Seq(Int)
  PROVE  \E u : Sums(u, f)
<1> DEFINE step == [p \in Int \X (1..Len(f)) |-> p[1] + f[p[2]]]
<1>1. Len(f) \in Nat /\ \A n \in 1..Len(f) : f[n] \in Int
  BY LenProperties, ElementOfSeq
<1>2. step \in [Int \X (1..Len(f)) -> Int]
  BY <1>1
<1>3. \A x \in Int, n \in 1..Len(f) : step[<<x, n>>] = x + f[n]
  OBVIOUS
<1> HIDE DEF step
<1>4. PICK u : Run(u, 0, step, Len(f), Int)
  <2>1. Len(f) \in Nat /\ 0 \in Int
    BY <1>1
  <2> QED
    BY ONLY <1>2, <2>1, RunExists, Zenon
<1>5. u \in [0..Len(f) -> Int] /\ u[0] = 0
  BY <1>4 DEF Run
<1>6. ASSUME NEW n \in 1..Len(f) PROVE u[n] = u[n - 1] + f[n]
  <2>1. n - 1 \in 0..Len(f)
    BY <1>1
  <2>2. u[n] = step[<<u[n - 1], n>>]
    BY <1>4 DEF Run
  <2> QED
    BY <1>3, <1>5, <2>1, <2>2
<1> QED
  BY <1>5, <1>6 DEF Sums

LEMMA TotalSums ==
  ASSUME NEW f \in Seq(Int), NEW u, Sums(u, f)
  PROVE  Total(f) = u[Len(f)]
<1> DEFINE next(w) == [n \in 0..Len(f) |-> IF n = 0 THEN 0 ELSE w[n - 1] + f[n]]
           w == CHOOSE w : w = next(w)
<1>1. Len(f) \in Nat
  BY LenProperties
<1>2. u = next(u)
  BY <1>1 DEF Sums
<1>3. w = next(w)
  BY <1>2
<1>4. Total(f) = w[Len(f)]
  BY DEF Total
<1> HIDE DEF w
<1>5. w[0] = 0 /\ \A n \in 1..Len(f) : w[n] = w[n - 1] + f[n]
  BY <1>1, <1>3
<1>6. u[0] = w[0] /\ \A n \in 1..Len(f) : u[n - 1] = w[n - 1] => u[n] = w[n]
  BY <1>5 DEF Sums
<1>7. \A n \in 0..Len(f) : u[n] = w[n]
  BY <1>1, <1>6, SameRun, ZenonT(60)
<1> QED
  BY <1>1, <1>4, <1>7

LEMMA TotalAdds ==
  ASSUME NEW f \in Seq(Int), NEW g \in Seq(Int), NEW h \in Seq(Int),
         Len(g) = Len(f), Len(h) = Len(f),
         \A n \in 1..Len(f) : h[n] = f[n] + g[n]
  PROVE  Total(h) = Total(f) + Total(g) /\ Total(f) \in Int /\ Total(g) \in Int
<1>1. PICK u : Sums(u, f)
  BY SumsExist
<1>2. PICK v : Sums(v, g)
  BY SumsExist
<1> DEFINE w == [n \in 0..Len(f) |-> u[n] + v[n]]
<1>3. Len(f) \in Nat
  BY LenProperties
<1>4. /\ u \in [0..Len(f) -> Int] /\ u[0] = 0 /\ \A n \in 1..Len(f) : u[n] = u[n - 1] + f[n]
      /\ v \in [0..Len(f) -> Int] /\ v[0] = 0 /\ \A n \in 1..Len(f) : v[n] = v[n - 1] + g[n]
  BY <1>1, <1>2 DEF Sums
<1>5. \A n \in 1..Len(f) : /\ n \in 0..Len(f) /\ n - 1 \in 0..Len(f)
                          /\ f[n] \in Int /\ g[n] \in Int
  BY <1>3, ElementOfSeq
<1>6. Sums(w, h)
  <2>1. w \in [0..Len(f) -> Int] /\ w[0] = 0
    BY <1>3, <1>4
  <2>2. ASSUME NEW n \in 1..Len(f) PROVE w[n] = w[n - 1] + h[n]
    <3>1. w[n] = u[n] + v[n] /\ w[n - 1] = u[n - 1] + v[n - 1]
      BY <1>5
    <3>2. u[n - 1] \in Int /\ v[n - 1] \in Int /\ f[n] \in Int /\ g[n] \in Int
      BY <1>4, <1>5
    <3>3. u[n] = u[n - 1] + f[n] /\ v[n] = v[n - 1] + g[n]
      BY <1>4
    <3>4. h[n] = f[n] + g[n]
      OBVIOUS
    <3> HIDE DEF w
    <3> QED
      BY ONLY <3>1, <3>2, <3>3, <3>4, SMTT(30)
  <2> QED
    BY <2>1, <2>2 DEF Sums
<1>7. Total(f) = u[Len(f)] /\ Total(g) = v[Len(f)] /\ Total(h) = w[Len(f)]
  BY <1>1, <1>2, <1>6, TotalSums
<1> QED
  BY <1>3, <1>4, <1>7

LEMMA TotalAppends ==
  ASSUME NEW f \in Seq(Int), NEW x \in Int, NEW h \in Seq(Int),
         Len(h) = Len(f) + 1, h[Len(f) + 1] = x,
         \A n \in 1..Len(f) : h[n] = f[n]
  PROVE  Total(h) = Total(f) + x /\ Total(f) \in Int
<1>1. PICK u : Sums(u, f)
  BY SumsExist
<1>2. PICK w : Sums(w, h)
  BY SumsExist
<1>3. Len(f) \in Nat
  BY LenProperties
<1>4. /\ u \in [0..Len(f) -> Int] /\ u[0] = 0 /\ \A n \in 1..Len(f) : u[n] = u[n - 1] + f[n]
      /\ w[0] = 0 /\ \A n \in 1..(Len(f) + 1) : w[n] = w[n - 1] + h[n]
  BY <1>1, <1>2 DEF Sums
<1>5. \A n \in 1..Len(f) : u[n - 1] = w[n - 1] => u[n] = w[n]
  BY <1>3, <1>4
<1>6. \A n \in 0..Len(f) : u[n] = w[n]
  <2>1. u[0] = w[0]
    BY <1>4
  <2> QED
    BY ONLY <1>3, <1>5, <2>1, SameRun, ZenonT(60)
<1>7. w[Len(f) + 1] = w[Len(f)] + x
  BY <1>3, <1>4
<1>8. Total(f) = u[Len(f)] /\ Total(h) = w[Len(f) + 1]
  BY <1>1, <1>2, TotalSums
<1> QED
  BY <1>3, <1>4, <1>6, <1>7, <1>8

LEMMA TotalNat ==
  ASSUME NEW f \in Seq(Int), \A n \in 1..Len(f) : f[n] \in Nat
  PROVE  Total(f) >= 0
<1>1. PICK u : Sums(u, f)
  BY SumsExist
<1> DEFINE Bad == {n \in 0..Len(f) : ~(u[n] >= 0)}
<1>2. Len(f) \in Nat
  BY LenProperties
<1>3. Bad = {}
  <2>1. SUFFICES ASSUME Bad # {} PROVE FALSE
    OBVIOUS
  <2>2. PICK n \in Bad : \A k \in Bad : n <= k
    <3>1. Bad \in SUBSET Nat
      OBVIOUS
    <3> HIDE DEF Bad
    <3> QED
      BY <2>1, <3>1, LeastNat
  <2>3. n \in 1..Len(f) /\ n - 1 \in 0..Len(f) /\ n - 1 \notin Bad /\ ~(u[n] >= 0)
    BY <1>1, <1>2, <2>2 DEF Sums
  <2>4. u[n] = u[n - 1] + f[n] /\ u[n - 1] \in Int /\ u[n - 1] >= 0
    BY <1>1, <2>3 DEF Sums
  <2> QED
    BY <2>3, <2>4
<1>4. Total(f) = u[Len(f)]
  BY <1>1, TotalSums
<1> QED
  BY <1>2, <1>3, <1>4

LEMMA TotalEmpty == Total(<<>>) = 0
<1>1. <<>> \in Seq(Int) /\ Len(<<>>) = 0
  OBVIOUS
<1>2. PICK u : Sums(u, <<>>)
  BY <1>1, SumsExist
<1> QED
  BY <1>1, <1>2, TotalSums DEF Sums

-----------------------------------------------------------------------------
(* The replay.                                                             *)

Records ==
  [name : Names, entered : Days, lots : Nat \ {0}, paid : Nat, peak : Nat,
   status : {"open", "closed"}, exited : Nat, got : Nat]
Replays ==
  [cash : Nat, records : Seq(Records), open : SUBSET Nat, processed : SUBSET Days]

(* What a trade has added to the cash.                                     *)
Result(s, i) ==
  IF i \in s.open THEN -(s.records[i].paid * s.records[i].lots)
  ELSE (s.records[i].got - s.records[i].paid) * s.records[i].lots

Balance(s) == [i \in DOMAIN s.records |-> Result(s, i)]

(* Day q can be replayed after day p, when the days were added as a says.  *)
Follows(a, p, q) == p # q /\ (q < p => a[p] <= a[q] /\ q < a[q])

(* One trade, as it can be when the days P have been replayed: an open one *)
(* has brought in nothing yet.                                             *)
TradePossible(r, open, P, a) ==
  /\ open = (r.status = "open") /\ r.entered \in P
  /\ r.status = "open" => r.got = 0
  /\ r.status = "closed" => r.exited \in P /\ Follows(a, r.entered, r.exited)
  /\ r.peak # 0 => r.got <= r.peak

Good(P, a) ==
  {s \in Replays :
     /\ s.open \subseteq DOMAIN s.records /\ Cardinality(s.open) <= Cap
     /\ \A i \in DOMAIN s.records : TradePossible(s.records[i], i \in s.open, P, a)
     /\ s.cash = Initial + Total(Balance(s))}

LEMMA ReplayTyped ==
  ASSUME NEW P, NEW s \in Good(P, added)
  PROVE  /\ s \in Replays /\ s.cash \in Nat /\ s.records \in Seq(Records)
         /\ s.processed \in SUBSET Days /\ Len(s.records) \in Nat
         /\ DOMAIN s.records = 1..Len(s.records)
         /\ \A i \in DOMAIN s.records : s.records[i] \in Records
         /\ s.open \subseteq 1..Len(s.records) /\ IsFiniteSet(s.open)
         /\ Cardinality(s.open) \in Nat /\ Cardinality(s.open) <= Cap
         /\ \A i \in DOMAIN s.records : TradePossible(s.records[i], i \in s.open, P, added)
         /\ s.cash = Initial + Total(Balance(s))
<1>1. /\ s \in Replays /\ s.cash \in Nat /\ s.records \in Seq(Records)
      /\ s.processed \in SUBSET Days
  BY DEF Good, Replays
<1>2. Len(s.records) \in Nat /\ DOMAIN s.records = 1..Len(s.records)
  BY <1>1, LenProperties
<1>3. \A i \in DOMAIN s.records : s.records[i] \in Records
  BY <1>1, <1>2, ElementOfSeq
<1>4. s.open \subseteq 1..Len(s.records)
  BY <1>2 DEF Good
<1>5. IsFiniteSet(1..Len(s.records))
  BY <1>2, FS_Interval
<1>6. IsFiniteSet(s.open)
  BY <1>4, <1>5, FS_Subset
<1>7. Cardinality(s.open) \in Nat
  BY <1>6, FS_CardinalityType
<1> QED
  BY <1>1, <1>2, <1>3, <1>4, <1>6, <1>7 DEF Good

LEMMA Amounts ==
  ASSUME NEW n \in Nat, NEW f \in [1..n -> Int]
  PROVE  f \in Seq(Int) /\ Len(f) = n
OBVIOUS

LEMMA ResultTyped ==
  ASSUME NEW s, NEW i, s.records[i] \in Records
  PROVE  Result(s, i) \in Int
<1>1. s.records[i].paid \in Nat /\ s.records[i].lots \in Nat /\ s.records[i].got \in Nat
  BY DEF Records
<1>2. \A a, b \in Int : a * b \in Int
  OBVIOUS
<1>3. /\ s.records[i].paid * s.records[i].lots \in Int
      /\ (s.records[i].got - s.records[i].paid) * s.records[i].lots \in Int
  BY <1>1, <1>2
<1> QED
  BY <1>3 DEF Result

LEMMA BalanceTyped ==
  ASSUME NEW P, NEW s \in Good(P, added)
  PROVE  Balance(s) \in Seq(Int) /\ Len(Balance(s)) = Len(s.records)
<1>1. Balance(s) \in [1..Len(s.records) -> Int]
  BY ReplayTyped, ResultTyped DEF Balance
<1> QED
  BY <1>1, ReplayTyped, Amounts

LEMMA FreshGood == \A P, a : Fresh \in Good(P, a)
<1> SUFFICES ASSUME NEW P, NEW a PROVE Fresh \in Good(P, a)
  OBVIOUS
<1>1. /\ Fresh.cash = Initial /\ Fresh.records = <<>> /\ Fresh.open = {}
      /\ Fresh.processed = {} /\ DOMAIN Fresh.records = {}
  BY DEF Fresh
<1>2. Fresh \in Replays
  BY NightlyAssumption DEF Fresh, Replays
<1>3. Balance(Fresh) = <<>>
  BY <1>1 DEF Balance
<1>4. Initial = Initial + Total(Balance(Fresh))
  BY <1>3, TotalEmpty, NightlyAssumption
<1>5. Cardinality(Fresh.open) <= Cap
  BY <1>1, FS_EmptySet, NightlyAssumption
<1> QED
  BY <1>1, <1>2, <1>4, <1>5 DEF Good

LEMMA QuoteTyped ==
  ASSUME CaptureTypeOK, NEW d \in Days, NEW t \in Names, Priced(d, t)
  PROVE  quote[<<d, t>>] \in Nat \ {0}
<1>1. <<d, t>> \in Cells
  BY DEF Cells
<1>2. quote[<<d, t>>] \in Prices
  BY <1>1 DEF CaptureTypeOK, Priced
<1> QED
  BY <1>2, CaptureAssumption

(* New highs change nothing but the peaks.                                 *)
LEMMA WatchedGood ==
  ASSUME CaptureTypeOK, NEW P, NEW s \in Good(P, added), NEW d \in Days
  PROVE  LET w == Watched(s, d)
         IN  /\ w \in Good(P, added) /\ w.processed = s.processed /\ w.open = s.open
             /\ Quoted(w, d) = Quoted(s, d)
             /\ \A i \in Quoted(s, d) : w.records[i].peak >= quote[<<d, w.records[i].name>>]
<1> DEFINE w == Watched(s, d)
           R == s.records
           q(i) == quote[<<d, R[i].name>>]
           high(i) == i \in Quoted(s, d) /\ q(i) > R[i].peak
<1>1. /\ s \in Replays /\ R \in Seq(Records) /\ Len(R) \in Nat /\ DOMAIN R = 1..Len(R)
      /\ \A i \in DOMAIN R : R[i] \in Records
      /\ s.open \subseteq DOMAIN R /\ Cardinality(s.open) <= Cap
      /\ \A i \in DOMAIN R : TradePossible(R[i], i \in s.open, P, added)
      /\ s.cash = Initial + Total(Balance(s))
  BY ReplayTyped
<1>2. /\ w.cash = s.cash /\ w.open = s.open /\ w.processed = s.processed
      /\ w.records = [i \in DOMAIN R |-> IF high(i) THEN [R[i] EXCEPT !.peak = q(i)] ELSE R[i]]
      /\ w = [s EXCEPT !.records = w.records]
  BY <1>1 DEF Watched, Replays
<1> HIDE DEF w
<1>3. \A i \in Quoted(s, d) : i \in DOMAIN R /\ i \in s.open /\ q(i) \in Nat \ {0}
  <2>1. ASSUME NEW i \in Quoted(s, d) PROVE i \in DOMAIN R /\ i \in s.open /\ q(i) \in Nat \ {0}
    <3>1. i \in s.open /\ i \in DOMAIN R /\ Priced(d, R[i].name)
      BY <1>1, <2>1 DEF Quoted
    <3>2. R[i].name \in Names
      BY <1>1, <3>1 DEF Records
    <3> QED
      BY <3>1, <3>2, QuoteTyped
  <2> QED
    BY <2>1
<1>4. ASSUME NEW i \in DOMAIN R
      PROVE  /\ w.records[i] \in Records
             /\ w.records[i].name = R[i].name /\ w.records[i].lots = R[i].lots
             /\ w.records[i].paid = R[i].paid /\ w.records[i].got = R[i].got
             /\ w.records[i].status = R[i].status /\ w.records[i].entered = R[i].entered
             /\ w.records[i].exited = R[i].exited
             /\ w.records[i].peak = IF high(i) THEN q(i) ELSE R[i].peak
  <2>1. R[i] \in Records
    BY <1>1
  <2>2. CASE high(i)
    <3>1. w.records[i] = [R[i] EXCEPT !.peak = q(i)] /\ q(i) \in Nat
      BY <1>2, <1>3, <2>2
    <3> HIDE DEF q, R
    <3> QED
      BY <2>1, <2>2, <3>1 DEF Records
  <2>3. CASE ~high(i)
    BY <1>2, <2>1, <2>3
  <2> QED
    BY <2>2, <2>3
<1>5. DOMAIN w.records = DOMAIN R
  BY <1>2
<1>6. w.records \in Seq(Records)
  <2>1. w.records \in [1..Len(R) -> Records]
    BY <1>1, <1>2, <1>4
  <2> QED
    BY <1>1, <2>1
<1>7. w \in Replays
  BY <1>1, <1>2, <1>6 DEF Replays
<1>8. Balance(w) = Balance(s)
  <2>1. \A i \in DOMAIN R : Result(w, i) = Result(s, i)
    BY <1>2, <1>4 DEF Result
  <2> QED
    BY <1>5, <2>1 DEF Balance
<1>9. ASSUME NEW i \in DOMAIN R PROVE TradePossible(w.records[i], i \in w.open, P, added)
  <2>1. TradePossible(R[i], i \in s.open, P, added) /\ R[i] \in Records
    BY <1>1
  <2>2. high(i) => R[i].got = 0 /\ q(i) \in Nat
    BY <1>3, <2>1 DEF TradePossible
  <2>3. R[i].got \in Nat
    BY <2>1 DEF Records
  <2>4. w.records[i].peak # 0 => w.records[i].got <= w.records[i].peak
    BY <1>4, <2>1, <2>2, <2>3 DEF TradePossible
  <2> QED
    BY <1>2, <1>4, <2>1, <2>4 DEF TradePossible
<1>10. w \in Good(P, added)
  BY <1>1, <1>2, <1>5, <1>7, <1>8, <1>9 DEF Good
<1>11. Quoted(w, d) = Quoted(s, d)
  BY <1>1, <1>2, <1>4 DEF Quoted
<1>12. ASSUME NEW i \in Quoted(s, d) PROVE w.records[i].peak >= quote[<<d, w.records[i].name>>]
  <2>1. i \in DOMAIN R /\ q(i) \in Nat /\ R[i].peak \in Nat
    BY <1>1, <1>3 DEF Records
  <2> QED
    BY <1>4, <2>1
<1> QED
  BY <1>2, <1>10, <1>11, <1>12 DEF w

LEMMA GainSplits ==
  ASSUME NEW got \in Nat, NEW paid \in Nat, NEW lots \in Nat
  PROVE  (got - paid) * lots = -(paid * lots) + got * lots /\ got * lots \in Nat
OBVIOUS

(* A sale closes what it sells, and brings in what it is worth.            *)
LEMMA SellGood ==
  ASSUME CaptureTypeOK, NEW P, NEW s \in Good(P, added), NEW d \in Days,
         \A p \in P : Follows(added, p, d),
         NEW sold \in SUBSET Quoted(s, d),
         \A i \in sold : s.records[i].peak >= quote[<<d, s.records[i].name>>]
  PROVE  /\ Sell(s, sold, d) \in Good(P \union {d}, added)
         /\ Sell(s, sold, d).processed = s.processed
<1> DEFINE w == Sell(s, sold, d)
           R == s.records
           q(i) == quote[<<d, R[i].name>>]
           closed(i) == [R[i] EXCEPT !.status = "closed", !.exited = d, !.got = q(i)]
           worth == [i \in DOMAIN R |-> IF i \in sold THEN q(i) * R[i].lots ELSE 0]
<1>1. /\ s \in Replays /\ R \in Seq(Records) /\ Len(R) \in Nat /\ DOMAIN R = 1..Len(R)
      /\ \A i \in DOMAIN R : R[i] \in Records
      /\ s.open \subseteq DOMAIN R /\ IsFiniteSet(s.open) /\ Cardinality(s.open) <= Cap
      /\ Cardinality(s.open) \in Nat
      /\ \A i \in DOMAIN R : TradePossible(R[i], i \in s.open, P, added)
      /\ s.cash = Initial + Total(Balance(s)) /\ s.cash \in Nat
  BY ReplayTyped
<1>2. /\ w.cash = s.cash + Total(worth) /\ w.open = s.open \ sold /\ w.processed = s.processed
      /\ w.records = [i \in DOMAIN R |-> IF i \in sold THEN closed(i) ELSE R[i]]
      /\ w = [s EXCEPT !.cash = w.cash, !.records = w.records, !.open = w.open]
  BY <1>1 DEF Sell, Replays
<1> HIDE DEF w
<1>3. ASSUME NEW i \in sold
      PROVE  /\ i \in DOMAIN R /\ i \in s.open /\ q(i) \in Nat \ {0} /\ R[i].lots \in Nat
             /\ q(i) <= R[i].peak
  <2>1. i \in s.open /\ i \in DOMAIN R /\ Priced(d, R[i].name)
    BY <1>1, <1>3 DEF Quoted
  <2>2. R[i].name \in Names /\ R[i].lots \in Nat /\ R[i].peak \in Nat
    BY <1>1, <2>1 DEF Records
  <2>3. q(i) \in Nat \ {0}
    BY <2>1, <2>2, QuoteTyped
  <2> QED
    BY <1>3, <2>1, <2>2, <2>3
<1>4. ASSUME NEW i \in sold
      PROVE  /\ w.records[i] \in Records
             /\ w.records[i].lots = R[i].lots /\ w.records[i].paid = R[i].paid
             /\ w.records[i].got = q(i) /\ w.records[i].status = "closed"
             /\ w.records[i].entered = R[i].entered /\ w.records[i].exited = d
             /\ w.records[i].peak = R[i].peak
  <2>1. R[i] \in Records /\ q(i) \in Nat /\ d \in Nat
    BY <1>1, <1>3, CaptureAssumption DEF Days
  <2>2. w.records[i] = closed(i)
    BY <1>2, <1>3
  <2> HIDE DEF q, R
  <2> QED
    BY <2>1, <2>2 DEF Records
<1>5. \A i \in DOMAIN R : i \notin sold => w.records[i] = R[i]
  BY <1>2
<1>6. DOMAIN w.records = DOMAIN R
  BY <1>2
<1>7. w.records \in Seq(Records)
  <2>1. w.records \in [1..Len(R) -> Records]
    BY <1>1, <1>2, <1>4, <1>5
  <2> QED
    BY <1>1, <2>1
<1>8. \A i \in DOMAIN R : worth[i] \in Nat
  <2>1. ASSUME NEW i \in DOMAIN R PROVE worth[i] \in Nat
    <3>1. CASE i \in sold
      <4>1. worth[i] = q(i) * R[i].lots /\ q(i) \in Nat /\ R[i].lots \in Nat
        BY <1>3, <3>1
      <4> HIDE DEF worth, q, R
      <4> QED
        BY <4>1
    <3>2. CASE i \notin sold
      BY <3>2
    <3> QED
      BY <3>1, <3>2
  <2> QED
    BY <2>1
<1>9. worth \in Seq(Int) /\ Len(worth) = Len(R)
  <2>1. worth = [i \in DOMAIN R |-> worth[i]]
    OBVIOUS
  <2> HIDE DEF worth
  <2>2. worth \in [1..Len(R) -> Int]
    <3>1. DOMAIN R = 1..Len(R) /\ \A i \in DOMAIN R : worth[i] \in Int
      BY <1>1, <1>8
    <3> HIDE DEF R
    <3> QED
      BY ONLY <2>1, <3>1
  <2> QED
    BY <1>1, <2>2, Amounts
<1>10. \A i \in DOMAIN R : Result(w, i) = Result(s, i) + worth[i]
  <2>1. ASSUME NEW i \in DOMAIN R PROVE Result(w, i) = Result(s, i) + worth[i]
    <3>1. CASE i \in sold
      <4>1. Result(s, i) = -(R[i].paid * R[i].lots)
        BY <1>3, <3>1 DEF Result
      <4>2. Result(w, i) = (q(i) - R[i].paid) * R[i].lots
        BY <1>2, <1>4, <3>1 DEF Result
      <4>3. q(i) \in Nat /\ R[i].paid \in Nat /\ R[i].lots \in Nat
        BY <1>1, <1>3, <3>1 DEF Records
      <4>4. worth[i] = q(i) * R[i].lots
        BY <3>1
      <4> HIDE DEF worth, q, R
      <4> QED
        BY <4>1, <4>2, <4>3, <4>4, GainSplits
    <3>2. CASE i \notin sold
      <4>1. Result(w, i) = Result(s, i)
        BY <1>2, <1>5, <3>2 DEF Result
      <4>2. Result(s, i) \in Int /\ worth[i] = 0
        BY <1>1, <3>2, ResultTyped
      <4> QED
        BY <4>1, <4>2
    <3> QED
      BY <3>1, <3>2
  <2> QED
    BY <2>1
<1> HIDE DEF worth
<1>11. Total(Balance(w)) = Total(Balance(s)) + Total(worth) /\ Total(worth) \in Int
                           /\ Total(Balance(s)) \in Int
  <2>1. Balance(s) \in Seq(Int) /\ Len(Balance(s)) = Len(R)
    BY BalanceTyped
  <2>2. Balance(w) \in [1..Len(R) -> Int]
    <3>1. \A i \in DOMAIN R : w.records[i] \in Records
      BY <1>1, <1>4, <1>5
    <3> QED
      BY <1>1, <1>6, <3>1, ResultTyped DEF Balance
  <2>3. Balance(w) \in Seq(Int) /\ Len(Balance(w)) = Len(R)
    BY <1>1, <2>2, Amounts
  <2>4. \A n \in 1..Len(R) : Balance(w)[n] = Balance(s)[n] + worth[n]
    BY <1>1, <1>6, <1>10 DEF Balance
  <2> QED
    BY ONLY <1>9, <2>1, <2>3, <2>4, TotalAdds
<1>12. Total(worth) >= 0
  BY <1>1, <1>8, <1>9, TotalNat
<1>13. w.cash \in Nat /\ w.cash = Initial + Total(Balance(w))
  <2>1. /\ s.cash = Initial + Total(Balance(s)) /\ s.cash \in Nat /\ Initial \in Nat
        /\ w.cash = s.cash + Total(worth)
    BY <1>1, <1>2, NightlyAssumption
  <2> QED
    BY ONLY <1>11, <1>12, <2>1
<1>14. w.open \in SUBSET Nat
  <2>1. s.open \in SUBSET Nat
    BY <1>1 DEF Replays
  <2> QED
    BY ONLY <1>2, <2>1
<1>15. w \in Replays
  BY <1>1, <1>2, <1>7, <1>13, <1>14 DEF Replays
<1>16. Cardinality(w.open) <= Cap
  <2>1. Cardinality(w.open) <= Cardinality(s.open) /\ Cardinality(w.open) \in Nat
    BY <1>1, <1>2, FS_Subset, FS_CardinalityType
  <2> QED
    BY <1>1, <2>1, NightlyAssumption
<1>17. ASSUME NEW i \in DOMAIN R PROVE TradePossible(w.records[i], i \in w.open, P \union {d}, added)
  <2>1. TradePossible(R[i], i \in s.open, P, added)
    BY <1>1
  <2>2. CASE i \in sold
    <3>1. R[i].entered \in P /\ Follows(added, R[i].entered, d)
      BY <2>1 DEF TradePossible
    <3>2. i \notin w.open
      BY <1>2, <2>2
    <3>3. /\ w.records[i].status = "closed" /\ w.records[i].entered = R[i].entered
          /\ w.records[i].exited = d /\ w.records[i].got <= w.records[i].peak
      BY <1>3, <1>4, <2>2
    <3> QED
      BY ONLY <3>1, <3>2, <3>3 DEF TradePossible
  <2>3. CASE i \notin sold
    <3>1. w.records[i] = R[i] /\ (i \in w.open <=> i \in s.open)
      BY <1>2, <1>5, <2>3
    <3> QED
      BY ONLY <2>1, <3>1 DEF TradePossible
  <2> QED
    BY <2>2, <2>3
<1>18. w.open \subseteq DOMAIN w.records
  BY <1>1, <1>2, <1>6
<1> QED
  BY <1>2, <1>6, <1>13, <1>15, <1>16, <1>17, <1>18 DEF Good, w

LEMMA LotsTyped ==
  ASSUME NEW cash \in Nat, NEW price \in Nat \ {0}
  PROVE  Lots(cash, price) \in Nat \ {0}
<1> DEFINE n == (cash \div Share) \div price
           m == Min({MaxLots, n})
<1>1. cash \div Share \in Nat
  BY NightlyAssumption
<1>2. n \in Nat
  BY <1>1
<1>3. m \in {MaxLots, n}
  <2>1. \E x \in {MaxLots, n} : \A y \in {MaxLots, n} : x <= y
    BY <1>2, NightlyAssumption
  <2> QED
    BY <2>1 DEF Min
<1>4. m \in Nat
  BY <1>2, <1>3, NightlyAssumption
<1> HIDE DEF m, n
<1>5. Max({1, m}) \in {1, m} /\ Max({1, m}) >= 1
  <2>1. \E x \in {1, m} : \A y \in {1, m} : x >= y
    BY <1>4
  <2> QED
    BY <2>1, <1>4 DEF Max
<1> QED
  BY <1>4, <1>5 DEF Lots, m, n

LEMMA BuyGood ==
  ASSUME CaptureTypeOK, NEW P, NEW s \in Good(P, added), NEW d \in Days, d \in P,
         NEW t \in Names, Priced(d, t)
  PROVE  Buy(s, t, d) \in Good(P, added) /\ Buy(s, t, d).processed = s.processed
<1> DEFINE R == s.records
           n == Len(R)
           q == quote[<<d, t>>]
           lots == Lots(s.cash, q)
           new == Entry(t, d, lots)
           w == [s EXCEPT !.cash = @ - lots * q, !.records = Append(@, new),
                          !.open = @ \union {n + 1}]
<1>1. /\ s \in Replays /\ R \in Seq(Records) /\ n \in Nat /\ DOMAIN R = 1..n
      /\ \A i \in DOMAIN R : R[i] \in Records
      /\ s.open \subseteq 1..n /\ IsFiniteSet(s.open) /\ Cardinality(s.open) <= Cap
      /\ Cardinality(s.open) \in Nat
      /\ \A i \in DOMAIN R : TradePossible(R[i], i \in s.open, P, added)
      /\ s.cash = Initial + Total(Balance(s)) /\ s.cash \in Nat
  BY ReplayTyped
<1>2. q \in Nat \ {0}
  BY QuoteTyped
<1>3. lots \in Nat \ {0}
  BY <1>1, <1>2, LotsTyped
<1>4. CASE Cardinality(s.open) >= Cap \/ lots * q > s.cash
  <2>1. Buy(s, t, d) = s
    BY <1>4 DEF Buy
  <2> QED
    BY <2>1
<1>5. CASE ~(Cardinality(s.open) >= Cap \/ lots * q > s.cash)
  <2>1. Buy(s, t, d) = w
    BY <1>5 DEF Buy
  <2> HIDE DEF q, lots
  <2>2. new = [name |-> t, entered |-> d, lots |-> lots, paid |-> q, peak |-> 0,
               status |-> "open", exited |-> 0, got |-> 0]
    BY DEF Entry, q
  <2>3. new \in Records /\ TradePossible(new, TRUE, P, added)
    BY <1>2, <1>3, <2>2 DEF Records, TradePossible
  <2>4. lots * q \in Nat /\ lots * q <= s.cash
    BY <1>1, <1>2, <1>3, <1>5
  <2> HIDE DEF new
  <2>5. /\ w.cash = s.cash - lots * q /\ w.records = Append(R, new)
        /\ w.open = s.open \union {n + 1} /\ w.processed = s.processed
    BY <1>1 DEF Replays
  <2>6. /\ w.records \in Seq(Records) /\ Len(w.records) = n + 1
        /\ DOMAIN w.records = 1..(n + 1)
        /\ w.records[n + 1] = new /\ \A i \in 1..n : w.records[i] = R[i]
    BY <1>1, <2>3, <2>5, AppendProperties, LenProperties
  <2>7. w.cash \in Nat
    BY ONLY <1>1, <2>4, <2>5
  <2>8. w.open \in SUBSET Nat
    <3>1. s.open \in SUBSET Nat
      BY <1>1 DEF Replays
    <3> QED
      BY ONLY <1>1, <2>5, <3>1
  <2>9. w \in Replays
    BY <1>1, <2>5, <2>6, <2>7, <2>8 DEF Replays
  <2> HIDE DEF w
  <2>10. Cardinality(w.open) <= Cap /\ w.open \subseteq DOMAIN w.records
    <3>1. n + 1 \notin s.open
      BY ONLY <1>1
    <3>2. Cardinality(w.open) = Cardinality(s.open) + 1
      <4>1. IsFiniteSet(s.open) /\ w.open = s.open \union {n + 1}
        BY ONLY <1>1, <2>5
      <4>2. Cardinality(s.open \union {n + 1}) = Cardinality(s.open) + 1
        BY ONLY <3>1, <4>1, FS_AddElement
      <4> QED
        BY ONLY <4>1, <4>2
    <3>3. Cardinality(w.open) <= Cap
      BY <1>1, <1>5, <3>2, NightlyAssumption
    <3>4. w.open \subseteq DOMAIN w.records
      BY ONLY <1>1, <2>5, <2>6
    <3> QED
      BY <3>3, <3>4
  <2>11. ASSUME NEW i \in DOMAIN w.records PROVE TradePossible(w.records[i], i \in w.open, P, added)
    <3>1. CASE i = n + 1
      <4>1. i \in w.open
        BY <2>5, <3>1
      <4> QED
        BY <2>3, <2>6, <3>1, <4>1
    <3>2. CASE i # n + 1
      <4>1. i \in 1..n
        BY ONLY <1>1, <2>6, <2>11, <3>2
      <4>2. w.records[i] = R[i] /\ (i \in w.open) = (i \in s.open)
        BY <2>5, <2>6, <3>2, <4>1
      <4>3. TradePossible(R[i], i \in s.open, P, added)
        BY <1>1, <4>1
      <4> QED
        BY ONLY <4>2, <4>3
    <3> QED
      BY <3>1, <3>2
  <2>12. Total(Balance(w)) = Total(Balance(s)) - lots * q /\ Total(Balance(s)) \in Int
    <3>1. Balance(s) \in Seq(Int) /\ Len(Balance(s)) = n
      BY BalanceTyped
    <3>2. Balance(w) \in [1..(n + 1) -> Int]
      <4>1. \A i \in DOMAIN w.records : w.records[i] \in Records
        BY <1>1, <2>3, <2>6
      <4> QED
        BY <2>6, <4>1, ResultTyped DEF Balance
    <3>3. Balance(w) \in Seq(Int) /\ Len(Balance(w)) = n + 1
      BY <1>1, <3>2, Amounts, SMTT(30)
    <3>4. Balance(w)[n + 1] = -(lots * q)
      <4>1. n + 1 \in w.open /\ n + 1 \in DOMAIN w.records
        BY <1>1, <2>5, <2>6
      <4>2. w.records[n + 1].paid = q /\ w.records[n + 1].lots = lots
        BY <2>2, <2>6
      <4>3. q * lots = lots * q
        BY <1>2, <1>3
      <4> QED
        BY <4>1, <4>2, <4>3 DEF Balance, Result
    <3>5. \A i \in 1..n : Balance(w)[i] = Balance(s)[i]
      <4>1. ASSUME NEW i \in 1..n PROVE Balance(w)[i] = Balance(s)[i]
        <5>1. /\ i \in DOMAIN R /\ i \in DOMAIN w.records /\ w.records[i] = R[i]
              /\ (i \in w.open <=> i \in s.open)
          BY <1>1, <2>5, <2>6
        <5> QED
          BY <5>1 DEF Balance, Result
      <4> QED
        BY <4>1
    <3>6. -(lots * q) \in Int
      BY <2>4
    <3>7. Total(Balance(w)) = Total(Balance(s)) + -(lots * q) /\ Total(Balance(s)) \in Int
      BY ONLY <3>1, <3>3, <3>4, <3>5, <3>6, TotalAppends
    <3> QED
      BY ONLY <2>4, <3>7
  <2>13. w.cash = Initial + Total(Balance(w))
    <3>1. s.cash = Initial + Total(Balance(s)) /\ Initial \in Nat
      BY <1>1, NightlyAssumption
    <3> QED
      BY ONLY <1>1, <2>4, <2>5, <2>12, <3>1
  <2> QED
    BY <2>1, <2>5, <2>9, <2>10, <2>11, <2>13 DEF Good
<1> QED
  BY <1>4, <1>5

LEMMA EnteredGood ==
  ASSUME CaptureTypeOK, NEW P, NEW s \in Good(P, added), NEW d \in Days, d \in P,
         NEW ranked, Len(ranked) \in Nat,
         \A k \in 1..Len(ranked) : ranked[k] \in Names /\ Priced(d, ranked[k])
  PROVE  Entered(s, ranked, d) \in Good(P, added) /\ Entered(s, ranked, d).processed = s.processed
<1> DEFINE X == {x \in Good(P, added) : x.processed = s.processed}
           L == Len(ranked)
           step == [p \in X \X (1..L) |-> Buy(p[1], ranked[p[2]], d)]
           next(w) == [n \in 0..L |-> IF n = 0 THEN s ELSE Buy(w[n - 1], ranked[n], d)]
           w == CHOOSE w : w = next(w)
<1>1. \A x \in X, k \in 1..L : Buy(x, ranked[k], d) \in X
  BY BuyGood
<1>2. /\ step \in [X \X (1..L) -> X]
      /\ \A x \in X, k \in 1..L : step[<<x, k>>] = Buy(x, ranked[k], d)
  BY <1>1
<1>3. s \in X
  OBVIOUS
<1> HIDE DEF X, step
<1>4. PICK u : Run(u, s, step, L, X)
  <2>1. L \in Nat
    OBVIOUS
  <2> HIDE DEF L
  <2> QED
    BY ONLY <1>2, <1>3, <2>1, RunExists, Zenon
<1>5. u \in [0..L -> X] /\ u[0] = s
  BY <1>4 DEF Run
<1>6. \A n \in 1..L : n - 1 \in 0..L /\ n \in 0..L
  OBVIOUS
<1>7. \A n \in 1..L : u[n] = Buy(u[n - 1], ranked[n], d)
  BY <1>2, <1>4, <1>5, <1>6 DEF Run
<1>8. u = next(u)
  BY <1>5, <1>6, <1>7
<1>9. w = next(w)
  BY <1>8
<1>10. Entered(s, ranked, d) = w[L]
  BY DEF Entered
<1> HIDE DEF w
<1>11. w[0] = s /\ \A n \in 1..L : w[n] = Buy(w[n - 1], ranked[n], d)
  <2>1. \A n \in 0..L : w[n] = IF n = 0 THEN s ELSE Buy(w[n - 1], ranked[n], d)
    BY <1>9
  <2>2. 0 \in 0..L /\ \A n \in 1..L : n \in 0..L /\ n # 0
    OBVIOUS
  <2> QED
    BY <2>1, <2>2
<1>12. \A n \in 0..L : u[n] = w[n]
  <2>1. u[0] = w[0] /\ \A n \in 1..L : u[n - 1] = w[n - 1] => u[n] = w[n]
    BY <1>5, <1>7, <1>11
  <2>2. L \in Nat
    OBVIOUS
  <2> HIDE DEF L
  <2> QED
    BY ONLY <2>1, <2>2, SameRun, ZenonT(90)
<1>13. w[L] \in X
  BY <1>5, <1>12
<1> QED
  BY <1>10, <1>13 DEF X

(* The days of a state grow by the day it replays, once every trade of     *)
(* that day counts it.                                                     *)
LEMMA SteppedGood ==
  ASSUME CaptureTypeOK, NEW s, s \in Good(s.processed, added), NEW d \in Days,
         \A p \in s.processed : Follows(added, p, d),
         NEW sold \in SUBSET Quoted(s, d),
         NEW ranked, Len(ranked) \in Nat,
         \A k \in 1..Len(ranked) : ranked[k] \in Names /\ Priced(d, ranked[k])
  PROVE  LET w == Stepped(s, d, sold, ranked)
         IN  w.processed = s.processed \union {d} /\ w \in Good(w.processed, added)
<1> DEFINE P == s.processed \union {d}
           a == Watched(s, d)
           b == Sell(a, sold, d)
           c == Entered(b, ranked, d)
<1>1. /\ a \in Good(s.processed, added) /\ a.processed = s.processed /\ Quoted(a, d) = Quoted(s, d)
      /\ \A i \in Quoted(s, d) : a.records[i].peak >= quote[<<d, a.records[i].name>>]
  BY WatchedGood
<1> HIDE DEF a
<1>2. b \in Good(P, added) /\ b.processed = s.processed
  BY <1>1, SellGood, ZenonT(40)
<1> HIDE DEF b
<1>3. c \in Good(P, added) /\ c.processed = s.processed
  BY <1>2, EnteredGood
<1>4. Stepped(s, d, sold, ranked) = [c EXCEPT !.processed = @ \union {d}]
  BY DEF Stepped, a, b
<1> HIDE DEF c
<1> DEFINE w == [c EXCEPT !.processed = @ \union {d}]
<1>5. c \in Replays /\ P \in SUBSET Days
  BY <1>3, ReplayTyped
<1>6. /\ w \in Replays /\ w.cash = c.cash /\ w.records = c.records /\ w.open = c.open
      /\ w.processed = P
  BY <1>3, <1>5 DEF Replays
<1> HIDE DEF w
<1>7. Balance(w) = Balance(c)
  BY <1>6 DEF Balance, Result
<1>8. w \in Good(P, added)
  BY <1>3, <1>6, <1>7 DEF Good
<1> QED
  BY <1>4, <1>6, <1>8 DEF w

LEMMA StoredGood ==
  ASSUME NEW P, NEW s \in Good(P, added)
  PROVE  Stored(s) \in Good(P, added) /\ Stored(s).processed = s.processed
<1> DEFINE w == Stored(s)
           R == s.records
<1>1. /\ s \in Replays /\ R \in Seq(Records) /\ Len(R) \in Nat /\ DOMAIN R = 1..Len(R)
      /\ \A i \in DOMAIN R : R[i] \in Records
      /\ \A i \in DOMAIN R : TradePossible(R[i], i \in s.open, P, added)
  BY ReplayTyped
<1>2. /\ w.cash = s.cash /\ w.open = s.open /\ w.processed = s.processed
      /\ w.records = [i \in DOMAIN R |-> [R[i] EXCEPT !.peak = 0]]
      /\ w = [s EXCEPT !.records = w.records]
  BY <1>1 DEF Stored, Replays
<1> HIDE DEF w
<1>3. ASSUME NEW i \in DOMAIN R
      PROVE  /\ w.records[i] \in Records
             /\ w.records[i].lots = R[i].lots /\ w.records[i].peak = 0
             /\ w.records[i].paid = R[i].paid /\ w.records[i].got = R[i].got
             /\ w.records[i].status = R[i].status /\ w.records[i].entered = R[i].entered
             /\ w.records[i].exited = R[i].exited
  <2>1. R[i] \in Records /\ w.records[i] = [R[i] EXCEPT !.peak = 0]
    BY <1>1, <1>2
  <2> HIDE DEF R
  <2> QED
    BY <2>1 DEF Records
<1>4. DOMAIN w.records = DOMAIN R
  BY <1>2
<1>5. w.records \in Seq(Records)
  <2>1. w.records \in [1..Len(R) -> Records]
    BY <1>1, <1>2, <1>3
  <2> QED
    BY <1>1, <2>1
<1>6. w \in Replays
  BY <1>1, <1>2, <1>5 DEF Replays
<1>7. Balance(w) = Balance(s)
  <2>1. \A i \in DOMAIN R : Result(w, i) = Result(s, i)
    BY <1>2, <1>3 DEF Result
  <2> QED
    BY <1>4, <2>1 DEF Balance
<1>8. \A i \in DOMAIN R : TradePossible(w.records[i], i \in w.open, P, added)
  BY <1>1, <1>2, <1>3 DEF TradePossible
<1> QED
  BY <1>2, <1>4, <1>6, <1>7, <1>8 DEF Good, w

-----------------------------------------------------------------------------
(* Days are replayed as they were added: a day that is replayed, or that   *)
(* the run has set out to replay, is earlier than every other day with a   *)
(* directory, or that other day is over and was added no sooner.           *)
Before(a, P, Q) == \A p \in P, q \in Q : Follows(a, p, q)

DaysInv ==
  /\ \A d \in dirs : d <= added[d] /\ added[d] <= day
  /\ saved.processed \subseteq dirs /\ Before(added, saved.processed, dirs \ saved.processed)
  /\ state.processed \union todo \subseteq dirs /\ Before(added, state.processed, todo)
  /\ Before(added, state.processed \union todo, dirs \ (state.processed \union todo))

ReplayInv ==
  /\ CaptureTypeOK /\ DaysInv
  /\ state \in Good(state.processed, added) /\ saved \in Good(saved.processed, added)

LEMMA FreshDays == Fresh.processed = {}
BY DEF Fresh

LEMMA ReplayInit == Init => ReplayInv
<1> SUFFICES ASSUME Init PROVE ReplayInv
  OBVIOUS
<1>1. CaptureTypeOK
  BY TypeInit
<1>2. state = Fresh /\ saved = Fresh /\ dirs = {} /\ todo = {}
  BY DEF Init, CaptureInit, dirs
<1>3. DaysInv
  BY <1>2, FreshDays DEF DaysInv, Before
<1> QED
  BY <1>1, <1>2, <1>3, FreshGood DEF ReplayInv

(* A capture or a script gives at most one day a directory, one that has   *)
(* begun.                                                                  *)
LEMMA CaptureDays ==
  ASSUME CaptureTypeOK, CaptureNext
  PROVE  /\ day' = day
         /\ added' = added \/ \E d \in Days : d <= day /\ added' = Made(d)
<1>0. day \in Days /\ day <= day /\ Filled \subseteq Days
  BY CaptureAssumption DEF CaptureTypeOK, Days
<1>1. CASE LoopFires \/ LoopWritesTide \/ LoopWritesAlerts \/ LoopRaises
  BY <1>0, <1>1 DEF LoopFires, LoopWritesTide, LoopWritesAlerts, LoopRaises, disk
<1>2. CASE \E c \in loopTodo : LoopWritesGex(c) \/ LoopWritesRest(c)
  BY <1>2 DEF LoopWritesGex, LoopWritesRest
<1>3. CASE SaverFires \/ SaverRaises
  BY <1>0, <1>3 DEF SaverFires, SaverRaises, disk
<1>4. CASE SaverWritesTide \/ SaverWritesCoverage
  BY <1>4 DEF SaverWritesTide, SaverWritesCoverage
<1>5. CASE \E t \in saverTodo : SaverWritesTicker(t)
  BY <1>5 DEF SaverWritesTicker
<1>6. CASE FlowLogged \/ \E d \in Filled : Backfill(d)
  BY <1>0, <1>6 DEF FlowLogged, Backfill
<1> QED
  BY <1>1, <1>2, <1>3, <1>4, <1>5, <1>6 DEF CaptureNext

(* Good states stay good: they look at no day that has no directory.       *)
LEMMA GoodKept ==
  ASSUME NEW P, NEW a, NEW b, \A p \in P : b[p] = a[p], NEW s \in Good(P, a)
  PROVE  s \in Good(P, b)
<1>1. ASSUME NEW r, NEW open, TradePossible(r, open, P, a) PROVE TradePossible(r, open, P, b)
  BY <1>1 DEF TradePossible, Follows
<1> QED
  BY <1>1 DEF Good

LEMMA DaysGrow ==
  ASSUME ReplayInv, day' \in {day, day + 1}, UNCHANGED <<todo, state, saved>>,
         added' = added \/ \E d \in Days : d <= day /\ added' = Made(d)
  PROVE  /\ DaysInv' /\ state' \in Good(state'.processed, added')
         /\ saved' \in Good(saved'.processed, added')
<1>1. /\ day \in Nat \ {0} /\ Days \subseteq Nat /\ \A d \in Days : added[d] \in Nat
      /\ \A d \in dirs : d <= added[d] /\ added[d] <= day
  BY CaptureAssumption DEF ReplayInv, DaysInv, CaptureTypeOK, Days
<1>2. /\ dirs \subseteq dirs' /\ dirs' \subseteq Days /\ \A d \in dirs : added'[d] = added[d]
      /\ \A d \in dirs' \ dirs : added'[d] = day /\ d <= day
  <2>1. CASE added' = added
    BY <2>1 DEF dirs
  <2>2. ASSUME NEW d \in Days, d <= day, added' = Made(d)
        PROVE  /\ dirs \subseteq dirs' /\ dirs' \subseteq Days
               /\ \A e \in dirs : added'[e] = added[e]
               /\ \A e \in dirs' \ dirs : added'[e] = day /\ e <= day
    <3>1. /\ \A e \in dirs : added'[e] = added[e]
          /\ \A e \in Days : added'[e] \in {added[e], day}
          /\ \A e \in Days \ dirs : e # d => added'[e] = 0
      BY <2>2, MadeTyped DEF ReplayInv
    <3>2. dirs = {e \in Days : added[e] # 0} /\ dirs' = {e \in Days : added'[e] # 0}
      BY DEF dirs
    <3>3. dirs \subseteq dirs'
      BY ONLY <3>1, <3>2
    <3>4. \A e \in dirs' \ dirs : added'[e] = day /\ e = d
      BY ONLY <3>1, <3>2
    <3>5. dirs' \subseteq Days
      BY ONLY <3>2
    <3>6. d <= day
      BY <2>2
    <3> QED
      BY ONLY <3>1, <3>3, <3>4, <3>5, <3>6
  <2> QED
    BY <2>1, <2>2
<1>3. \A d \in dirs' : d <= added'[d] /\ added'[d] <= day'
  BY <1>1, <1>2
<1>4. ASSUME NEW P \in SUBSET dirs, Before(added, P, dirs \ P)
      PROVE  Before(added', P, dirs' \ P)
  <2>1. ASSUME NEW p \in P, NEW q \in dirs' \ P PROVE Follows(added', p, q)
    <3>1. CASE q \in dirs
      BY <1>2, <1>4, <2>1, <3>1 DEF Before, Follows
    <3>2. CASE q \notin dirs
      <4>1. /\ p # q /\ p \in Nat /\ q \in Nat /\ added'[q] = day
            /\ added'[p] = added[p] /\ p <= added[p] /\ added[p] <= day /\ added[p] \in Nat
        BY <1>1, <1>2, <2>1, <3>2 DEF dirs
      <4> QED
        BY <1>1, <4>1 DEF Follows
    <3> QED
      BY <3>1, <3>2
  <2> QED
    BY <2>1 DEF Before
<1> DEFINE Q == state.processed \union todo
<1>5. Q \in SUBSET dirs /\ Before(added, Q, dirs \ Q) /\ Before(added, state.processed, todo)
  BY DEF ReplayInv, DaysInv
<1>6. Before(added', Q, dirs' \ Q)
  <2> HIDE DEF Q
  <2> QED
    BY <1>4, <1>5
<1>7. Before(added', state.processed, todo)
  BY <1>2, <1>5 DEF Before, Follows
<1>8. saved.processed \subseteq dirs' /\ Before(added', saved.processed, dirs' \ saved.processed)
  BY <1>2, <1>4 DEF ReplayInv, DaysInv
<1>9. DaysInv'
  BY <1>2, <1>3, <1>5, <1>6, <1>7, <1>8 DEF DaysInv
<1>10. /\ state \in Good(state.processed, added') /\ saved \in Good(saved.processed, added')
  <2>1. /\ \A p \in state.processed : added'[p] = added[p]
        /\ \A p \in saved.processed : added'[p] = added[p]
    BY <1>2 DEF ReplayInv, DaysInv
  <2> QED
    BY <2>1, GoodKept DEF ReplayInv
<1> QED
  BY <1>9, <1>10

LEMMA ReplayStep ==
  ASSUME ReplayInv, StepOneDay
  PROVE  DaysInv' /\ state' \in Good(state'.processed, added')
<1> DEFINE d == NextDate(todo)
<1>1. PICK sold \in SUBSET Quoted(state, d) :
        \E ranked \in UNION {SetToSeqs(S) : S \in SUBSET Tradable(d, Universe)} :
          state' = Stepped(state, d, sold, ranked)
  BY DEF StepOneDay
<1>2. PICK S \in SUBSET Tradable(d, Universe) : \E ranked \in SetToSeqs(S) :
          state' = Stepped(state, d, sold, ranked)
  BY <1>1
<1>3. PICK ranked \in SetToSeqs(S) : state' = Stepped(state, d, sold, ranked)
  BY <1>2
<1>4. d \in todo /\ \A e \in todo : d <= e
  <2>1. todo # {} /\ todo \in SUBSET Nat
    <3>1. Days \subseteq Nat
      BY CaptureAssumption DEF Days
    <3>2. todo # {} /\ todo \subseteq dirs /\ dirs \subseteq Days
      BY DEF StepOneDay, ReplayInv, DaysInv, dirs
    <3> QED
      BY ONLY <3>1, <3>2
  <2>2. \E m \in todo : \A e \in todo : m <= e
    BY <2>1, LeastNat
  <2> QED
    BY <2>2 DEF NextDate, Min
<1>5. d \in Days /\ todo \subseteq Days /\ CaptureTypeOK
  BY <1>4 DEF ReplayInv, DaysInv, dirs
<1> HIDE DEF d
<1>6. \A p \in state.processed : Follows(added, p, d)
  BY <1>4 DEF ReplayInv, DaysInv, Before
<1>7. Len(ranked) \in Nat /\ \A k \in 1..Len(ranked) : ranked[k] \in Names /\ Priced(d, ranked[k])
  <2>1. S \subseteq Names /\ \A t \in S : Priced(d, t)
    BY DEF Tradable, Universe
  <2>2. IsFiniteSet(S)
    BY <2>1, CaptureAssumption, FS_Subset
  <2>3. Cardinality(S) \in Nat
    BY <2>2, FS_CardinalityType
  <2>4. ranked \in [1..Cardinality(S) -> S]
    BY DEF SetToSeqs
  <2>5. Len(ranked) = Cardinality(S)
    BY ONLY <2>3, <2>4
  <2> QED
    BY ONLY <2>1, <2>3, <2>4, <2>5
<1>8. /\ state'.processed = state.processed \union {d} /\ state' \in Good(state'.processed, added)
      /\ added' = added
  <2>1. state \in Good(state.processed, added)
    BY DEF ReplayInv
  <2> QED
    <3>1. added' = added
      BY DEF StepOneDay, captureVars, disk
    <3> QED
      BY <1>3, <1>5, <1>6, <1>7, <2>1, <3>1, SteppedGood
<1>9. DaysInv'
  <2>1. todo' = todo \ {d} /\ UNCHANGED <<added, dirs, day, saved>>
    BY DEF StepOneDay, captureVars, disk, dirs, d
  <2>2. state'.processed \union todo' = state.processed \union todo
    BY <1>4, <1>8, <2>1
  <2>3. Before(added, state'.processed, todo')
    <3>1. \A e \in todo' : Follows(added, d, e)
      <4>1. \A e \in todo : e \in Nat
        BY <1>5, CaptureAssumption DEF Days
      <4> QED
        BY <1>4, <2>1, <4>1 DEF Follows
    <3> QED
      BY <1>8, <2>1, <3>1 DEF ReplayInv, DaysInv, Before
  <2> QED
    BY <2>1, <2>2, <2>3 DEF ReplayInv, DaysInv
<1> QED
  BY <1>8, <1>9

LEMMA ReplayNext == ReplayInv /\ [Next]_vars => ReplayInv'
<1> SUFFICES ASSUME ReplayInv, [Next]_vars PROVE ReplayInv'
  OBVIOUS
<1>0. CaptureTypeOK'
  BY TypeNext DEF ReplayInv
<1>1. CASE CaptureNext /\ UNCHANGED replayVars
  <2>1. UNCHANGED <<todo, state, saved>>
    BY <1>1 DEF replayVars
  <2> QED
    BY <1>0, <1>1, <2>1, CaptureDays, DaysGrow DEF ReplayInv
<1>2. CASE BacktestFires
  <2>1. UNCHANGED <<added, dirs, day, saved>>
    BY <1>2 DEF BacktestFires, disk, dirs
  <2>2. CASE UNCHANGED <<todo, state>>
    BY <1>0, <2>1, <2>2 DEF ReplayInv, DaysInv
  <2>3. CASE state' = Loaded /\ todo' = dirs \ Loaded.processed
    <3>1. Loaded \in {saved, Fresh}
      BY DEF Loaded
    <3>2. Loaded \in Good(Loaded.processed, added)
      BY <3>1, FreshGood DEF ReplayInv
    <3>3. /\ Loaded.processed \subseteq dirs
          /\ Before(added, Loaded.processed, dirs \ Loaded.processed)
      BY <3>1, FreshDays DEF ReplayInv, DaysInv, Before
    <3>4. state'.processed \union todo' = dirs
      BY <2>3, <3>3
    <3>5. DaysInv'
      BY <2>1, <2>3, <3>3, <3>4 DEF ReplayInv, DaysInv, Before
    <3> QED
      BY <1>0, <2>1, <2>3, <3>2, <3>5 DEF ReplayInv
  <2> QED
    BY <1>2, <2>2, <2>3 DEF BacktestFires
<1>3. CASE StepOneDay
  <2>1. saved' = saved /\ added' = added
    BY <1>3 DEF StepOneDay, captureVars, disk
  <2> QED
    BY <1>0, <1>3, <2>1, ReplayStep DEF ReplayInv
<1>4. CASE RunRaises \/ Crash
  <2>1. /\ todo' = {} /\ state' = Fresh /\ saved' \in {saved, Fresh}
        /\ UNCHANGED <<added, dirs, day>>
    BY <1>4 DEF RunRaises, Crash, disk, dirs
  <2>2. DaysInv'
    BY <2>1, FreshDays DEF ReplayInv, DaysInv, Before
  <2> QED
    BY <1>0, <2>1, <2>2, FreshGood DEF ReplayInv
<1>5. CASE Persist
  <2>1. /\ todo' = {} /\ state' = Fresh /\ saved' = Stored(state) /\ todo = {}
        /\ UNCHANGED <<added, dirs, day>>
    BY <1>5 DEF Persist, captureVars, disk, dirs
  <2>2. Stored(state).processed = state.processed /\ Stored(state) \in Good(state.processed, added)
    BY StoredGood DEF ReplayInv
  <2>3. DaysInv'
    BY <2>1, <2>2, FreshDays DEF ReplayInv, DaysInv, Before
  <2> QED
    BY <1>0, <2>1, <2>2, <2>3, FreshGood DEF ReplayInv
<1>6. CASE CaptureTime \/ ReplayTime \/ NextDay
  <2>1. /\ added' = added /\ day' \in {day, day + 1} /\ UNCHANGED <<todo, state, saved>>
    BY <1>6 DEF CaptureTime, ReplayTime, NextDay, disk, replayVars
  <2> QED
    BY <1>0, <2>1, DaysGrow DEF ReplayInv
<1>7. CASE UNCHANGED vars
  <2>1. UNCHANGED <<added, dirs, day, todo, state, saved>>
    BY <1>7 DEF vars, captureVars, disk, dirs, replayVars
  <2> QED
    BY <1>0, <2>1 DEF ReplayInv, DaysInv
<1> QED
  BY <1>1, <1>2, <1>3, <1>4, <1>5, <1>6, <1>7 DEF Next

LEMMA ReplayInvariant == Spec => []ReplayInv
BY ReplayInit, ReplayNext, PTL DEF Spec

LEMMA GoodStates ==
  ASSUME ReplayInv, NEW s \in States
  PROVE  s \in Good(s.processed, added)
BY DEF ReplayInv, States

(* The replay makes and loses no money: whatever nights it catches up on,  *)
(* loses or goes on from, the cash of a state is the initial capital, less *)
(* what is open, plus what each closed trade brought in over its cost, and *)
(* never negative (_step_one_day, to_dict, from_dict), for any prices,     *)
(* days and tickers.                                                       *)
THEOREM CashIsAccounted == Spec => []CashAccounted
<1>1. ReplayInv => CashAccounted
  <2> SUFFICES ASSUME ReplayInv PROVE CashAccounted
    OBVIOUS
  <2>1. ASSUME NEW s \in States
        PROVE  /\ s.cash >= 0
               /\ s.cash = Initial + Total([i \in DOMAIN s.records |->
                    IF i \in s.open THEN -(s.records[i].paid * s.records[i].lots)
                    ELSE (s.records[i].got - s.records[i].paid) * s.records[i].lots])
    <3>1. s.cash \in Nat /\ s.cash = Initial + Total(Balance(s))
      BY <2>1, GoodStates, ReplayTyped
    <3>2. Balance(s) = [i \in DOMAIN s.records |->
            IF i \in s.open THEN -(s.records[i].paid * s.records[i].lots)
            ELSE (s.records[i].got - s.records[i].paid) * s.records[i].lots]
      BY DEF Balance, Result
    <3> QED
      BY ONLY <3>1, <3>2
  <2> QED
    BY <2>1 DEF CashAccounted
<1> QED
  BY <1>1, ReplayInvariant, PTL

(* The trades of a state are ones a trader could have made: no more open   *)
(* positions than the cap, each trade entered on a replayed day, left on   *)
(* another and never above the peak its exit rules saw.  Left on a later   *)
(* one, unless a script added the day of the exit when it was over and the *)
(* day of the entry was there: a run that is lost, and made up for later   *)
(* (BacktestLoop.run_once), does not reorder the days.                     *)
THEOREM TradesArePossible == Spec => []TradesPossible
<1>1. ReplayInv => TradesPossible
  <2> SUFFICES ASSUME ReplayInv, NEW s \in States
               PROVE  /\ Cardinality(s.open) <= Cap
                      /\ \A i \in DOMAIN s.records :
                           TradePossible(s.records[i], i \in s.open, s.processed, added)
    BY DEF TradesPossible, TradePossible, Follows
  <2> QED
    BY GoodStates, ReplayTyped
<1> QED
  BY <1>1, ReplayInvariant, PTL
=============================================================================
