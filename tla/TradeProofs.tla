---------------------------- MODULE TradeProofs ----------------------------
(***************************************************************************)
(* The invariants of Trade, for any tickers, reports, alerts, contracts,   *)
(* settings, contexts and prices; first what the operators of Signals and  *)
(* ExitRules return.                                                       *)
(*                                                                         *)
(* A recursive sum is reasoned about by its partial sums (Run, SameRun),   *)
(* and an optimum by the least element of an order (MinimalExists).        *)
(***************************************************************************)
EXTENDS Trade, FiniteSetTheorems, SequenceTheorems, NaturalsInduction, WellFoundedInduction,
        TLAPS

(* Induction, by a least counterexample.                                   *)
LEMMA LeastNat ==
  ASSUME NEW T \in SUBSET Nat, T # {}
  PROVE  \E m \in T : \A k \in T : m <= k
<1>1. PICK m \in T : \A k \in T : <<k, m>> \notin OpToRel(<, Nat)
  BY WFMin, NatLessThanWellFounded, Zenon
<1>2. \A k \in T : ~(k < m)
  BY <1>1, Zenon DEF OpToRel
<1> QED
  BY <1>2

(* A run of n steps exists: from x on, each state is the step of the last. *)
Run(u, x, step, n, X) ==
  /\ u \in [0..n -> X] /\ u[0] = x
  /\ \A k \in 1..n : u[k] = step[<<u[k - 1], k>>]

LEMMA RunExists ==
  ASSUME NEW L \in Nat, NEW X, NEW x \in X, NEW step \in [X \X (1..L) -> X]
  PROVE  \E u : Run(u, x, step, L, X)
<1> DEFINE Bad == {n \in 0..L : ~\E u : Run(u, x, step, n, X)}
<1> SUFFICES ASSUME Bad # {} PROVE FALSE
  OBVIOUS
<1>1. PICK n \in Bad : \A k \in Bad : n <= k
  <2>1. Bad \in SUBSET Nat
    OBVIOUS
  <2> HIDE DEF Bad
  <2> QED
    BY <2>1, LeastNat
<1>2. n \in 0..L /\ ~\E u : Run(u, x, step, n, X)
  BY <1>1
<1>3. CASE n = 0
  <2>1. Run([k \in 0..0 |-> x], x, step, 0, X)
    BY DEF Run
  <2> QED
    BY <1>2, <1>3, <2>1
<1>4. CASE n # 0
  <2>1. n - 1 \in 0..L /\ n - 1 \notin Bad
    BY <1>1, <1>2, <1>4
  <2>2. PICK v : Run(v, x, step, n - 1, X)
    BY <2>1
  <2> DEFINE u == [k \in 0..n |-> IF k < n THEN v[k] ELSE step[<<v[n - 1], n>>]]
  <2>3. v \in [0..(n - 1) -> X] /\ v[0] = x /\ \A k \in 1..(n - 1) : v[k] = step[<<v[k - 1], k>>]
    BY <2>2 DEF Run
  <2>4. v[n - 1] \in X /\ n \in 1..L
    BY <1>2, <1>4, <2>1, <2>3
  <2>5. step[<<v[n - 1], n>>] \in X
    BY <2>4
  <2>6. \A k \in 0..n : k < n => k \in 0..(n - 1) /\ v[k] \in X
    BY <1>2, <2>3
  <2>7. u \in [0..n -> X]
    BY <2>5, <2>6
  <2>8. u[0] = x
    BY <1>2, <1>4, <2>3
  <2>9. ASSUME NEW k \in 1..n PROVE u[k] = step[<<u[k - 1], k>>]
    <3>1. k - 1 \in 0..n /\ k - 1 < n /\ u[k - 1] = v[k - 1]
      BY <1>2, <2>9
    <3>2. CASE k < n
      BY <1>2, <2>3, <2>9, <3>1, <3>2
    <3>3. CASE k = n
      BY <1>2, <2>9, <3>1, <3>3
    <3> QED
      BY <1>2, <3>2, <3>3
  <2> QED
    BY <1>2, <2>7, <2>8, <2>9 DEF Run
<1> QED
  BY <1>3, <1>4

(* Two functions that start alike and go on alike are alike.               *)
LEMMA SameRun ==
  ASSUME NEW L \in Nat, NEW u, NEW w, u[0] = w[0],
         \A n \in 1..L : u[n - 1] = w[n - 1] => u[n] = w[n]
  PROVE  \A n \in 0..L : u[n] = w[n]
<1> DEFINE Bad == {n \in 0..L : u[n] # w[n]}
<1> SUFFICES ASSUME Bad # {} PROVE FALSE
  OBVIOUS
<1>1. PICK n \in Bad : \A k \in Bad : n <= k
  <2>1. Bad \in SUBSET Nat
    OBVIOUS
  <2> HIDE DEF Bad
  <2> QED
    BY <2>1, LeastNat
<1>2. n \in 0..L /\ u[n] # w[n] /\ n # 0
  BY <1>1
<1>3. n - 1 \notin Bad /\ n - 1 \in 0..L /\ n \in 1..L
  BY <1>1, <1>2
<1> QED
  BY <1>2, <1>3

(* A strict order on a finite set has a least element.                     *)
LEMMA MinimalExists ==
  ASSUME NEW T, IsFiniteSet(T), T # {}, NEW R,
         \A x \in T : <<x, x>> \notin R,
         \A x, y, z \in T : <<x, y>> \in R /\ <<y, z>> \in R => <<x, z>> \in R
  PROVE  \E x \in T : \A y \in T : <<y, x>> \notin R
<1> DEFINE Under(x) == {y \in T : <<y, x>> \in R}
           Sizes == {n \in Nat : \E x \in T : Cardinality(Under(x)) = n}
<1>1. \A x \in T : IsFiniteSet(Under(x)) /\ Cardinality(Under(x)) \in Nat
  <2> SUFFICES ASSUME NEW x \in T PROVE IsFiniteSet(Under(x)) /\ Cardinality(Under(x)) \in Nat
    OBVIOUS
  <2>1. Under(x) \subseteq T
    OBVIOUS
  <2> HIDE DEF Under
  <2>2. IsFiniteSet(Under(x))
    BY <2>1, FS_Subset
  <2> QED
    BY <2>2, FS_CardinalityType
<1>2. PICK n \in Sizes : \A k \in Sizes : n <= k
  <2>1. Sizes \in SUBSET Nat
    OBVIOUS
  <2>2. PICK x \in T : TRUE
    OBVIOUS
  <2>3. Cardinality(Under(x)) \in Sizes
    <3> HIDE DEF Under
    <3> QED
      BY <1>1
  <2> HIDE DEF Sizes, Under
  <2> QED
    BY <2>1, <2>3, LeastNat
<1>3. PICK x \in T : Cardinality(Under(x)) = n
  BY <1>2
<1>4. ASSUME NEW y \in T, <<y, x>> \in R PROVE FALSE
  <2>1. Under(y) \subseteq Under(x) /\ Under(y) # Under(x)
    BY <1>4
  <2>2. Cardinality(Under(y)) < Cardinality(Under(x))
    <3> HIDE DEF Under
    <3>1. IsFiniteSet(Under(x))
      BY <1>1
    <3>2. /\ Cardinality(Under(y)) <= Cardinality(Under(x))
          /\ Cardinality(Under(y)) = Cardinality(Under(x)) => Under(y) = Under(x)
      BY <2>1, <3>1, FS_Subset
    <3> QED
      BY <1>1, <2>1, <3>2
  <2>3. Cardinality(Under(y)) \in Sizes
    BY <1>1
  <2> HIDE DEF Under, Sizes
  <2> QED
    BY <1>1, <1>2, <1>3, <2>2, <2>3
<1> QED
  BY <1>4

LEMMA MaxExists ==
  ASSUME NEW S, IsFiniteSet(S), S # {}, S \subseteq Int
  PROVE  Max(S) \in S /\ \A x \in S : x <= Max(S)
<1> DEFINE R == {p \in S \X S : p[1] > p[2]}
<1>1. \A x, y \in S : <<x, y>> \in R <=> x > y
  OBVIOUS
<1> HIDE DEF R
<1>2. \A x \in S : <<x, x>> \notin R
  BY <1>1
<1>3. \A x, y, z \in S : <<x, y>> \in R /\ <<y, z>> \in R => <<x, z>> \in R
  BY <1>1
<1>4. PICK m \in S : \A y \in S : <<y, m>> \notin R
  <2>1. IsFiniteSet(S) /\ S # {}
    OBVIOUS
  <2> QED
    BY ONLY <1>2, <1>3, <2>1, MinimalExists, Zenon
<1>5. ASSUME NEW y \in S PROVE m >= y
  <2>1. <<y, m>> \notin R
    BY <1>4
  <2>2. ~(y > m)
    BY <1>1, <2>1
  <2>3. y \in Int /\ m \in Int
    OBVIOUS
  <2> QED
    BY ONLY <2>2, <2>3
<1>6. Max(S) \in S /\ \A y \in S : Max(S) >= y
  BY <1>5, Zenon DEF Max
<1> QED
  BY <1>6

LEMMA MinExists ==
  ASSUME NEW S, S # {}, S \subseteq Nat
  PROVE  Min(S) \in S /\ \A x \in S : Min(S) <= x
<1>1. \E m \in S : \A x \in S : m <= x
  BY LeastNat
<1> QED
  BY <1>1, Zenon DEF Min

-----------------------------------------------------------------------------
(* Sums over the strikes of a report.                                      *)

Part(f, S, k) == IF k \in S THEN f[k] ELSE 0

Sums(u, f, S) ==
  /\ u \in [0..Max(S \union {0}) -> Int] /\ u[0] = 0
  /\ \A k \in 1..Max(S \union {0}) : u[k] = u[k - 1] + Part(f, S, k)

Strikes == {S \in SUBSET (Nat \ {0}) : IsFiniteSet(S)}

LEMMA Highest == ASSUME NEW S \in Strikes PROVE Max(S \union {0}) \in Nat
<1> DEFINE Z == S \union {0}
<1>1. IsFiniteSet(Z)
  <2>1. IsFiniteSet(S)
    BY DEF Strikes
  <2> QED
    BY <2>1, FS_AddElement
<1>2. Z # {} /\ Z \subseteq Nat /\ Z \subseteq Int
  BY DEF Strikes
<1> HIDE DEF Z
<1>3. Max(Z) \in Z
  BY <1>1, <1>2, MaxExists
<1> QED
  BY <1>2, <1>3 DEF Z

LEMMA SumsExist ==
  ASSUME NEW S \in Strikes, NEW f, \A k \in S : f[k] \in Int
  PROVE  \E u : Sums(u, f, S)
<1> DEFINE L == Max(S \union {0})
           step == [p \in Int \X (1..L) |-> p[1] + Part(f, S, p[2])]
<1>1. L \in Nat
  BY Highest
<1> HIDE DEF L
<1>2. \A k : Part(f, S, k) \in Int
  BY DEF Part
<1>3. step \in [Int \X (1..L) -> Int]
  BY <1>2
<1>4. \A x \in Int, k \in 1..L : step[<<x, k>>] = x + Part(f, S, k)
  OBVIOUS
<1> HIDE DEF step
<1>5. PICK u : Run(u, 0, step, L, Int)
  <2>1. 0 \in Int
    OBVIOUS
  <2> QED
    BY ONLY <1>1, <1>3, <2>1, RunExists, Zenon
<1>6. u \in [0..L -> Int] /\ u[0] = 0
  BY <1>5 DEF Run
<1>7. ASSUME NEW k \in 1..L PROVE u[k] = u[k - 1] + Part(f, S, k)
  <2>1. k - 1 \in 0..L
    BY <1>1
  <2>2. u[k] = step[<<u[k - 1], k>>]
    BY <1>5 DEF Run
  <2> QED
    BY <1>4, <1>6, <2>1, <2>2
<1> QED
  BY <1>6, <1>7 DEF Sums, L

LEMMA SumAtSums ==
  ASSUME NEW S \in Strikes, NEW f, NEW u, Sums(u, f, S)
  PROVE  SumAt(f, S) = u[Max(S \union {0})]
<1> DEFINE L == Max(S \union {0})
           next1(w) == [k \in 0..L |-> IF k = 0 THEN 0 ELSE w[k - 1] + Part(f, S, k)]
           w == CHOOSE w : w = next1(w)
<1>1. L \in Nat
  BY Highest
<1>2. u = next1(u)
  <2>1. u \in [0..L -> Int] /\ u[0] = 0 /\ \A k \in 1..L : u[k] = u[k - 1] + Part(f, S, k)
    BY DEF Sums
  <2> HIDE DEF L
  <2> QED
    BY <1>1, <2>1
<1>3. w = next1(w)
  BY <1>2
<1>4. SumAt(f, S) = w[L]
  BY DEF SumAt, Part
<1> HIDE DEF w, L
<1>5. w[0] = 0 /\ \A k \in 1..L : w[k] = w[k - 1] + Part(f, S, k)
  BY <1>1, <1>3
<1>6. u[0] = w[0] /\ \A k \in 1..L : u[k - 1] = w[k - 1] => u[k] = w[k]
  BY <1>5 DEF Sums, L
<1>7. \A k \in 0..L : u[k] = w[k]
  BY ONLY <1>1, <1>6, SameRun, ZenonT(60)
<1> QED
  BY <1>1, <1>4, <1>7 DEF L

(* A sum is a number, and one of magnitudes bounds what it is made from.   *)
LEMMA SumInt ==
  ASSUME NEW S \in Strikes, NEW f, \A k \in S : f[k] \in Int
  PROVE  SumAt(f, S) \in Int
<1>1. PICK u : Sums(u, f, S)
  BY SumsExist
<1>2. SumAt(f, S) = u[Max(S \union {0})]
  BY <1>1, SumAtSums
<1>3. Max(S \union {0}) \in 0..Max(S \union {0})
  BY Highest
<1> QED
  BY <1>1, <1>2, <1>3 DEF Sums

LEMMA SumBounds ==
  ASSUME NEW S \in Strikes, NEW f, \A k \in S : f[k] \in Int,
         NEW h, \A k \in S : h[k] = Mag(f[k])
  PROVE  SumAt(h, S) \in Nat /\ Mag(SumAt(f, S)) <= SumAt(h, S)
<1> DEFINE L == Max(S \union {0})
<1>1. \A k \in S : h[k] \in Int /\ h[k] >= f[k] /\ h[k] >= -f[k]
  BY DEF Mag
<1>2. PICK u : Sums(u, f, S)
  BY SumsExist
<1>3. PICK v : Sums(v, h, S)
  BY <1>1, SumsExist
<1>4. L \in Nat
  BY Highest
<1>5. SumAt(f, S) = u[L] /\ SumAt(h, S) = v[L]
  BY <1>2, <1>3, SumAtSums
<1>6. /\ u \in [0..L -> Int] /\ u[0] = 0 /\ \A k \in 1..L : u[k] = u[k - 1] + Part(f, S, k)
      /\ v \in [0..L -> Int] /\ v[0] = 0 /\ \A k \in 1..L : v[k] = v[k - 1] + Part(h, S, k)
  BY <1>2, <1>3 DEF Sums
<1>7. \A k : /\ Part(f, S, k) \in Int /\ Part(h, S, k) \in Int
             /\ Part(h, S, k) >= Part(f, S, k) /\ Part(h, S, k) >= -Part(f, S, k)
  BY <1>1 DEF Part
<1> HIDE DEF L
<1> DEFINE Bad == {k \in 0..L : ~(v[k] >= u[k] /\ v[k] >= -u[k])}
<1>8. Bad = {}
  <2> SUFFICES ASSUME Bad # {} PROVE FALSE
    OBVIOUS
  <2>1. PICK k \in Bad : \A j \in Bad : k <= j
    <3>1. Bad \in SUBSET Nat
      OBVIOUS
    <3> HIDE DEF Bad
    <3> QED
      BY <3>1, LeastNat
  <2>2. k \in 1..L /\ k - 1 \in 0..L /\ k - 1 \notin Bad /\ ~(v[k] >= u[k] /\ v[k] >= -u[k])
    BY <1>4, <1>6, <2>1
  <2>3. v[k - 1] >= u[k - 1] /\ v[k - 1] >= -u[k - 1]
    BY <2>2
  <2>4. u[k - 1] \in Int /\ v[k - 1] \in Int
    BY <1>6, <2>2
  <2>5. u[k] = u[k - 1] + Part(f, S, k) /\ v[k] = v[k - 1] + Part(h, S, k)
    BY <1>6, <2>2
  <2> HIDE DEF Bad
  <2> QED
    BY <1>7, <2>2, <2>3, <2>4, <2>5
<1>9. u[L] \in Int /\ v[L] \in Int /\ v[L] >= u[L] /\ v[L] >= -u[L]
  BY <1>4, <1>6, <1>8
<1> QED
  BY <1>5, <1>9 DEF Mag

-----------------------------------------------------------------------------
(* The exit rules.                                                         *)

Rules == {"profit_target", "earnings_gap", "thesis_invalidated",
          "trailing_stop", "stop_loss", "dte_stop"}

LEMMA PriorityRules == /\ \A i \in 1..6 : Priority[i] \in Rules
                       /\ \A r \in Rules : \E i \in 1..6 : Priority[i] = r
<1>1. /\ Priority[1] = "profit_target" /\ Priority[2] = "earnings_gap"
      /\ Priority[3] = "thesis_invalidated" /\ Priority[4] = "trailing_stop"
      /\ Priority[5] = "stop_loss" /\ Priority[6] = "dte_stop"
  BY DEF Priority
<1>2. \A i \in 1..6 : i = 1 \/ i = 2 \/ i = 3 \/ i = 4 \/ i = 5 \/ i = 6
  OBVIOUS
<1> QED
  BY <1>1, <1>2 DEF Rules

(* Reason is a rule that fires, or "none" and then no rule fires.          *)
LEMMA ReasonFires ==
  ASSUME NEW cfg, NEW p, NEW at, NEW mid, NEW days, NEW s, NEW ctx, NEW gap
  PROVE  LET r == Reason(cfg, p, at, mid, days, s, ctx, gap)
         IN  /\ r \in Rules \union {"none"}
             /\ r # "none" => Fires(r, cfg, p, at, mid, days, s, ctx, gap)
             /\ r = "none" => \A q \in Rules : ~Fires(q, cfg, p, at, mid, days, s, ctx, gap)
<1> DEFINE fires(i) == Fires(Priority[i], cfg, p, at, mid, days, s, ctx, gap)
           first == {i \in 1..6 : fires(i) /\ \A j \in 1..(i - 1) : ~fires(j)}
           r == Reason(cfg, p, at, mid, days, s, ctx, gap)
<1>1. r = IF first = {} THEN "none" ELSE Priority[CHOOSE i \in first : TRUE]
  BY DEF Reason
<1>2. ASSUME first = {} PROVE \A i \in 1..6 : ~fires(i)
  <2> DEFINE T == {i \in 1..6 : fires(i)}
  <2> SUFFICES ASSUME T # {} PROVE FALSE
    OBVIOUS
  <2>1. T \in SUBSET Nat
    OBVIOUS
  <2>2. PICK m \in T : \A k \in T : m <= k
    <3> HIDE DEF T
    <3> QED
      BY <2>1, LeastNat
  <2> HIDE DEF fires
  <2>3. m \in 1..6 /\ fires(m) /\ \A j \in 1..(m - 1) : ~fires(j)
    BY <2>2
  <2> QED
    BY <1>2, <2>3
<1>3. CASE first = {}
  <2> HIDE DEF fires
  <2>1. r = "none"
    BY <1>1, <1>3
  <2>2. \A q \in Rules : ~Fires(q, cfg, p, at, mid, days, s, ctx, gap)
    BY <1>2, <1>3, PriorityRules DEF fires
  <2> QED
    BY <2>1, <2>2
<1>4. CASE first # {}
  <2>1. PICK i \in first : r = Priority[i]
    BY <1>1, <1>4
  <2>2. i \in 1..6 /\ fires(i)
    BY <2>1
  <2>3. r \in Rules /\ r # "none"
    BY <2>1, <2>2, PriorityRules DEF Rules
  <2> QED
    BY <2>1, <2>2, <2>3
<1> QED
  BY <1>3, <1>4

LEMMA ReasonSame ==
  ASSUME NEW cfg, NEW p, NEW at, NEW mid, NEW days, NEW s, NEW ctx, NEW gap,
         NEW s2, NEW ctx2, NEW gap2,
         \A r \in Rules : Fires(r, cfg, p, at, mid, days, s, ctx, gap)
                            <=> Fires(r, cfg, p, at, mid, days, s2, ctx2, gap2)
  PROVE  Reason(cfg, p, at, mid, days, s, ctx, gap)
           = Reason(cfg, p, at, mid, days, s2, ctx2, gap2)
<1> DEFINE fires(i) == Fires(Priority[i], cfg, p, at, mid, days, s, ctx, gap)
           fires2(i) == Fires(Priority[i], cfg, p, at, mid, days, s2, ctx2, gap2)
           first == {i \in 1..6 : fires(i) /\ \A j \in 1..(i - 1) : ~fires(j)}
           first2 == {i \in 1..6 : fires2(i) /\ \A j \in 1..(i - 1) : ~fires2(j)}
<1>1. \A i \in 1..6 : fires(i) <=> fires2(i)
  BY PriorityRules
<1>2. first = first2
  <2> HIDE DEF fires, fires2
  <2>1. \A i \in 1..6 : \A j \in 1..(i - 1) : j \in 1..6
    OBVIOUS
  <2> QED
    BY <1>1, <2>1
<1>3. /\ Reason(cfg, p, at, mid, days, s, ctx, gap)
           = IF first = {} THEN "none" ELSE Priority[CHOOSE i \in first : TRUE]
      /\ Reason(cfg, p, at, mid, days, s2, ctx2, gap2)
           = IF first2 = {} THEN "none" ELSE Priority[CHOOSE i \in first2 : TRUE]
  BY DEF Reason
<1> HIDE DEF first, first2
<1> QED
  BY <1>2, <1>3

(* With the switch off, the context, the earnings date and all of a live   *)
(* setup but its direction have no say.                                    *)
LEMMA StaticRule ==
  ASSUME NEW cfg, ~cfg.dynamic, NEW p, NEW at, NEW mid, NEW days, NEW s, NEW ctx, NEW gap,
         NEW s2, NEW ctx2, NEW gap2,
         (\E x \in s : x.direction # p.type) <=> (\E x \in s2 : x.direction # p.type),
         NEW r \in Rules
  PROVE  Fires(r, cfg, p, at, mid, days, s, ctx, gap)
           <=> Fires(r, cfg, p, at, mid, days, s2, ctx2, gap2)
<1>1. AtTarget(cfg, p, at, s, ctx) <=> AtTarget(cfg, p, at, s2, ctx2)
  BY DEF AtTarget, Target, Band
<1>2. ~NearEarnings(cfg, gap) /\ ~NearEarnings(cfg, gap2)
  BY DEF NearEarnings
<1>3. ThesisGone(cfg, p, s) <=> ThesisGone(cfg, p, s2)
  BY DEF ThesisGone
<1>4. GaveBack(cfg, p, mid, ctx) <=> GaveBack(cfg, p, mid, ctx2)
  BY DEF GaveBack, Giveback
<1>5. StoppedOut(cfg, p, mid, ctx, gap) <=> StoppedOut(cfg, p, mid, ctx2, gap2)
  <2>1. /\ Stop(cfg, mid - p.entry, ctx, gap) = cfg.stopLoss * U2
        /\ Stop(cfg, mid - p.entry, ctx2, gap2) = cfg.stopLoss * U2
    BY <1>2 DEF Stop
  <2> QED
    BY <2>1 DEF StoppedOut
<1> QED
  BY <1>1, <1>2, <1>3, <1>4, <1>5 DEF Fires, Rules

-----------------------------------------------------------------------------
(* How far the thresholds reach.                                           *)

LEMMA Times ==
  ASSUME NEW a \in Int, NEW b \in Int, a <= b, NEW c \in Nat
  PROVE  a * c <= b * c /\ c * a <= c * b /\ a * c \in Int
OBVIOUS

LEMMA Units == /\ Unit \in Nat \ {0} /\ U2 \in Nat \ {0} /\ U3 \in Nat \ {0}
               /\ U2 = Unit * Unit /\ U3 = Unit * U2
<1>1. Unit \in Nat \ {0}
  BY SignalsAssumption
<1>2. \A a, b \in Nat \ {0} : a * b \in Nat \ {0}
  OBVIOUS
<1>3. U2 \in Nat \ {0}
  BY <1>1, <1>2 DEF U2
<1> QED
  BY <1>1, <1>2, <1>3 DEF U2, U3

Settings ==
  [dynamic : BOOLEAN, stopLoss : Nat, dteFloor : Nat, wallBand : Nat,
   activation : Nat, giveback : Nat, confidenceDecay : Nat, wallDrift : Nat,
   ivAdjustment : Nat, momentumAdjustment : Nat, rsiConfirm : Nat,
   rsiDiverge : Nat, earningsBuffer : Nat, spreadWide : Nat,
   liquidityAdjustment : Nat]

LEMMA ValidFields ==
  ASSUME NEW c, Valid(c)
  PROVE  /\ c \in Settings
         /\ c.dynamic \in BOOLEAN /\ c.stopLoss \in Nat \ {0} /\ c.dteFloor \in Nat
         /\ c.activation \in Nat /\ c.giveback \in Nat /\ c.confidenceDecay \in 0..Unit
         /\ c.wallDrift \in Nat /\ c.ivAdjustment \in Nat /\ c.ivAdjustment < Unit
         /\ c.earningsBuffer \in Nat
<1>1. c \in Settings
  BY DEF Valid, Settings
<1>2. /\ c.dynamic \in BOOLEAN /\ c.stopLoss \in Nat /\ c.dteFloor \in Nat
      /\ c.activation \in Nat /\ c.giveback \in Nat /\ c.confidenceDecay \in Nat
      /\ c.wallDrift \in Nat /\ c.ivAdjustment \in Nat /\ c.earningsBuffer \in Nat
  BY <1>1 DEF Settings
<1>3. /\ c.stopLoss * 100 \in Unit..(95 * Unit) /\ c.ivAdjustment * 10 \in 0..(8 * Unit)
      /\ c.confidenceDecay * 20 \in Unit..(19 * Unit)
  BY DEF Valid
<1> QED
  BY <1>1, <1>2, <1>3, Units

(* Whatever the IV, the thresholds are positive and within their room.     *)
Room(cfg) == IF cfg.dynamic THEN U2 + Unit * cfg.ivAdjustment ELSE U2

LEMMA IvRange ==
  ASSUME NEW cfg, Valid(cfg), NEW ctx \in Contexts
  PROVE  /\ Widen(cfg, ctx.iv) \in Nat \ {0} /\ Widen(cfg, ctx.iv) <= U2 + Unit * cfg.ivAdjustment
         /\ Narrow(cfg, ctx.iv) \in Nat \ {0} /\ Narrow(cfg, ctx.iv) <= U2 + Unit * cfg.ivAdjustment
<1> DEFINE a == cfg.ivAdjustment
           iv == ctx.iv
<1>1. a \in Nat /\ a < Unit /\ Unit \in Nat \ {0} /\ U2 = Unit * Unit
  BY ValidFields, Units
<1>2. iv \in -Unit..Unit \/ iv = NoIv
  BY TradeAssumption
<1>3. CASE iv = NoIv
  BY <1>1, <1>3, Units DEF Widen, Narrow
<1>4. CASE iv # NoIv
  <2>1. iv \in Int /\ iv <= Unit /\ -Unit <= iv
    BY <1>1, <1>2, <1>4
  <2>2. /\ Widen(cfg, ctx.iv) = U2 + iv * a /\ Narrow(cfg, ctx.iv) = U2 - iv * a
    BY <1>4 DEF Widen, Narrow
  <2> HIDE DEF a, iv
  <2>3. iv * a <= Unit * a /\ (-Unit) * a <= iv * a /\ iv * a \in Int
    BY <1>1, <2>1, Times
  <2>4. a * Unit < Unit * Unit /\ (-Unit) * a = -(Unit * a) /\ a * Unit = Unit * a
    <3>1. (a + 1) * Unit <= Unit * Unit
      <4>1. a + 1 \in Int /\ a + 1 <= Unit
        BY <1>1
      <4> QED
        BY ONLY <1>1, <4>1, Times
    <3>2. (a + 1) * Unit = a * Unit + Unit
      BY <1>1
    <3> QED
      BY <1>1, <3>1, <3>2
  <2> QED
    BY <1>1, <2>2, <2>3, <2>4 DEF a
<1> QED
  BY <1>2, <1>3, <1>4

LEMMA StopRange ==
  ASSUME NEW cfg, Valid(cfg), NEW ctx \in Contexts, NEW gap, NEW pnl \in Int
  PROVE  LET stop == Stop(cfg, pnl, ctx, gap)
         IN  /\ stop \in Nat \ {0} /\ stop <= cfg.stopLoss * Room(cfg)
             /\ NearEarnings(cfg, gap) /\ pnl <= 0 => stop <= cfg.stopLoss * U2
<1> DEFINE l == cfg.stopLoss
           w == Widen(cfg, ctx.iv)
           top == U2 + Unit * cfg.ivAdjustment
           stop == Stop(cfg, pnl, ctx, gap)
<1>1. /\ l \in Nat \ {0} /\ U2 \in Nat \ {0} /\ w \in Nat \ {0} /\ w <= top /\ top \in Nat
      /\ U2 <= top /\ cfg.dynamic \in BOOLEAN
  BY ValidFields, Units, IvRange
<1> HIDE DEF l, w, top
<1>2. l * U2 \in Nat \ {0} /\ l * w \in Nat \ {0} /\ l * w <= l * top /\ l * top \in Nat
  BY <1>1, Times
<1>3. CASE ~cfg.dynamic
  <2>1. ~NearEarnings(cfg, gap)
    BY <1>3 DEF NearEarnings
  <2>2. stop = l * U2 /\ Room(cfg) = U2
    BY <1>3, <2>1 DEF Stop, Room, l
  <2> QED
    BY <1>1, <1>2, <2>1, <2>2 DEF l
<1>4. CASE cfg.dynamic /\ NearEarnings(cfg, gap) /\ pnl <= 0
  <2>1. stop = Smaller(l * w, l * U2) /\ Room(cfg) = top
    BY <1>4 DEF Stop, Room, l, w, top
  <2>2. stop \in Nat \ {0} /\ stop <= l * w /\ stop <= l * U2
    BY <1>2, <2>1 DEF Smaller
  <2>3. stop <= l * Room(cfg)
    BY <1>2, <2>1, <2>2
  <2> QED
    BY <2>2, <2>3 DEF l
<1>5. CASE cfg.dynamic /\ ~(NearEarnings(cfg, gap) /\ pnl <= 0)
  <2>1. stop = l * w /\ Room(cfg) = top
    BY <1>5 DEF Stop, Room, l, w, top
  <2> QED
    BY <1>2, <1>5, <2>1 DEF l
<1> QED
  BY <1>1, <1>3, <1>4, <1>5

LEMMA GivebackRange ==
  ASSUME NEW cfg, Valid(cfg), NEW ctx \in Contexts
  PROVE  Giveback(cfg, ctx) \in Nat /\ Giveback(cfg, ctx) <= cfg.giveback * Room(cfg)
<1> DEFINE b == cfg.giveback
           w == Narrow(cfg, ctx.iv)
           top == U2 + Unit * cfg.ivAdjustment
<1>1. /\ b \in Nat /\ U2 \in Nat \ {0} /\ w \in Nat \ {0} /\ w <= top /\ top \in Nat
      /\ cfg.dynamic \in BOOLEAN
  BY ValidFields, Units, IvRange
<1>2. /\ cfg.dynamic => Giveback(cfg, ctx) = b * w /\ Room(cfg) = top
      /\ ~cfg.dynamic => Giveback(cfg, ctx) = b * U2 /\ Room(cfg) = U2
  BY DEF Giveback, Room
<1> HIDE DEF b, w, top
<1>3. b * U2 \in Nat /\ b * w \in Nat /\ b * w <= b * top
  BY <1>1, Times
<1> QED
  BY <1>1, <1>2, <1>3 DEF b

(* A position that no rule sells is within the limits.                     *)
LEMMA LossBounded ==
  ASSUME NEW e \in Nat, NEW m \in Int, NEW s \in Int, NEW t \in Int, s <= t,
         ~((m - e) * U3 <= -(s * e))
  PROVE  (e - m) * U3 < t * e
<1>1. U3 \in Nat /\ s * e <= t * e /\ s * e \in Int /\ t * e \in Int
  BY Units, Times
<1>2. (m - e) * U3 \in Int /\ (e - m) * U3 = -((m - e) * U3)
  BY <1>1
<1> QED
  BY <1>1, <1>2

LEMMA GivebackBounded ==
  ASSUME NEW e \in Nat, NEW m \in Int, NEW p \in Int, p >= e, NEW b \in Int, NEW t \in Int, b <= t,
         ~((m - e) * U3 <= (p - e) * (U3 - b))
  PROVE  (p - m) * U3 < (p - e) * t
<1>1. U3 \in Nat /\ p - e \in Nat /\ (p - e) * b <= (p - e) * t
  <2>1. U3 \in Nat /\ p - e \in Nat
    BY Units
  <2> QED
    BY ONLY <2>1, b \in Int, t \in Int, b <= t, Times
<1>2. (p - e) * (U3 - b) = (p - e) * U3 - (p - e) * b
  BY <1>1
<1>3. (p - m) * U3 = (p - e) * U3 - (m - e) * U3
  BY <1>1
<1> DEFINE x == (m - e) * U3
           y == (p - e) * U3
           z == (p - e) * b
           w == (p - e) * t
<1>4. x \in Int /\ y \in Int /\ z \in Int /\ w \in Int
  BY <1>1
<1>5. z <= w /\ ~(x <= y - z)
  BY <1>1, <1>2
<1> HIDE DEF x, y, z, w
<1>6. y - x < w
  BY <1>4, <1>5
<1> QED
  BY <1>3, <1>6 DEF x, y, w
LEMMA Assoc == ASSUME NEW a \in Int, NEW b \in Int, NEW c \in Int
               PROVE  (a * b) * c = a * (b * c) /\ a * b \in Int
OBVIOUS

LEMMA Spread == ASSUME NEW a \in Int, NEW b \in Int, NEW c \in Int
                PROVE  (a - b) * c = a * c - b * c /\ a * (b + c) = a * b + a * c
                       /\ a * c \in Int /\ b * c \in Int /\ a * b \in Int
OBVIOUS

(* HeldWithinLimits, of a position p and of the thresholds cfg.            *)
WithinLimits(cfg, p, mid, days, gap) ==
  /\ (p.entry - mid) * U3
       < (cfg.stopLoss * (IF NearEarnings(cfg, gap) THEN U2 ELSE Room(cfg))) * p.entry
  /\ NearEarnings(cfg, gap) => mid <= p.entry
  /\ (p.peak - p.entry) * Unit >= p.entry * cfg.activation /\ p.peak - p.entry > 0
       => (p.peak - mid) * U3 < ((p.peak - p.entry) * cfg.giveback) * Room(cfg)
  /\ days > cfg.dteFloor

LEMMA UnsoldWithinLimits ==
  ASSUME NEW cfg, Valid(cfg), NEW p, p.entry \in Nat \ {0}, p.peak \in Nat \ {0},
         NEW at, NEW mid \in Nat \ {0}, NEW days \in Nat, NEW s, NEW ctx \in Contexts, NEW gap,
         Reason(cfg, p, at, mid, days, s, ctx, gap) = "none"
  PROVE  WithinLimits(cfg, p, mid, days, gap)
<1> DEFINE e == p.entry
           k == p.peak
<1>1. \A q \in Rules : ~Fires(q, cfg, p, at, mid, days, s, ctx, gap)
  BY ReasonFires, Zenon
<1>2. /\ ~(NearEarnings(cfg, gap) /\ mid > e)
      /\ ~GaveBack(cfg, p, mid, ctx)
      /\ ~StoppedOut(cfg, p, mid, ctx, gap)
      /\ ~AtFloor(cfg, days)
  BY <1>1 DEF Rules, Fires
<1>3. /\ cfg.stopLoss \in Nat \ {0} /\ cfg.dteFloor \in Nat /\ cfg.activation \in Nat
      /\ cfg.giveback \in Nat /\ Unit \in Nat \ {0} /\ U2 \in Nat \ {0} /\ U3 \in Nat \ {0}
      /\ Room(cfg) \in Nat
  BY ValidFields, Units DEF Room
<1>4. e \in Nat \ {0} /\ k \in Nat \ {0}
  OBVIOUS
<1>5. (e - mid) * U3 < (cfg.stopLoss * (IF NearEarnings(cfg, gap) THEN U2 ELSE Room(cfg))) * e
  <2> DEFINE a == Stop(cfg, mid - e, ctx, gap)
             b == cfg.stopLoss * (IF NearEarnings(cfg, gap) THEN U2 ELSE Room(cfg))
  <2>1. ~((mid - e) * U3 <= -(a * e))
    BY <1>2 DEF StoppedOut
  <2>2. mid - e \in Int
    BY <1>4
  <2>3. /\ a \in Nat \ {0} /\ a <= cfg.stopLoss * Room(cfg)
        /\ NearEarnings(cfg, gap) /\ mid - e <= 0 => a <= cfg.stopLoss * U2
    <3> HIDE DEF e
    <3> QED
      BY <2>2, StopRange
  <2>4. NearEarnings(cfg, gap) => mid - e <= 0
    BY <1>2, <1>4
  <2>5. b \in Int /\ a <= b
    BY <1>3, <2>3, <2>4
  <2> HIDE DEF a, b, e
  <2>6. a \in Int /\ mid \in Int /\ e \in Nat
    BY <1>4, <2>3
  <2>7. (e - mid) * U3 < b * e
    BY ONLY <2>1, <2>5, <2>6, LossBounded
  <2> QED
    BY <2>7 DEF b
<1>6. NearEarnings(cfg, gap) => mid <= e
  BY <1>2, <1>4
<1>7. ASSUME (k - e) * Unit >= e * cfg.activation, k - e > 0
      PROVE  (k - mid) * U3 < ((k - e) * cfg.giveback) * Room(cfg)
  <2>1. k * Unit >= e * (Unit + cfg.activation)
    <3> HIDE DEF e, k
    <3>1. (k - e) * Unit = k * Unit - e * Unit /\ k * Unit \in Int /\ e * Unit \in Int
      BY <1>3, <1>4, Spread
    <3>2. e * (Unit + cfg.activation) = e * Unit + e * cfg.activation /\ e * cfg.activation \in Int
      BY <1>3, <1>4, Spread
    <3> QED
      BY <1>7, <3>1, <3>2
  <2>2. Activated(cfg, p)
    BY <1>4, <1>7, <2>1 DEF Activated, Gain, Nothing
  <2> DEFINE b == Giveback(cfg, ctx)
             t == cfg.giveback * Room(cfg)
  <2>3. ~((mid - e) * U3 <= (k - e) * (U3 - b))
    BY <1>2, <2>2 DEF GaveBack, Gain
  <2>4. b \in Int /\ t \in Int /\ b <= t
    BY <1>3, GivebackRange
  <2> HIDE DEF b, t, e, k
  <2>5. k \in Int /\ k >= e /\ mid \in Int /\ e \in Nat
    BY <1>4, <1>7
  <2>6. (k - mid) * U3 < (k - e) * t
    BY ONLY <2>3, <2>4, <2>5, GivebackBounded
  <2>7. k - e \in Int /\ cfg.giveback \in Int /\ Room(cfg) \in Int
    BY <1>3, <1>4
  <2>8. ((k - e) * cfg.giveback) * Room(cfg) = (k - e) * (cfg.giveback * Room(cfg))
    BY ONLY <2>7, Assoc
  <2> QED
    BY <2>6, <2>8 DEF t
<1>8. days > cfg.dteFloor
  BY <1>2, <1>3 DEF AtFloor
<1> QED
  BY <1>5, <1>6, <1>7, <1>8 DEF WithinLimits

(* Judged by the data it was bought on, at its entry, a position is sold   *)
(* for no reason but its target or its expiry.                             *)
LEMMA UnsoldAtEntry ==
  ASSUME NEW cfg, Valid(cfg), NEW p, p.entry \in Nat \ {0}, p.peak = p.entry, NEW s,
         p.setup = {s}, s.direction = p.type, s.conf \in Nat, s.total \in Nat, s.spot \in Nat,
         s.callWall \in Nat, s.putWall \in Nat,
         NEW days, NEW ctx \in Contexts, NEW gap
  PROVE  Reason(cfg, p, s.spot, p.entry, days, {s}, ctx, gap)
           \in {"none", "profit_target", "dte_stop"}
<1> DEFINE e == p.entry
           r == Reason(cfg, p, s.spot, p.entry, days, {s}, ctx, gap)
<1>1. r \in Rules \union {"none"} /\ (r # "none" => Fires(r, cfg, p, s.spot, p.entry, days, {s}, ctx, gap))
  BY ReasonFires, Zenon
<1>2. /\ cfg.confidenceDecay \in 0..Unit /\ cfg.wallDrift \in Nat /\ Unit \in Nat \ {0}
      /\ U3 \in Nat \ {0}
  BY ValidFields, Units
<1>3. e \in Nat \ {0} /\ e - e = 0 /\ ~(e > e) /\ ~(0 > 0)
  OBVIOUS
<1>4. ~(NearEarnings(cfg, gap) /\ p.entry > p.entry)
  BY <1>3
<1>5. ~Decayed(cfg, p, s)
  <2>1. s.conf * s.total \in Nat
    OBVIOUS
  <2>2. ~((s.conf * s.total) * Unit < (s.conf * s.total) * cfg.confidenceDecay)
    BY <1>2, <2>1, Times
  <2> DEFINE w == WallOf(s, p.type)
             d == IF w > s.spot THEN w - s.spot ELSE s.spot - w
  <2>3. w \in Nat
    BY DEF WallOf
  <2>4. d \in Nat /\ d * s.spot \in Nat
    <3>1. d \in Nat
      BY <2>3
    <3> HIDE DEF d
    <3> QED
      BY <3>1
  <2>5. ~((d * s.spot) * Unit > (d * s.spot) * Ceiling(cfg))
    <3> HIDE DEF d
    <3>1. Ceiling(cfg) \in Nat /\ Unit <= Ceiling(cfg)
      BY <1>2 DEF Ceiling
    <3>2. (d * s.spot) * Unit <= (d * s.spot) * Ceiling(cfg)
      BY <1>2, <2>4, <3>1, Times
    <3>3. (d * s.spot) * Unit \in Int /\ (d * s.spot) * Ceiling(cfg) \in Int
      BY <1>2, <2>4, <3>1, Assoc
    <3> QED
      BY <3>2, <3>3
  <2> QED
    BY <2>2, <2>5 DEF Decayed
<1>6. ~ThesisGone(cfg, p, {s})
  BY <1>5 DEF ThesisGone
<1>7. ~GaveBack(cfg, p, p.entry, ctx)
  BY <1>3 DEF GaveBack, Activated, Gain
<1>8. ~StoppedOut(cfg, p, p.entry, ctx, gap)
  <2> DEFINE a == Stop(cfg, e - e, ctx, gap)
  <2>1. a \in Nat \ {0}
    BY <1>3, StopRange
  <2> HIDE DEF a
  <2>2. a * e \in Nat \ {0}
    BY <1>3, <2>1
  <2>3. ~((e - e) * U3 <= -(a * e))
    BY <1>2, <1>3, <2>2
  <2> QED
    BY <2>3 DEF StoppedOut, a
<1>9. r \notin {"earnings_gap", "thesis_invalidated", "trailing_stop", "stop_loss"}
  BY <1>1, <1>4, <1>6, <1>7, <1>8 DEF Fires
<1> QED
  BY <1>1, <1>9 DEF Rules
-----------------------------------------------------------------------------
(* What the detector returns.                                              *)

LEMMA Images ==
  ASSUME NEW S, IsFiniteSet(S), NEW f
  PROVE  IsFiniteSet({f[x] : x \in S})
<1> DEFINE T == {f[x] : x \in S}
           h == [x \in S |-> f[x]]
<1>1. h \in Surjection(S, T)
  BY DEF Surjection
<1> HIDE DEF h, T
<1>2. IsFiniteSet(T)
  BY <1>1, FS_Surjection
<1> QED
  BY <1>2 DEF T

(* Of the strikes where f is highest there is a lowest.                    *)
LEMMA WallExists ==
  ASSUME NEW A \in Strikes, A # {}, NEW f, \A s \in A : f[s] \in Int
  PROVE  Min({s \in A : \A r \in A : f[r] <= f[s]}) \in A
<1> DEFINE R == {p \in A \X A : f[p[1]] > f[p[2]]}
           W == {s \in A : \A r \in A : f[r] <= f[s]}
<1>1. \A x, y \in A : <<x, y>> \in R <=> f[x] > f[y]
  OBVIOUS
<1> HIDE DEF R
<1>2. /\ \A x \in A : <<x, x>> \notin R
      /\ \A x, y, z \in A : <<x, y>> \in R /\ <<y, z>> \in R => <<x, z>> \in R
  BY <1>1
<1>3. IsFiniteSet(A) /\ A # {}
  BY DEF Strikes
<1>4. PICK m \in A : \A y \in A : <<y, m>> \notin R
  BY ONLY <1>2, <1>3, MinimalExists, Zenon
<1>5. \A y \in A : f[y] <= f[m]
  <2> SUFFICES ASSUME NEW y \in A PROVE f[y] <= f[m]
    OBVIOUS
  <2>1. ~(f[y] > f[m]) /\ f[y] \in Int /\ f[m] \in Int
    BY <1>1, <1>4
  <2> QED
    BY ONLY <2>1
<1>6. W # {} /\ W \subseteq Nat /\ W \subseteq A
  BY <1>5 DEF Strikes
<1> HIDE DEF W
<1>7. Min(W) \in W
  BY <1>6, MinExists
<1> QED
  BY <1>6, <1>7 DEF W

LEMMA ReportTyped ==
  ASSUME NEW g \in Reports
  PROVE  /\ DOMAIN g \in Strikes /\ \A s \in DOMAIN g : g[s] \in Int
         /\ \A S \in SUBSET DOMAIN g : S \in Strikes
<1>1. IsFiniteSet(DOMAIN g) /\ DOMAIN g \subseteq Nat \ {0} /\ g \in [DOMAIN g -> Int]
  BY PipelineAssumption
<1>2. \A S \in SUBSET DOMAIN g : IsFiniteSet(S)
  <2> DEFINE D == DOMAIN g
  <2> SUFFICES ASSUME NEW S \in SUBSET D PROVE IsFiniteSet(S)
    OBVIOUS
  <2>1. IsFiniteSet(D)
    BY <1>1
  <2> HIDE DEF D
  <2> QED
    BY <2>1, FS_Subset
<1> QED
  BY <1>1, <1>2 DEF Strikes

LEMMA WallsTyped ==
  ASSUME NEW g \in Reports, NEW at
  PROVE  CallWall(g, at) \in Nat /\ PutWall(g, at) \in Nat
<1> DEFINE A == Above(g, at)
           B == Below(g, at)
           h == [s \in B |-> -g[s]]
<1>1. A \subseteq DOMAIN g /\ B \subseteq DOMAIN g
  BY DEF Above, Below
<1>2. A \in Strikes /\ B \in Strikes /\ (\A s \in A : g[s] \in Int) /\ (\A s \in B : g[s] \in Int)
  BY <1>1, ReportTyped
<1>3. \A s \in Strikes : s \subseteq Nat
  BY DEF Strikes
<1>4. CallWall(g, at) \in Nat
  <2>1. CASE A = {}
    BY <2>1 DEF CallWall, None
  <2>2. CASE A # {}
    <3> DEFINE W == Min({s \in A : \A r \in A : g[r] <= g[s]})
    <3>1. CallWall(g, at) = W
      BY <2>2 DEF CallWall
    <3>2. W \in A
      <4> HIDE DEF A
      <4> QED
        BY <1>2, <2>2, WallExists
    <3> HIDE DEF A, W
    <3> QED
      BY <1>2, <1>3, <3>1, <3>2
  <2> QED
    BY <2>1, <2>2
<1>5. PutWall(g, at) \in Nat
  <2>1. CASE B = {}
    BY <2>1 DEF PutWall, None
  <2>2. CASE B # {}
    <3> DEFINE W == {s \in B : \A r \in B : g[s] <= g[r]}
               V == {s \in B : \A r \in B : h[r] <= h[s]}
    <3>1. PutWall(g, at) = Min(W)
      BY <2>2 DEF PutWall
    <3>2. (\A s \in B : h[s] \in Int) /\ W = V
      <4> HIDE DEF B
      <4>1. \A s \in B : h[s] = -g[s] /\ g[s] \in Int
        BY <1>2
      <4> HIDE DEF h
      <4>2. \A r, s \in B : h[r] <= h[s] <=> g[s] <= g[r]
        BY <4>1
      <4> QED
        BY <4>1, <4>2
    <3>3. Min(V) \in B
      <4> HIDE DEF B, h
      <4> QED
        BY <1>2, <2>2, <3>2, WallExists
    <3> HIDE DEF B, W, V
    <3> QED
      BY <1>2, <1>3, <3>1, <3>2, <3>3
  <2> QED
    BY <2>1, <2>2
<1> QED
  BY <1>4, <1>5

(* The structure confidence is a fraction.                                 *)
LEMMA ConfidenceTyped ==
  ASSUME NEW g \in Reports
  PROVE  Confidence(g) \in Nat /\ Total(g) \in Nat /\ Confidence(g) <= Total(g)
<1> DEFINE D == DOMAIN g
           h == Magnitudes(g)
           threes == {T \in SUBSET D : Cardinality(T) = 3}
           groups == IF threes = {} THEN {D} ELSE threes
           sums == {SumAt(h, T) : T \in groups}
<1>1. D \in Strikes /\ (\A s \in D : g[s] \in Int) /\ \A S \in SUBSET D : S \in Strikes
  BY ReportTyped
<1>2. \A s \in D : h[s] = Mag(g[s]) /\ h[s] \in Int
  BY <1>1 DEF Magnitudes, Mag
<1> HIDE DEF h, D
<1>3. SumAt(h, D) \in Nat /\ Mag(SumAt(g, D)) <= SumAt(h, D)
  BY <1>1, <1>2, SumBounds
<1>4. Mag(SumAt(g, D)) \in Nat
  <2>1. SumAt(g, D) \in Int
    BY <1>1, SumInt
  <2> QED
    BY <2>1 DEF Mag
<1>5. \A T \in groups : T \in SUBSET D
  OBVIOUS
<1>6. \A T \in groups : SumAt(h, T) \in Nat
  <2> SUFFICES ASSUME NEW T \in groups PROVE SumAt(h, T) \in Nat
    OBVIOUS
  <2>1. T \in SUBSET D
    BY <1>5
  <2> HIDE DEF groups
  <2>2. T \in Strikes /\ (\A s \in T : g[s] \in Int) /\ (\A s \in T : h[s] = Mag(g[s]))
    BY <1>1, <1>2, <2>1
  <2> QED
    BY ONLY <2>2, SumBounds
<1>7. IsFiniteSet(groups)
  <2>1. IsFiniteSet(D)
    BY <1>1 DEF Strikes
  <2>2. IsFiniteSet(SUBSET D)
    BY <2>1, FS_SUBSET
  <2>3. groups \in SUBSET (SUBSET D)
    BY <1>5
  <2> HIDE DEF groups
  <2> QED
    BY <2>2, <2>3, FS_Subset
<1>8. groups # {}
  OBVIOUS
<1>9. Top3(g) = Max(sums)
  BY DEF Top3, h, D
<1>10. Max(sums) \in sums
  <2> DEFINE f == [T \in groups |-> SumAt(h, T)]
             image == {f[T] : T \in groups}
  <2>1. sums = image
    OBVIOUS
  <2>2. IsFiniteSet(image)
    <3> HIDE DEF f, groups
    <3> QED
      BY <1>7, Images
  <2>3. sums # {} /\ sums \subseteq Int
    BY <1>6, <1>8
  <2> HIDE DEF sums, image
  <2>4. IsFiniteSet(sums)
    BY <2>1, <2>2
  <2> QED
    BY <2>3, <2>4, MaxExists
<1>11. Top3(g) \in Nat
  <2> HIDE DEF groups
  <2> QED
    BY <1>6, <1>9, <1>10
<1>12. Net(g) = SumAt(g, D) /\ Total(g) = SumAt(h, D)
  BY DEF Net, Total, h, D
<1> DEFINE two == {Top3(g), Mag(Net(g))}
<1>13. two # {} /\ two \subseteq Nat /\ Mag(Net(g)) \in two
  BY <1>4, <1>11, <1>12
<1>14. Confidence(g) = Min(two)
  BY DEF Confidence
<1> HIDE DEF two
<1>15. Min(two) \in two /\ Min(two) <= Mag(Net(g))
  BY <1>13, MinExists
<1>16. Confidence(g) \in Nat /\ Confidence(g) <= Mag(Net(g))
  BY <1>13, <1>14, <1>15
<1>17. Mag(Net(g)) <= Total(g) /\ Mag(Net(g)) \in Nat /\ Total(g) \in Nat
  BY <1>3, <1>4, <1>12
<1> QED
  BY <1>16, <1>17

Setups ==
  [direction : {"call", "put", "none"}, target : Nat, callWall : Nat, putWall : Nat,
   conf : Nat, total : Nat, spot : Spots]

(* A setup with a direction is of a clear regime; its target is a wall.    *)
LEMMA DetectTyped ==
  ASSUME NEW g \in Reports, NEW at \in Spots
  PROVE  LET s == Detect(g, at)
         IN  /\ s \in Setups /\ s.conf <= s.total /\ s.spot = at
             /\ s.direction # "none" => Regime(g) # "mixed" /\ s.direction = Direction(g, at)
<1>1. /\ CallWall(g, at) \in Nat /\ PutWall(g, at) \in Nat /\ Total(g) \in Nat
      /\ Confidence(g) \in Nat /\ Confidence(g) <= Total(g)
  BY WallsTyped, ConfidenceTyped
<1>2. Direction(g, at) \in {"call", "put", "none"}
  BY DEF Direction
<1>3. Direction(g, at) # "none" => Regime(g) # "mixed"
  BY DEF Direction
<1>4. CASE Total(g) = 0
  BY <1>4 DEF Detect, NoSetup, Setups, None
<1>5. CASE Total(g) # 0
  <2> DEFINE d == Direction(g, at)
             target == CASE d = "call" -> CallWall(g, at) [] d = "put" -> PutWall(g, at)
                         [] OTHER -> None
  <2>1. Detect(g, at) =
          [direction |-> d, target |-> target, callWall |-> CallWall(g, at),
           putWall |-> PutWall(g, at), conf |-> Confidence(g), total |-> Total(g), spot |-> at]
    BY <1>5 DEF Detect
  <2>2. target \in Nat
    BY <1>1, <1>2 DEF None
  <2> HIDE DEF target
  <2> QED
    BY <1>1, <1>2, <1>3, <2>1, <2>2 DEF Setups
<1> QED
  BY <1>4, <1>5
-----------------------------------------------------------------------------
(* What the scorer, the ranking and the selector return.                   *)

LEMMA Quotient == ASSUME NEW a \in Int, NEW b \in Nat \ {0} PROVE a \div b \in Int
OBVIOUS

LEMMA Product == ASSUME NEW a \in Int, NEW b \in Int PROVE a * b \in Int
OBVIOUS

LEMMA ClampRange == ASSUME NEW x \in Int PROVE Clamp(x) \in 0..Unit
BY Units DEF Clamp

LEMMA NeutralInt == Neutral \in Int
BY Units, Quotient DEF Neutral

LEMMA MagNat == ASSUME NEW x \in Int PROVE Mag(x) \in Nat /\ (Mag(x) = 0 <=> x = 0)
BY DEF Mag

LEMMA ShareInt ==
  ASSUME NEW whole, IsFiniteSet(whole), NEW part \in SUBSET whole
  PROVE  Share(part, whole) \in Int
<1>1. CASE whole = {}
  BY <1>1, NeutralInt DEF Share
<1>2. CASE whole # {}
  <2>1. IsFiniteSet(part)
    BY FS_Subset
  <2>2. Cardinality(part) \in Nat
    BY <2>1, FS_CardinalityType
  <2>3. Cardinality(whole) \in Nat
    BY FS_CardinalityType
  <2>4. Cardinality(whole) # 0
    BY <1>2, FS_EmptySet
  <2>5. Cardinality(part) * Unit \in Int
    BY <2>2, Units, Product
  <2>6. (Cardinality(part) * Unit) \div Cardinality(whole) \in Int
    <3> DEFINE a == Cardinality(part) * Unit
               b == Cardinality(whole)
    <3>1. a \in Int /\ b \in Nat \ {0}
      BY <2>3, <2>4, <2>5
    <3> HIDE DEF a, b
    <3>2. a \div b \in Int
      BY <3>1, Quotient
    <3> QED
      BY <3>2 DEF a, b
  <2> QED
    BY <1>2, <2>6 DEF Share
<1> QED
  BY <1>1, <1>2

LEMMA TideInt ==
  ASSUME NEW call \in Int, NEW put \in Int, NEW direction
  PROVE  TideScore(call, put, direction) \in Int
<1> DEFINE total == Mag(call) + Mag(put)
           bias == IF direction = "call" THEN call + put ELSE -(call + put)
<1>1. total \in Nat /\ bias \in Int
  BY MagNat
<1>2. CASE total = 0
  BY <1>2, NeutralInt DEF TideScore
<1>3. CASE total # 0
  <2>1. TideScore(call, put, direction) = ((bias + total) * Unit) \div (2 * total)
    BY <1>3 DEF TideScore
  <2> HIDE DEF total, bias
  <2>2. bias + total \in Int /\ Unit \in Int /\ 2 * total \in Nat \ {0}
    BY <1>1, <1>3, Units
  <2> DEFINE a == (bias + total) * Unit
             b == 2 * total
  <2>3. a \in Int /\ b \in Nat \ {0}
    BY <2>2, Product
  <2> HIDE DEF a, b
  <2>4. a \div b \in Int
    BY <2>3, Quotient
  <2> QED
    BY <2>1, <2>4 DEF a, b
<1> QED
  BY <1>2, <1>3

LEMMA IvInt ==
  ASSUME NEW iv, DOMAIN iv \subseteq Int, \A d \in DOMAIN iv : iv[d] \in Int
  PROVE  IvScore(iv) \in Int
<1> DEFINE D == DOMAIN iv
           closest == CHOOSE d \in D : \A e \in D : Mag(d - 30) <= Mag(e - 30)
<1>1. CASE D = {}
  BY <1>1, NeutralInt DEF IvScore
<1>2. CASE D # {}
  <2> DEFINE T == {Mag(d - 30) : d \in D}
  <2>1. T \in SUBSET Nat /\ T # {}
    BY <1>2, MagNat
  <2>2. PICK m \in T : \A k \in T : m <= k
    <3> HIDE DEF T
    <3> QED
      BY <2>1, LeastNat
  <2>3. \E d \in D : \A e \in D : Mag(d - 30) <= Mag(e - 30)
    BY <2>2
  <2> HIDE DEF D, T
  <2>4. closest \in D
    BY <2>3
  <2> HIDE DEF closest
  <2>5. Unit - iv[closest] \in Int
    BY <2>4, Units DEF D
  <2>6. IvScore(iv) = Clamp(Unit - iv[closest])
    BY <1>2 DEF IvScore, closest, D
  <2>7. Clamp(Unit - iv[closest]) \in 0..Unit
    BY <2>5, ClampRange
  <2> QED
    BY <2>6, <2>7
<1> QED
  BY <1>1, <1>2

LEMMA TechnicalInt ==
  ASSUME NEW rsi, rsi \subseteq Int, NEW macd, macd \subseteq Int, NEW direction
  PROVE  TechnicalScore(rsi, macd, direction) \in Int
<1> DEFINE x == CHOOSE x \in rsi : TRUE
           y == CHOOSE y \in macd : TRUE
           r == RsiScore(x, direction)
           m == MacdScore(y, direction)
<1>1. rsi # {} => r \in Int
  <2> SUFFICES ASSUME rsi # {} PROVE r \in Int
    OBVIOUS
  <2>1. x \in Int
    OBVIOUS
  <2> HIDE DEF x
  <2> DEFINE tenths == IF direction = "call"
                         THEN CASE x < 30 -> 3 [] x \in 30..49 -> 9 [] x \in 50..59 -> 7
                                [] x \in 60..69 -> 4 [] OTHER -> 1
                         ELSE CASE x > 70 -> 9 [] x \in 61..70 -> 7 [] x \in 51..60 -> 4
                                [] x \in 31..50 -> 2 [] OTHER -> 1
  <2>2. r = (tenths * Unit) \div 10
    BY DEF RsiScore
  <2>3. tenths \in Int
    BY <2>1
  <2> HIDE DEF tenths, r
  <2>4. tenths * Unit \in Int
    BY <2>3, Units
  <2> QED
    BY <2>2, <2>4
<1>2. macd # {} => m \in Int
  BY Units DEF MacdScore
<1>3. TechnicalScore(rsi, macd, direction) =
        CASE rsi = {} /\ macd = {} -> Neutral
          [] rsi # {} /\ macd = {} -> r
          [] rsi = {} /\ macd # {} -> m
          [] OTHER -> (r + m) \div 2
  BY DEF TechnicalScore
<1> HIDE DEF r, m
<1>4. rsi # {} /\ macd # {} => (r + m) \div 2 \in Int
  BY <1>1, <1>2
<1> QED
  BY <1>1, <1>2, <1>3, <1>4, NeutralInt
DataOK(d) ==
  /\ d.darkpool \in Int /\ IsFiniteSet(DOMAIN d.ticks)
  /\ DOMAIN d.iv \subseteq Int /\ \A x \in DOMAIN d.iv : d.iv[x] \in Int
  /\ d.rsi \subseteq Int /\ d.macd \subseteq Int

LEMMA DataTyped == \A d \in DataPool \union {NoData} : DataOK(d)
<1>1. \A d \in DataPool : DataOK(d)
  BY PipelineAssumption DEF DataOK
<1>2. DataOK(NoData)
  <2>1. /\ NoData.darkpool = 0 /\ NoData.ticks = <<>> /\ NoData.iv = <<>>
        /\ NoData.rsi = {} /\ NoData.macd = {}
    BY DEF NoData
  <2>2. DOMAIN <<>> = {}
    OBVIOUS
  <2> QED
    BY <2>1, <2>2, FS_EmptySet DEF DataOK
<1> QED
  BY <1>1, <1>2

LEMMA FlowInt ==
  ASSUME NEW own, IsFiniteSet(own), NEW ticks, IsFiniteSet(DOMAIN ticks), NEW direction
  PROVE  FlowScore(own, ticks, direction) \in Int
<1> DEFINE part == {a \in own : a.type = direction}
           D == DOMAIN ticks
           half == {i \in D : ticks[i] = direction}
<1>1. part \in SUBSET own /\ half \in SUBSET D
  OBVIOUS
<1>2. FlowScore(own, ticks, direction) = (6 * Share(part, own) + 4 * Share(half, D)) \div 10
  BY DEF FlowScore
<1>3. IsFiniteSet(D)
  OBVIOUS
<1> HIDE DEF part, half, D
<1>4. Share(part, own) \in Int
  BY <1>1, ShareInt
<1>5. Share(half, D) \in Int
  BY <1>1, <1>3, ShareInt
<1> QED
  BY <1>2, <1>4, <1>5

LEMMA CompositeRange ==
  ASSUME NEW s, s.market_tide \in Int, s.darkpool \in Int, s.flow_pressure \in Int,
         s.iv_cost \in Int, s.technicals \in Int
  PROVE  Composite(s) \in 0..Unit
<1> DEFINE sum == Weights.market_tide * s.market_tide + Weights.darkpool * s.darkpool
                    + Weights.flow_pressure * s.flow_pressure
                    + Weights.iv_cost * s.iv_cost + Weights.technicals * s.technicals
<1>1. Composite(s) = Clamp(sum \div Unit)
  BY DEF Composite
<1>2. sum \in Int
  <2>1. /\ Weights.market_tide \in Int /\ Weights.darkpool \in Int
        /\ Weights.flow_pressure \in Int /\ Weights.iv_cost \in Int /\ Weights.technicals \in Int
    BY SignalsAssumption DEF Features
  <2> QED
    BY <2>1
<1> HIDE DEF sum
<1>3. sum \div Unit \in Int
  BY <1>2, Units, Quotient
<1> QED
  BY <1>1, <1>3, ClampRange

LEMMA ScoreRange ==
  ASSUME alerts \subseteq AlertPool, tide \in Int \X Int, NEW t, DataOK(other[t]), NEW direction
  PROVE  Score(t, direction) \in 0..Unit
<1> DEFINE d == other[t]
           own == {a \in alerts : a.ticker = t}
           s == [market_tide |-> TideScore(tide[1], tide[2], direction),
                 darkpool |-> DarkpoolScore(d.darkpool),
                 flow_pressure |-> FlowScore(own, d.ticks, direction),
                 iv_cost |-> IvScore(d.iv),
                 technicals |-> TechnicalScore(d.rsi, d.macd, direction)]
<1>1. Score(t, direction) = Composite(s)
  BY DEF Score
<1>2. s.market_tide \in Int
  BY TideInt
<1>3. s.darkpool \in Int
  <2>1. (d.darkpool * Unit) \div DarkpoolCap \in Int
    <3> DEFINE a == d.darkpool * Unit
    <3>1. a \in Int /\ DarkpoolCap \in Nat \ {0}
      BY Units, SignalsAssumption DEF DataOK
    <3> HIDE DEF a
    <3>2. a \div DarkpoolCap \in Int
      BY <3>1, Quotient
    <3> QED
      BY <3>2 DEF a
  <2>2. Clamp((d.darkpool * Unit) \div DarkpoolCap) \in 0..Unit
    BY <2>1, ClampRange
  <2> QED
    BY <2>2 DEF DarkpoolScore
<1>4. s.flow_pressure \in Int
  <2>1. IsFiniteSet(AlertPool) /\ own \in SUBSET AlertPool
    BY PipelineAssumption
  <2>3. IsFiniteSet(DOMAIN d.ticks)
    BY DEF DataOK
  <2> HIDE DEF own
  <2>4. IsFiniteSet(own)
    BY <2>1, FS_Subset
  <2> QED
    BY <2>3, <2>4, FlowInt
<1>5. s.iv_cost \in Int
  BY IvInt DEF DataOK
<1>6. s.technicals \in Int
  BY TechnicalInt DEF DataOK
<1> HIDE DEF s
<1> QED
  BY <1>1, <1>2, <1>3, <1>4, <1>5, <1>6, CompositeRange

(* The selector returns one of the eligible contracts.                     *)
LEMMA PreferredEligible ==
  ASSUME NEW T \in SUBSET Offered, T # {}, NEW target \in Nat
  PROVE  Preferred(T, target) \in T
<1> DEFINE far(c) == IF target = None THEN 0 ELSE Mag(c.strike - target)
           before(c, d) == \/ far(c) < far(d)
                           \/ far(c) = far(d) /\ c.spread < d.spread
                           \/ far(c) = far(d) /\ c.spread = d.spread /\ c.oi > d.oi
           R == {p \in T \X T : before(p[1], p[2])}
<1>1. \A c \in T : c.strike \in Int /\ c.spread \in Int /\ c.oi \in Int
  BY PipelineAssumption
<1>2. \A c \in T : far(c) \in Int
  BY <1>1, MagNat
<1>3. \A c, d \in T : <<c, d>> \in R <=> before(c, d)
  OBVIOUS
<1> HIDE DEF R, far
<1>4. \A c \in T : <<c, c>> \notin R
  BY <1>1, <1>2, <1>3
<1>5. \A c, d, e \in T : <<c, d>> \in R /\ <<d, e>> \in R => <<c, e>> \in R
  BY <1>1, <1>2, <1>3
<1>6. IsFiniteSet(T) /\ T # {}
  <2>1. IsFiniteSet(Offered)
    BY PipelineAssumption
  <2> QED
    BY <2>1, FS_Subset
<1>7. PICK c \in T : \A d \in T : <<d, c>> \notin R
  BY ONLY <1>4, <1>5, <1>6, MinimalExists, Zenon
<1>8. \E c0 \in T : \A d \in T : ~before(d, c0)
  BY <1>3, <1>7
<1>9. Preferred(T, target) = CHOOSE c0 \in T : \A d \in T : ~before(d, c0)
  BY DEF Preferred, far
<1> HIDE DEF before
<1> QED
  BY <1>8, <1>9, Zenon
(* Counting those before gives each element of a strict total order a      *)
(* place of its own, and every place an element.                           *)
Under(R, D, i) == {j \in D : <<j, i>> \in R}
Places(R, D) == [i \in D |-> 1 + Cardinality(Under(R, D, i))]

LEMMA PlacesFill ==
  ASSUME NEW D, IsFiniteSet(D), NEW R,
         \A i \in D : <<i, i>> \notin R,
         \A i, j, k \in D : <<i, j>> \in R /\ <<j, k>> \in R => <<i, k>> \in R,
         \A i, j \in D : i # j => <<i, j>> \in R \/ <<j, i>> \in R
  PROVE  /\ Places(R, D) \in [D -> 1..Cardinality(D)]
         /\ \A i, j \in D : <<i, j>> \in R => Places(R, D)[i] < Places(R, D)[j]
         /\ \A n \in 1..Cardinality(D) : \E i \in D : Places(R, D)[i] = n
<1> DEFINE N == Cardinality(D)
           place == Places(R, D)
<1>1. N \in Nat
  BY FS_CardinalityType
<1>2. ASSUME NEW i \in D
      PROVE  IsFiniteSet(Under(R, D, i)) /\ Cardinality(Under(R, D, i)) \in 0..(N - 1)
  <2> DEFINE U == Under(R, D, i)
  <2>1. U \in SUBSET D /\ i \notin U
    BY DEF Under
  <2> HIDE DEF U
  <2>2. IsFiniteSet(U) /\ Cardinality(U) <= N /\ (N = Cardinality(U) => D = U)
    BY <2>1, FS_Subset
  <2>3. Cardinality(U) \in Nat
    BY <2>2, FS_CardinalityType
  <2> QED
    BY <1>1, <2>1, <2>2, <2>3 DEF U
<1>3. ASSUME NEW i \in D, NEW j \in D, <<i, j>> \in R
      PROVE  Cardinality(Under(R, D, i)) < Cardinality(Under(R, D, j))
  <2> DEFINE U == Under(R, D, i)
             V == Under(R, D, j)
  <2>1. U \in SUBSET V /\ U # V
    BY <1>3 DEF Under
  <2>2. IsFiniteSet(V) /\ Cardinality(V) \in Int /\ Cardinality(U) \in Int
    BY <1>2
  <2> HIDE DEF U, V
  <2>3. Cardinality(U) <= Cardinality(V) /\ (Cardinality(V) = Cardinality(U) => V = U)
    BY ONLY <2>1, <2>2, FS_Subset
  <2>4. Cardinality(U) < Cardinality(V)
    BY <2>1, <2>2, <2>3
  <2> QED
    BY <2>4 DEF U, V
<1>4. \A i \in D : place[i] = 1 + Cardinality(Under(R, D, i))
  BY DEF Places
<1>5. place \in [D -> 1..N]
  <2>1. \A i \in D : 1 + Cardinality(Under(R, D, i)) \in 1..N
    BY <1>1, <1>2
  <2> QED
    BY <2>1 DEF Places
<1> HIDE DEF place, N
<1>6. \A i, j \in D : <<i, j>> \in R => place[i] < place[j]
  <2> SUFFICES ASSUME NEW i \in D, NEW j \in D, <<i, j>> \in R PROVE place[i] < place[j]
    OBVIOUS
  <2>1. /\ Cardinality(Under(R, D, i)) < Cardinality(Under(R, D, j))
        /\ Cardinality(Under(R, D, i)) \in Int /\ Cardinality(Under(R, D, j)) \in Int
    BY <1>1, <1>2, <1>3
  <2> QED
    BY <1>4, <2>1
<1>7. \A i, j \in D : i # j => place[i] # place[j]
  <2> SUFFICES ASSUME NEW i \in D, NEW j \in D, i # j PROVE place[i] # place[j]
    OBVIOUS
  <2>1. place[i] \in Int /\ place[j] \in Int
    BY <1>1, <1>5
  <2>2. place[i] < place[j] \/ place[j] < place[i]
    <3>1. <<i, j>> \in R \/ <<j, i>> \in R
      OBVIOUS
    <3> QED
      BY <1>6, <3>1, Zenon
  <2> QED
    BY <2>1, <2>2
<1> DEFINE T == 1..N
<1>8. place \in Injection(D, T)
  BY <1>5, <1>7 DEF Injection, IsInjective
<1>9. IsFiniteSet(T) /\ Cardinality(T) = N
  <2>1. IsFiniteSet(1..N) /\ Cardinality(1..N) = IF 1 > N THEN 0 ELSE N - 1 + 1
    <3>1. 1 \in Int /\ N \in Int
      BY <1>1
    <3> QED
      BY ONLY <3>1, FS_Interval
  <2> QED
    BY <1>1, <2>1
<1> HIDE DEF T
<1>10. Cardinality(D) = Cardinality(T) <=> place \in Surjection(D, T)
  BY ONLY <1>8, <1>9, FS_Injection
<1>11. place \in Surjection(D, T)
  BY <1>9, <1>10 DEF N
<1>12. \A n \in T : \E i \in D : place[i] = n
  BY <1>11 DEF Surjection
<1> QED
  BY <1>5, <1>6, <1>12 DEF place, T, N

(* BlendScorer.rank loses no candidate and repeats none, and those that    *)
(* are proposed come first, by descending score.                           *)
THEOREM RankedPermutes ==
  ASSUME NEW f, IsFiniteSet(DOMAIN f), DOMAIN f \subseteq Nat,
         \A i \in DOMAIN f : f[i].score \in Int
  PROVE  LET N == Cardinality(DOMAIN f)
         IN  \E from \in [1..N -> DOMAIN f] :
               /\ \A i \in DOMAIN f : \E n \in 1..N : from[n] = i
               /\ Ranked(f) = [n \in 1..N |-> f[from[n]]]
               /\ \A m, n \in 1..N :
                    m < n /\ f[from[n]].status = "proposed" =>
                      f[from[m]].status = "proposed" /\ f[from[m]].score >= f[from[n]].score
<1> DEFINE D == DOMAIN f
           N == Cardinality(D)
           active == {i \in D : f[i].status = "proposed"}
           before(i, j) == \/ i \in active /\ j \notin active
                           \/ /\ (i \in active) = (j \in active)
                              /\ \/ i \in active /\ f[i].score > f[j].score
                                 \/ (i \in active => f[i].score = f[j].score) /\ i < j
           R == {p \in D \X D : before(p[1], p[2])}
           place == Places(R, D)
           from == [n \in 1..N |-> CHOOSE i \in D : place[i] = n]
<1>1. \A i, j \in D : <<i, j>> \in R <=> before(i, j)
  OBVIOUS
<1>2. \A i \in D : i \in Nat /\ f[i].score \in Int
  OBVIOUS
<1>3. IsFiniteSet(D)
  OBVIOUS
<1>4. \A i \in D : {j \in D : before(j, i)} = Under(R, D, i)
  BY <1>1 DEF Under
<1>5. \A i \in D : 1 + Cardinality({j \in D : before(j, i)}) = place[i]
  <2> HIDE DEF before, R
  <2> QED
    BY <1>4 DEF Places
<1>6. Ranked(f) = [n \in 1..N |-> f[from[n]]]
  <2>1. Ranked(f) = [n \in 1..N |->
                       f[CHOOSE i \in D : 1 + Cardinality({j \in D : before(j, i)}) = n]]
    BY DEF Ranked
  <2> HIDE DEF before, place, N, D
  <2>2. ASSUME NEW n \in 1..N
        PROVE  (CHOOSE i \in D : 1 + Cardinality({j \in D : before(j, i)}) = n)
                 = (CHOOSE i \in D : place[i] = n)
    <3>1. \A i \in D : (1 + Cardinality({j \in D : before(j, i)}) = n) <=> (place[i] = n)
      BY <1>5
    <3> QED
      BY <3>1
  <2> QED
    BY <2>1, <2>2
<1> HIDE DEF R
<1>7. \A i \in D : <<i, i>> \notin R
  BY <1>1, <1>2
<1>8. \A i, j, k \in D : <<i, j>> \in R /\ <<j, k>> \in R => <<i, k>> \in R
  BY <1>1, <1>2
<1>9. \A i, j \in D : i # j => <<i, j>> \in R \/ <<j, i>> \in R
  BY <1>1, <1>2
<1> HIDE DEF D, before
<1>10. /\ place \in [D -> 1..N]
       /\ \A i, j \in D : <<i, j>> \in R => place[i] < place[j]
       /\ \A n \in 1..N : \E i \in D : place[i] = n
  BY ONLY <1>3, <1>7, <1>8, <1>9, PlacesFill, Zenon
<1>11. N \in Nat
  BY <1>3, FS_CardinalityType
<1> HIDE DEF place, N
<1>12. \A n \in 1..N : from[n] \in D /\ place[from[n]] = n
  BY <1>10
<1>13. from \in [1..N -> D]
  BY <1>10
<1> HIDE DEF from
<1>14. ASSUME NEW i \in D PROVE \E n \in 1..N : from[n] = i
  <2>1. place[i] \in 1..N /\ from[place[i]] \in D /\ place[from[place[i]]] = place[i]
    BY <1>10, <1>12
  <2>2. from[place[i]] = i
    <3> DEFINE j == from[place[i]]
    <3>1. j \in D /\ place[j] = place[i] /\ place[i] \in Int
      BY <1>11, <2>1
    <3> HIDE DEF j
    <3>2. ~(place[i] < place[j]) /\ ~(place[j] < place[i])
      BY <3>1
    <3>3. j = i
      BY <1>9, <1>10, <3>1, <3>2, Zenon
    <3> QED
      BY <3>3 DEF j
  <2> QED
    BY <2>1, <2>2
<1>15. ASSUME NEW m \in 1..N, NEW n \in 1..N, m < n, f[from[n]].status = "proposed"
       PROVE  f[from[m]].status = "proposed" /\ f[from[m]].score >= f[from[n]].score
  <2> DEFINE i == from[m]
             j == from[n]
  <2>1. i \in D /\ j \in D /\ place[i] = m /\ place[j] = n
    BY <1>12
  <2>2. i # j /\ <<j, i>> \notin R
    <3>1. m \in Int /\ n \in Int /\ ~(n < m) /\ m # n
      BY <1>11, <1>15
    <3> QED
      BY <1>10, <2>1, <3>1
  <2> HIDE DEF i, j
  <2>3. before(i, j)
    BY <1>1, <1>9, <2>1, <2>2
  <2>4. j \in active
    BY <1>15, <2>1 DEF j, D
  <2>5. i \in active /\ f[i].score >= f[j].score
    BY <1>2, <2>1, <2>3, <2>4 DEF before
  <2> QED
    BY <2>5 DEF i, j
<1> QED
  BY <1>6, <1>13, <1>14, <1>15 DEF D, N
-----------------------------------------------------------------------------
(* The pipeline.                                                           *)

(* SpotOf and HasSetup, of what was fetched.                               *)
SpotIn(al, dk, t) ==
  LET told == {a.underlying : a \in {b \in al : b.ticker = t}} \ {None}
  IN  IF told # {} THEN Min(told) ELSE dk[t]

Found(g, al, dk, t) == g[t] # NoReport /\ SpotIn(al, dk, t) # None

Candidates ==
  [ticker : Tickers, setup : Setups, score : 0..Unit, rank : Nat, confirmed : BOOLEAN,
   contract : Offered \union {NoContract}, status : Statuses]

(* Of a candidate c among n at a stage st, with what was fetched: its      *)
(* setup is the detector's, a candidate with no direction is skipped, its  *)
(* contract is eligible, and one still proposed after the flow check is    *)
(* confirmed.                                                              *)
Good(c, n, st, byp, al, g, dk, con) ==
  /\ Found(g, al, dk, c.ticker)
  /\ c.setup = Detect(g[c.ticker], SpotIn(al, dk, c.ticker))
  /\ c.rank <= n /\ (c.status = "executed" => st \in {"execute", "end"})
  /\ c.setup.direction = "none" => c.status = "skipped_no_structure"
  /\ c.contract # NoContract =>
       /\ st \in {"risk", "execute", "end"}
       /\ c.contract \in Eligible(con[c.ticker], c.setup.direction)
  /\ st \in {"select", "risk", "execute", "end"} /\ c.status \in {"proposed", "executed"}
       => byp \/ Confirming(al, c.ticker, c.setup.direction) # {}

FetchedOK ==
  /\ alerts \subseteq AlertPool /\ tide \in Tides \union {NoTide}
  /\ gex \in [Tickers -> Reports \union {NoReport}]
  /\ dark \in [Tickers -> Spots \union {None}]
  /\ contracts \in [Tickers -> ContractSets \union {{}}]
  /\ other \in [Tickers -> DataPool \union {NoData}]

CandsOK ==
  /\ cands \in Seq(Candidates) /\ Len(cands) <= Len(TickerList)
  /\ \A i \in 1..Len(cands) :
       Good(cands[i], Len(cands), stage, bypass, alerts, gex, dark, contracts)
  /\ stage \in {"market", "tickers", "score"} => cands = <<>>

OrderedOK ==
  /\ next \in 1..(Len(cands) + 1)
  /\ stage \notin {"execute", "end"} => next = 1
  /\ \A c \in ordered : \E i \in 1..(next - 1) :
       c = cands[i] /\ c.contract # NoContract /\ c.status \in {"proposed", "executed"}

(* The strengthening of GatesPassed and PipeTypeOK.                        *)
PipeInv ==
  /\ stage \in Stages /\ mode \in {"propose_only", "autonomous"} /\ bypass \in BOOLEAN
  /\ FetchedOK /\ CandsOK /\ OrderedOK

LEMMA SpotTyped ==
  ASSUME NEW al, al \subseteq AlertPool, NEW dk \in [Tickers -> Spots \union {None}],
         NEW t \in Tickers, SpotIn(al, dk, t) # None
  PROVE  SpotIn(al, dk, t) \in Spots
<1> DEFINE told == {a.underlying : a \in {b \in al : b.ticker = t}} \ {None}
<1>1. SpotIn(al, dk, t) = IF told # {} THEN Min(told) ELSE dk[t]
  BY DEF SpotIn
<1>2. told \subseteq Spots /\ told \subseteq Nat
  BY PipelineAssumption DEF None
<1> HIDE DEF told
<1>3. told # {} => Min(told) \in told
  BY <1>2, MinExists
<1> QED
  BY <1>1, <1>2, <1>3

LEMMA FoundTyped ==
  ASSUME FetchedOK, NEW t \in Tickers, Found(gex, alerts, dark, t)
  PROVE  gex[t] \in Reports /\ SpotIn(alerts, dark, t) \in Spots
<1>1. gex[t] \in Reports
  BY DEF FetchedOK, Found
<1>2. SpotIn(alerts, dark, t) # None
  BY DEF Found
<1>3. SpotIn(alerts, dark, t) \in Spots
  BY <1>2, SpotTyped DEF FetchedOK
<1> QED
  BY <1>1, <1>3

LEMMA SequenceOf ==
  ASSUME NEW X, NEW n \in Nat, NEW q \in [1..n -> X]
  PROVE  q \in Seq(X) /\ Len(q) = n
OBVIOUS

LEMMA CandidateTyped ==
  ASSUME FetchedOK, NEW t \in Tickers, Found(gex, alerts, dark, t)
  PROVE  LET c == Candidate(t)
         IN  /\ c \in Candidates /\ c.ticker = t /\ c.rank = 0 /\ c.contract = NoContract
             /\ c.setup = Detect(gex[t], SpotIn(alerts, dark, t))
             /\ c.setup.direction = "none" <=> c.status = "skipped_no_structure"
             /\ c.status \in {"proposed", "skipped_no_structure"}
<1> DEFINE s == Detect(gex[t], SpotIn(alerts, dark, t))
           score == IF s.direction = "none" THEN 0 ELSE Score(t, s.direction)
           status == IF s.direction = "none" THEN "skipped_no_structure" ELSE "proposed"
<1>1. Candidate(t) = [ticker |-> t, setup |-> s, score |-> score, rank |-> 0,
                      confirmed |-> FALSE, contract |-> NoContract, status |-> status]
  BY DEF Candidate, SpotOf, SpotIn
<1>2. s \in Setups
  BY FoundTyped, DetectTyped
<1>3. \A d : Score(t, d) \in 0..Unit
  <2>1. tide \in Int \X Int
    BY PipelineAssumption DEF FetchedOK, NoTide
  <2>2. DataOK(other[t])
    BY DataTyped DEF FetchedOK
  <2>3. alerts \subseteq AlertPool
    BY DEF FetchedOK
  <2> QED
    BY <2>1, <2>2, <2>3, ScoreRange
<1> HIDE DEF s
<1>4. score \in 0..Unit
  BY <1>3, Units
<1>5. status \in Statuses
  BY DEF Statuses
<1> HIDE DEF score
<1>6. Candidate(t) \in Candidates
  BY <1>1, <1>2, <1>4, <1>5 DEF Candidates
<1> QED
  BY <1>1, <1>6 DEF s
LEMMA Empty ==
  ASSUME cands = <<>>, next = 1, ordered = {}
  PROVE  CandsOK /\ OrderedOK
<1>1. cands \in Seq(Candidates) /\ Len(cands) = 0
  OBVIOUS
<1>2. 0 <= Len(TickerList)
  <2>1. TickerList \in Seq(Tickers)
    BY PipelineAssumption
  <2> QED
    BY <2>1, LenProperties
<1>3. CandsOK
  BY <1>1, <1>2 DEF CandsOK
<1> QED
  BY <1>1, <1>3 DEF OrderedOK

LEMMA NothingFetched ==
  ASSUME alerts = {}, tide = NoTide, gex = [t \in Tickers |-> NoReport],
         dark = [t \in Tickers |-> None], contracts = [t \in Tickers |-> {}],
         other = [t \in Tickers |-> NoData]
  PROVE  FetchedOK
BY DEF FetchedOK

LEMMA PipeInvInit == PipeInit => PipeInv
<1> SUFFICES ASSUME PipeInit PROVE PipeInv
  OBVIOUS
<1>1. CandsOK /\ OrderedOK
  BY Empty DEF PipeInit, Start
<1>2. FetchedOK
  BY NothingFetched DEF PipeInit, Start
<1> QED
  BY <1>1, <1>2 DEF PipeInv, PipeInit, Start, Stages

LEMMA PipeInvForgotten == Forgotten => PipeInv'
<1> SUFFICES ASSUME Forgotten PROVE PipeInv'
  OBVIOUS
<1>1. (CandsOK /\ OrderedOK)'
  <2>1. (cands = <<>> /\ next = 1 /\ ordered = {})'
    BY DEF Forgotten
  <2> QED
    BY <2>1, Empty, PTL
<1>2. FetchedOK'
  <2>1. (/\ alerts = {} /\ tide = NoTide /\ gex = [t \in Tickers |-> NoReport]
         /\ dark = [t \in Tickers |-> None] /\ contracts = [t \in Tickers |-> {}]
         /\ other = [t \in Tickers |-> NoData])'
    BY DEF Forgotten
  <2> QED
    BY <2>1, NothingFetched, PTL
<1> QED
  BY <1>1, <1>2 DEF PipeInv, Forgotten, Stages

(* Before the candidates are made.                                         *)
LEMMA EarlyStep ==
  ASSUME PipeInv, FetchMarketData \/ FetchTickerData
  PROVE  PipeInv'
<1>1. /\ cands = <<>> /\ next = 1 /\ ordered = {}
      /\ UNCHANGED <<mode, bypass, cands, next, ordered>> /\ stage' \in Stages
  BY DEF PipeInv, CandsOK, OrderedOK, FetchMarketData, FetchTickerData, Stages
<1>2. FetchedOK'
  BY DEF PipeInv, FetchedOK, FetchMarketData, FetchTickerData
<1>3. (CandsOK /\ OrderedOK)'
  <2>1. (cands = <<>> /\ next = 1 /\ ordered = {})'
    BY <1>1
  <2> QED
    BY <2>1, Empty, PTL
<1> QED
  BY <1>1, <1>2, <1>3 DEF PipeInv

(* New candidates q, before any is ordered.                                *)
LEMMA CandsStep ==
  ASSUME PipeInv, UNCHANGED <<mode, bypass, fetched, next, ordered>>,
         stage \in {"score", "flow", "select", "risk"},
         stage' \in {"flow", "select", "risk", "execute"},
         NEW n \in Nat, n <= Len(TickerList), cands' \in [1..n -> Candidates],
         \A i \in 1..n : Good(cands'[i], n, stage', bypass, alerts, gex, dark, contracts)
  PROVE  PipeInv'
<1>1. FetchedOK'
  BY DEF PipeInv, FetchedOK, fetched
<1>2. cands' \in Seq(Candidates) /\ Len(cands') = n
  BY SequenceOf
<1>3. CandsOK'
  BY <1>2 DEF CandsOK, fetched
<1>4. next' = 1 /\ ordered' = {}
  BY DEF PipeInv, OrderedOK
<1>5. OrderedOK'
  BY <1>2, <1>4 DEF OrderedOK
<1> QED
  BY <1>1, <1>3, <1>5 DEF PipeInv, Stages

LEMMA FoundIsSetup ==
  ASSUME NEW t PROVE HasSetup(t) <=> Found(gex, alerts, dark, t)
BY DEF HasSetup, SpotOf, Found, SpotIn

LEMMA ScoreStep ==
  ASSUME PipeInv, ScoreCandidates
  PROVE  PipeInv'
<1> DEFINE found == {i \in DOMAIN TickerList : HasSetup(TickerList[i])}
           f == [i \in found |-> Candidate(TickerList[i])]
           N == Cardinality(found)
           ranked == Ranked(f)
           new(c, i) == [c EXCEPT !.rank = IF c.status = "proposed" THEN i ELSE 0]
<1>1. /\ stage = "score" /\ stage' = "flow" /\ UNCHANGED <<mode, bypass, fetched, next, ordered>>
      /\ cands' = [i \in DOMAIN ranked |-> new(ranked[i], i)]
  BY DEF ScoreCandidates
<1>2. FetchedOK
  BY DEF PipeInv
<1>3. TickerList \in Seq(Tickers)
  BY PipelineAssumption
<1>4. DOMAIN TickerList = 1..Len(TickerList) /\ Len(TickerList) \in Nat
      /\ \A i \in DOMAIN TickerList : TickerList[i] \in Tickers
  BY <1>3, LenProperties
<1>5. \A i \in found : TickerList[i] \in Tickers /\ Found(gex, alerts, dark, TickerList[i])
  BY <1>4, FoundIsSetup
<1>6. found \in SUBSET (1..Len(TickerList))
  BY <1>4
<1> HIDE DEF found
<1>7. IsFiniteSet(found) /\ N \in Nat /\ N <= Len(TickerList)
  <2>1. IsFiniteSet(1..Len(TickerList))
        /\ Cardinality(1..Len(TickerList)) = IF 1 > Len(TickerList) THEN 0 ELSE Len(TickerList) - 1 + 1
    <3>1. 1 \in Int /\ Len(TickerList) \in Int
      BY <1>4
    <3> QED
      BY ONLY <3>1, FS_Interval
  <2>2. Cardinality(1..Len(TickerList)) = Len(TickerList)
    BY <1>4, <2>1
  <2>3. IsFiniteSet(found) /\ Cardinality(found) <= Cardinality(1..Len(TickerList))
    BY ONLY <1>6, <2>1, FS_Subset
  <2>4. Cardinality(found) \in Nat
    BY <2>3, FS_CardinalityType
  <2> QED
    BY <2>2, <2>3, <2>4
<1>8. \A i \in found :
        /\ f[i] \in Candidates /\ f[i].ticker = TickerList[i] /\ f[i].contract = NoContract
        /\ f[i].setup = Detect(gex[f[i].ticker], SpotIn(alerts, dark, f[i].ticker))
        /\ f[i].setup.direction = "none" => f[i].status = "skipped_no_structure"
        /\ f[i].status # "executed"
  BY <1>2, <1>5, CandidateTyped
<1>9. DOMAIN f = found
  OBVIOUS
<1> HIDE DEF f
<1>10. \A i \in found : f[i].score \in Int
  BY <1>8, Units DEF Candidates
<1>11. found \subseteq Nat
  BY <1>6
<1>12. PICK from \in [1..N -> found] : ranked = [n \in 1..N |-> f[from[n]]]
  <2>1. IsFiniteSet(DOMAIN f) /\ DOMAIN f \subseteq Nat /\ \A i \in DOMAIN f : f[i].score \in Int
    BY <1>7, <1>9, <1>10, <1>11
  <2>2. \E from \in [1..Cardinality(DOMAIN f) -> DOMAIN f] :
          Ranked(f) = [n \in 1..Cardinality(DOMAIN f) |-> f[from[n]]]
    BY ONLY <2>1, RankedPermutes, Zenon
  <2> QED
    BY <1>9, <2>2
<1> HIDE DEF ranked, N
<1>13. DOMAIN ranked = 1..N /\ \A i \in 1..N : from[i] \in found /\ ranked[i] = f[from[i]]
  BY <1>12
<1>14. ASSUME NEW i \in 1..N
       PROVE  /\ cands'[i] = new(f[from[i]], i) /\ cands'[i] \in Candidates
              /\ Good(cands'[i], N, "flow", bypass, alerts, gex, dark, contracts)
  <2> DEFINE c == f[from[i]]
  <2>1. cands'[i] = new(c, i)
    BY <1>1, <1>13
  <2>2. /\ c \in Candidates /\ c.contract = NoContract /\ c.ticker = TickerList[from[i]]
        /\ c.setup = Detect(gex[c.ticker], SpotIn(alerts, dark, c.ticker))
        /\ c.setup.direction = "none" => c.status = "skipped_no_structure"
        /\ Found(gex, alerts, dark, c.ticker) /\ c.status # "executed"
    BY <1>5, <1>8, <1>13
  <2> HIDE DEF c
  <2>3. i \in Nat /\ i <= N /\ 0 <= N
    BY <1>7
  <2>4. /\ new(c, i) \in Candidates /\ new(c, i).ticker = c.ticker /\ new(c, i).setup = c.setup
        /\ new(c, i).contract = c.contract /\ new(c, i).status = c.status
        /\ new(c, i).rank <= N
    BY <2>2, <2>3 DEF Candidates
  <2> HIDE DEF new
  <2>5. Good(new(c, i), N, "flow", bypass, alerts, gex, dark, contracts)
    BY <2>2, <2>4 DEF Good
  <2> QED
    BY <2>1, <2>4, <2>5 DEF c
<1>15. cands' \in [1..N -> Candidates]
  <2> HIDE DEF new
  <2>1. cands' = [i \in 1..N |-> new(ranked[i], i)]
    BY <1>1, <1>13
  <2>2. \A i \in 1..N : new(ranked[i], i) \in Candidates
    BY <1>13, <1>14
  <2> QED
    BY <2>1, <2>2
<1> QED
  BY <1>1, <1>7, <1>14, <1>15, CandsStep
(* What holds of each candidate, with its place, as the invariant has it.  *)
LEMMA EachCand ==
  ASSUME PipeInv
  PROVE  /\ Len(cands) \in Nat /\ DOMAIN cands = 1..Len(cands) /\ Len(cands) <= Len(TickerList)
         /\ cands = [i \in 1..Len(cands) |-> cands[i]]
         /\ \A i \in 1..Len(cands) :
              /\ cands[i] \in Candidates /\ cands[i] \in Range(cands)
              /\ Good(cands[i], Len(cands), stage, bypass, alerts, gex, dark, contracts)
<1>1. cands \in Seq(Candidates)
  BY DEF PipeInv, CandsOK
<1>2. /\ Len(cands) \in Nat /\ DOMAIN cands = 1..Len(cands)
      /\ cands \in [1..Len(cands) -> Candidates]
  BY <1>1, LenProperties
<1>3. \A i \in 1..Len(cands) : cands[i] \in Candidates /\ cands[i] \in Range(cands)
  BY <1>2 DEF Range
<1> QED
  BY <1>2, <1>3 DEF PipeInv, CandsOK

(* A node that changes each proposed candidate, and no other, by f.        *)
LEMMA ProposedStep ==
  ASSUME PipeInv, UNCHANGED <<mode, bypass, fetched, next, ordered>>,
         stage \in {"flow", "select", "risk"}, stage' \in {"select", "risk", "execute"},
         NEW f, OnProposed(f),
         \A i \in 1..Len(cands) :
           LET c == cands[i]
           IN  /\ c.status = "proposed" =>
                    /\ f[c] \in Candidates
                    /\ Good(f[c], Len(cands), stage', bypass, alerts, gex, dark, contracts)
               /\ c.status # "proposed" =>
                    Good(c, Len(cands), stage', bypass, alerts, gex, dark, contracts)
  PROVE  PipeInv'
<1> DEFINE n == Len(cands)
           q == [i \in 1..n |-> IF cands[i].status = "proposed" THEN f[cands[i]] ELSE cands[i]]
<1>1. n \in Nat /\ DOMAIN cands = 1..n /\ n <= Len(TickerList)
      /\ \A i \in 1..n : cands[i] \in Candidates
  BY EachCand
<1>2. cands' = q
  BY <1>1 DEF OnProposed
<1> HIDE DEF n
<1>3. cands' \in [1..n -> Candidates]
  BY <1>1, <1>2 DEF n
<1>4. ASSUME NEW i \in 1..n
      PROVE  Good(cands'[i], n, stage', bypass, alerts, gex, dark, contracts)
  BY <1>2 DEF n
<1>5. stage \in {"score", "flow", "select", "risk"} /\ stage' \in {"flow", "select", "risk", "execute"}
  OBVIOUS
<1> QED
  BY <1>1, <1>3, <1>4, <1>5, CandsStep

LEMMA FlowStep ==
  ASSUME PipeInv, CheckFlow
  PROVE  PipeInv'
<1> DEFINE n == Len(cands)
<1>1. stage = "flow" /\ stage' = "select" /\ UNCHANGED <<mode, bypass, fetched, next, ordered>>
  BY DEF CheckFlow
<1>2. /\ n \in Nat /\ n <= Len(TickerList) /\ cands = [i \in 1..n |-> cands[i]]
      /\ \A i \in 1..n :
           /\ cands[i] \in Candidates /\ cands[i] \in Range(cands)
           /\ Good(cands[i], n, "flow", bypass, alerts, gex, dark, contracts)
  BY <1>1, EachCand
<1> HIDE DEF n
<1>3. CASE bypass
  <2>1. cands' = cands
    BY <1>3 DEF CheckFlow
  <2>2. cands' \in [1..n -> Candidates]
    BY <1>2, <2>1
  <2>3. \A i \in 1..n : Good(cands'[i], n, stage', bypass, alerts, gex, dark, contracts)
    BY <1>1, <1>2, <1>3, <2>1 DEF Good
  <2> QED
    BY <1>1, <1>2, <2>2, <2>3, CandsStep
<1>4. CASE ~bypass
  <2> DEFINE f == [c \in Range(cands) |->
                     IF Confirming(alerts, c.ticker, c.setup.direction) = {}
                       THEN [c EXCEPT !.status = "skipped_no_flow"]
                       ELSE [c EXCEPT !.confirmed = TRUE]]
  <2>1. OnProposed(f)
    BY <1>4 DEF CheckFlow
  <2>2. \A c \in Range(cands) : f[c] = IF Confirming(alerts, c.ticker, c.setup.direction) = {}
                                         THEN [c EXCEPT !.status = "skipped_no_flow"]
                                         ELSE [c EXCEPT !.confirmed = TRUE]
    OBVIOUS
  <2> HIDE DEF f
  <2>3. ASSUME NEW i \in 1..n, cands[i].status = "proposed"
        PROVE  /\ f[cands[i]] \in Candidates
               /\ Good(f[cands[i]], n, stage', bypass, alerts, gex, dark, contracts)
    <3> DEFINE c == cands[i]
    <3>1. c \in Candidates /\ c \in Range(cands) /\ c.status = "proposed"
          /\ Good(c, n, "flow", bypass, alerts, gex, dark, contracts)
      BY <1>2, <2>3
    <3> HIDE DEF c
    <3>2. CASE Confirming(alerts, c.ticker, c.setup.direction) = {}
      <4> DEFINE d == [c EXCEPT !.status = "skipped_no_flow"]
      <4>1. f[c] = d
        BY <2>2, <3>1, <3>2
      <4>2. /\ d \in Candidates /\ d.ticker = c.ticker /\ d.setup = c.setup /\ d.rank = c.rank
            /\ d.contract = c.contract /\ d.status = "skipped_no_flow"
        BY <3>1 DEF Candidates, Statuses
      <4> HIDE DEF d
      <4>3. Good(d, n, "select", bypass, alerts, gex, dark, contracts)
        BY <3>1, <4>2 DEF Good
      <4> QED
        BY <1>1, <4>1, <4>2, <4>3 DEF c
    <3>3. CASE Confirming(alerts, c.ticker, c.setup.direction) # {}
      <4> DEFINE d == [c EXCEPT !.confirmed = TRUE]
      <4>1. f[c] = d
        BY <2>2, <3>1, <3>3
      <4>2. /\ d \in Candidates /\ d.ticker = c.ticker /\ d.setup = c.setup /\ d.rank = c.rank
            /\ d.contract = c.contract /\ d.status = "proposed"
        BY <3>1 DEF Candidates, Statuses
      <4> HIDE DEF d
      <4>3. Good(d, n, "select", bypass, alerts, gex, dark, contracts)
        BY <3>1, <3>3, <4>2 DEF Good
      <4> QED
        BY <1>1, <4>1, <4>2, <4>3 DEF c
    <3> QED
      BY <3>2, <3>3
  <2>4. ASSUME NEW i \in 1..n, cands[i].status # "proposed"
        PROVE  Good(cands[i], n, stage', bypass, alerts, gex, dark, contracts)
    <3>1. cands[i].status # "executed"
      BY <1>2 DEF Good
    <3> QED
      BY <1>1, <1>2, <2>4, <3>1 DEF Good
  <2> QED
    BY <1>1, <2>1, <2>3, <2>4, ProposedStep DEF n
<1> QED
  BY <1>3, <1>4
LEMMA SelectStep ==
  ASSUME PipeInv, SelectContracts
  PROVE  PipeInv'
<1> DEFINE n == Len(cands)
           eligible(c) == Eligible(contracts[c.ticker], c.setup.direction)
           f == [c \in Range(cands) |->
                  IF eligible(c) = {} THEN [c EXCEPT !.status = "not_executable_long_only"]
                  ELSE [c EXCEPT !.contract = Preferred(eligible(c), c.setup.target)]]
<1>1. /\ stage = "select" /\ stage' = "risk" /\ UNCHANGED <<mode, bypass, fetched, next, ordered>>
      /\ OnProposed(f)
  BY DEF SelectContracts
<1>2. \A i \in 1..n :
         /\ cands[i] \in Candidates /\ cands[i] \in Range(cands)
         /\ Good(cands[i], n, "select", bypass, alerts, gex, dark, contracts)
  BY <1>1, EachCand
<1>3. \A c \in Range(cands) :
         f[c] = IF eligible(c) = {} THEN [c EXCEPT !.status = "not_executable_long_only"]
                ELSE [c EXCEPT !.contract = Preferred(eligible(c), c.setup.target)]
  OBVIOUS
<1> HIDE DEF n, f
<1>4. ASSUME NEW i \in 1..n, cands[i].status = "proposed"
      PROVE  /\ f[cands[i]] \in Candidates
             /\ Good(f[cands[i]], n, stage', bypass, alerts, gex, dark, contracts)
  <2> DEFINE c == cands[i]
  <2>1. c \in Candidates /\ c \in Range(cands) /\ c.status = "proposed"
        /\ Good(c, n, "select", bypass, alerts, gex, dark, contracts)
    BY <1>2, <1>4
  <2> HIDE DEF c
  <2>2. CASE eligible(c) = {}
    <3> DEFINE d == [c EXCEPT !.status = "not_executable_long_only"]
    <3>1. f[c] = d
      BY <1>3, <2>1, <2>2
    <3>2. /\ d \in Candidates /\ d.ticker = c.ticker /\ d.setup = c.setup /\ d.rank = c.rank
          /\ d.contract = c.contract /\ d.status = "not_executable_long_only"
      BY <2>1 DEF Candidates, Statuses
    <3> HIDE DEF d
    <3>3. Good(d, n, "risk", bypass, alerts, gex, dark, contracts)
      BY <2>1, <3>2 DEF Good
    <3> QED
      BY <1>1, <3>1, <3>2, <3>3 DEF c
  <2>3. CASE eligible(c) # {}
    <3> DEFINE best == Preferred(eligible(c), c.setup.target)
               d == [c EXCEPT !.contract = best]
    <3>1. f[c] = d
      BY <1>3, <2>1, <2>3
    <3>2. best \in eligible(c) /\ best \in Offered
      <4>1. c.ticker \in Tickers /\ c.setup.target \in Nat
        BY <2>1 DEF Candidates, Setups
      <4>2. contracts[c.ticker] \in ContractSets \union {{}}
        BY <4>1 DEF PipeInv, FetchedOK
      <4>3. eligible(c) \subseteq Offered
        BY <4>2 DEF Eligible, Offered
      <4> HIDE DEF eligible
      <4>4. best \in eligible(c)
        BY <2>3, <4>1, <4>3, PreferredEligible
      <4> QED
        BY <4>3, <4>4
    <3> HIDE DEF best
    <3>3. /\ d \in Candidates /\ d.ticker = c.ticker /\ d.setup = c.setup /\ d.rank = c.rank
          /\ d.contract = best /\ d.status = "proposed"
      BY <2>1, <3>2 DEF Candidates, Statuses
    <3> HIDE DEF d
    <3>4. d.contract \in Eligible(contracts[d.ticker], d.setup.direction)
      BY <3>2, <3>3
    <3>5. Good(d, n, "risk", bypass, alerts, gex, dark, contracts)
      BY <2>1, <3>3, <3>4 DEF Good
    <3> QED
      BY <1>1, <3>1, <3>3, <3>5 DEF c
  <2> QED
    BY <2>2, <2>3
<1>5. ASSUME NEW i \in 1..n, cands[i].status # "proposed"
      PROVE  Good(cands[i], n, stage', bypass, alerts, gex, dark, contracts)
  BY <1>1, <1>2, <1>5 DEF Good
<1>6. stage \in {"flow", "select", "risk"} /\ stage' \in {"select", "risk", "execute"}
  BY <1>1
<1> QED
  BY <1>1, <1>4, <1>5, <1>6, ProposedStep DEF n

LEMMA RiskStep ==
  ASSUME PipeInv, RiskGate
  PROVE  PipeInv'
<1> DEFINE n == Len(cands)
<1>1. /\ stage = "risk" /\ stage' = "execute" /\ UNCHANGED <<mode, bypass, fetched, next, ordered>>
  BY DEF RiskGate
<1>2. PICK blocked \in SUBSET Tickers :
        OnProposed([c \in Range(cands) |->
                      IF c.contract # NoContract /\ c.ticker \in blocked
                        THEN [c EXCEPT !.status = "skipped_risk_gate"] ELSE c])
  BY DEF RiskGate
<1> DEFINE f == [c \in Range(cands) |->
                   IF c.contract # NoContract /\ c.ticker \in blocked
                     THEN [c EXCEPT !.status = "skipped_risk_gate"] ELSE c]
<1>3. \A i \in 1..n :
         /\ cands[i] \in Candidates /\ cands[i] \in Range(cands)
         /\ Good(cands[i], n, "risk", bypass, alerts, gex, dark, contracts)
  BY <1>1, EachCand
<1>4. \A c \in Range(cands) :
         f[c] = c \/ f[c] = [c EXCEPT !.status = "skipped_risk_gate"]
  OBVIOUS
<1>5. OnProposed(f)
  BY <1>2
<1> HIDE DEF n, f
<1>6. ASSUME NEW i \in 1..n
      PROVE  Good(cands[i], n, stage', bypass, alerts, gex, dark, contracts)
  BY <1>1, <1>3 DEF Good
<1>7. ASSUME NEW i \in 1..n, cands[i].status = "proposed"
      PROVE  /\ f[cands[i]] \in Candidates
             /\ Good(f[cands[i]], n, stage', bypass, alerts, gex, dark, contracts)
  <2> DEFINE c == cands[i]
             d == [c EXCEPT !.status = "skipped_risk_gate"]
  <2>1. c \in Candidates /\ c \in Range(cands) /\ c.status = "proposed"
        /\ Good(c, n, "risk", bypass, alerts, gex, dark, contracts)
        /\ Good(c, n, stage', bypass, alerts, gex, dark, contracts)
    BY <1>3, <1>6, <1>7
  <2> HIDE DEF c
  <2>2. f[c] = c \/ f[c] = d
    BY <1>4, <2>1
  <2>3. d \in Candidates /\ d.ticker = c.ticker /\ d.setup = c.setup /\ d.rank = c.rank
        /\ d.contract = c.contract /\ d.status = "skipped_risk_gate"
    BY <2>1 DEF Candidates, Statuses
  <2> HIDE DEF d
  <2>4. Good(d, n, stage', bypass, alerts, gex, dark, contracts)
    BY <1>1, <2>1, <2>3 DEF Good
  <2> QED
    BY <2>1, <2>2, <2>3, <2>4 DEF c
<1> QED
  BY <1>1, <1>5, <1>6, <1>7, ProposedStep DEF n
(* Good is stable while the orders go out.                                 *)
LEMMA StillGood ==
  ASSUME NEW c, NEW d, d.ticker = c.ticker, d.setup = c.setup, d.rank = c.rank,
         d.contract = c.contract, c.status = "proposed",
         d.status \in {"executed", "rejected_by_approval"},
         NEW n, NEW byp, NEW al, NEW g, NEW dk, NEW con,
         Good(c, n, "execute", byp, al, g, dk, con)
  PROVE  Good(d, n, "execute", byp, al, g, dk, con)
BY DEF Good

LEMMA ExecuteStep ==
  ASSUME PipeInv, ExecuteNone \/ ExecuteOne \/ Executed
  PROVE  PipeInv'
<1> DEFINE n == Len(cands)
<1>1. stage = "execute" /\ UNCHANGED <<mode, bypass, fetched>> /\ stage' \in {"execute", "end"}
  BY DEF ExecuteNone, ExecuteOne, Executed
<1>2. /\ n \in Nat /\ DOMAIN cands = 1..n /\ n <= Len(TickerList)
      /\ cands = [i \in 1..n |-> cands[i]]
      /\ \A i \in 1..n : /\ cands[i] \in Candidates
                         /\ Good(cands[i], n, "execute", bypass, alerts, gex, dark, contracts)
  BY <1>1, EachCand
<1>3. FetchedOK'
  BY <1>1 DEF PipeInv, FetchedOK, fetched
<1>4. /\ next \in 1..(n + 1)
      /\ \A c \in ordered : \E i \in 1..(next - 1) :
           c = cands[i] /\ c.contract # NoContract /\ c.status \in {"proposed", "executed"}
  BY DEF PipeInv, OrderedOK
<1>5. cands \in Seq(Candidates) /\ cands \in [1..n -> Candidates]
  BY LenProperties DEF PipeInv, CandsOK
<1> HIDE DEF n
<1> DEFINE Kept ==
             /\ UNCHANGED cands /\ stage' = "execute" /\ next \in DOMAIN cands /\ next' = next + 1
             /\ \/ UNCHANGED ordered
                \/ Sent(cands[next]) /\ ordered' = ordered \union {cands[next]}
           Marked ==
             /\ next \in DOMAIN cands /\ Sent(cands[next]) /\ next' = next + 1
             /\ stage' = "execute"
             /\ \E status \in {"executed", "rejected_by_approval"} :
                  /\ cands' = [cands EXCEPT ![next].status = status]
                  /\ \/ UNCHANGED ordered
                     \/ status = "executed" /\ ordered' = ordered \union {cands'[next]}
           Ended == stage' = "end" /\ UNCHANGED <<cands, next, ordered>>
<1>6. CASE Kept
  <2>1. Len(cands') = n
    BY <1>6 DEF n
  <2>2. CandsOK'
    BY <1>1, <1>2, <1>5, <1>6, <2>1 DEF CandsOK, fetched, n
  <2>3. next' \in 1..(n + 1) /\ next \in 1..(next' - 1) /\ 1..(next - 1) \subseteq 1..(next' - 1)
    BY <1>2, <1>4, <1>6
  <2>4. \A c \in ordered' : \E i \in 1..(next' - 1) :
           c = cands'[i] /\ c.contract # NoContract /\ c.status \in {"proposed", "executed"}
    BY <1>4, <1>6, <2>3 DEF Sent
  <2>5. OrderedOK'
    BY <1>6, <2>1, <2>3, <2>4 DEF OrderedOK
  <2> QED
    BY <1>1, <1>3, <2>2, <2>5 DEF PipeInv, Stages
<1>7. CASE Marked
  <2>1. PICK status \in {"executed", "rejected_by_approval"} :
          /\ cands' = [cands EXCEPT ![next].status = status]
          /\ \/ UNCHANGED ordered
             \/ status = "executed" /\ ordered' = ordered \union {cands'[next]}
    BY <1>7
  <2> DEFINE c == cands[next]
             d == [c EXCEPT !.status = status]
  <2>2. next \in 1..n /\ c \in Candidates /\ c.status = "proposed" /\ c.contract # NoContract
        /\ Good(c, n, "execute", bypass, alerts, gex, dark, contracts)
    BY <1>2, <1>7 DEF Sent
  <2>3. cands'[next] = d /\ (\A i \in 1..n : i # next => cands'[i] = cands[i])
        /\ cands' = [i \in 1..n |-> cands'[i]]
    BY <1>2, <1>5, <2>1, <2>2
  <2> HIDE DEF c
  <2>4. /\ d \in Candidates /\ d.ticker = c.ticker /\ d.setup = c.setup /\ d.rank = c.rank
        /\ d.contract = c.contract /\ d.status = status
    BY <2>1, <2>2 DEF Candidates, Statuses
  <2> HIDE DEF d
  <2>5. Good(d, n, "execute", bypass, alerts, gex, dark, contracts)
    BY <2>1, <2>2, <2>4, StillGood
  <2>6. cands' \in [1..n -> Candidates]
        /\ \A i \in 1..n : Good(cands'[i], n, "execute", bypass, alerts, gex, dark, contracts)
    BY <1>2, <2>3, <2>4, <2>5
  <2>7. cands' \in Seq(Candidates) /\ Len(cands') = n
    BY <1>2, <2>6, SequenceOf
  <2>8. CandsOK'
    BY <1>1, <1>2, <1>7, <2>6, <2>7 DEF CandsOK, fetched
  <2>9. next' \in 1..(n + 1) /\ next \in 1..(next' - 1) /\ 1..(next - 1) \subseteq 1..(next' - 1)
        /\ \A i \in 1..(next - 1) : i \in 1..n /\ i # next
    BY <1>2, <1>4, <1>7, <2>2
  <2>10. \A x \in ordered' : \E i \in 1..(next' - 1) :
            x = cands'[i] /\ x.contract # NoContract /\ x.status \in {"proposed", "executed"}
    <3> SUFFICES ASSUME NEW x \in ordered'
                 PROVE  \E i \in 1..(next' - 1) :
                          x = cands'[i] /\ x.contract # NoContract
                            /\ x.status \in {"proposed", "executed"}
      OBVIOUS
    <3>1. CASE x \in ordered
      BY <1>4, <2>3, <2>9, <3>1
    <3>2. CASE x \notin ordered
      <4>1. x = d /\ status = "executed"
        BY <2>1, <2>3, <3>2
      <4> QED
        BY <2>2, <2>3, <2>4, <2>9, <4>1
    <3> QED
      BY <3>1, <3>2
  <2>11. OrderedOK'
    BY <1>7, <2>7, <2>9, <2>10 DEF OrderedOK
  <2> QED
    BY <1>1, <1>3, <2>8, <2>11 DEF PipeInv, Stages
<1>8. CASE Ended
  <2>1. \A i \in 1..n : Good(cands[i], n, "end", bypass, alerts, gex, dark, contracts)
    BY <1>2 DEF Good
  <2>2. CandsOK'
    BY <1>1, <1>2, <1>5, <1>8, <2>1 DEF CandsOK, fetched, n
  <2>3. OrderedOK'
    BY <1>4, <1>8 DEF OrderedOK, n
  <2> QED
    BY <1>1, <1>3, <1>8, <2>2, <2>3 DEF PipeInv, Stages
<1>9. ExecuteNone => Kept
  BY <1>1 DEF ExecuteNone
<1>10. Executed => Ended
  BY DEF Executed
<1>11. ExecuteOne => Kept \/ Marked
  <2> SUFFICES ASSUME ExecuteOne PROVE Kept \/ Marked
    OBVIOUS
  <2>1. stage' = "execute" /\ next \in DOMAIN cands /\ next' = next + 1 /\ Sent(cands[next])
    BY <1>1 DEF ExecuteOne
  <2>2. \/ UNCHANGED cands /\ (UNCHANGED ordered \/ ordered' = ordered \union {cands[next]})
        \/ cands' = [cands EXCEPT ![next].status = "executed"]
             /\ ordered' = ordered \union {cands'[next]}
        \/ cands' = [cands EXCEPT ![next].status = "rejected_by_approval"] /\ UNCHANGED ordered
    BY DEF ExecuteOne
  <2>3. CASE UNCHANGED cands /\ (UNCHANGED ordered \/ ordered' = ordered \union {cands[next]})
    <3>1. Kept
      BY <2>1, <2>3
    <3> QED
      BY <3>1
  <2>4. CASE cands' = [cands EXCEPT ![next].status = "executed"]
               /\ ordered' = ordered \union {cands'[next]}
    <3>1. Marked
      BY <2>1, <2>4
    <3> QED
      BY <3>1
  <2>5. CASE cands' = [cands EXCEPT ![next].status = "rejected_by_approval"]
               /\ UNCHANGED ordered
    <3>1. Marked
      BY <2>1, <2>5
    <3> QED
      BY <3>1
  <2> HIDE DEF Kept, Marked
  <2> QED
    BY <2>2, <2>3, <2>4, <2>5
<1> HIDE DEF Kept, Marked, Ended
<1> QED
  BY <1>6, <1>7, <1>8, <1>9, <1>10, <1>11
LEMMA PipeInvNext ==
  ASSUME PipeInv, PipeNext
  PROVE  PipeInv'
BY EarlyStep, ScoreStep, FlowStep, SelectStep, RiskStep, ExecuteStep, Zenon DEF PipeNext

LEMMA PipeInvStutter ==
  ASSUME PipeInv, UNCHANGED pipeVars
  PROVE  PipeInv'
BY DEF PipeInv, FetchedOK, CandsOK, OrderedOK, pipeVars, fetched

(* An ordered candidate is typed and was let through by every node.        *)
LEMMA OrderedGood ==
  ASSUME PipeInv, NEW c \in ordered
  PROVE  /\ c \in Candidates /\ c.contract # NoContract /\ c.status \in {"proposed", "executed"}
         /\ stage \in {"execute", "end"}
         /\ Good(c, Len(cands), stage, bypass, alerts, gex, dark, contracts)
         /\ c \in Range(cands)
<1>1. PICK i \in 1..(next - 1) :
         c = cands[i] /\ c.contract # NoContract /\ c.status \in {"proposed", "executed"}
  BY DEF PipeInv, OrderedOK
<1>2. i \in 1..Len(cands)
  BY EachCand DEF PipeInv, OrderedOK
<1>3. stage \in {"execute", "end"}
  BY <1>1 DEF PipeInv, OrderedOK, Stages
<1> QED
  BY <1>1, <1>2, <1>3, EachCand

(* Its setup is the detector's for its side, and its contract was offered. *)
LEMMA OrderedTrade ==
  ASSUME PipeInv, NEW c \in ordered
  PROVE  /\ c.setup \in Setups /\ c.setup.direction = c.contract.type
         /\ c.contract \in Offered /\ c.contract.type \in {"call", "put"}
         /\ c.contract.dte \in Nat
<1>1. /\ c \in Candidates /\ c.contract # NoContract
      /\ c.contract \in Eligible(contracts[c.ticker], c.setup.direction)
  BY OrderedGood DEF Good
<1>2. c.setup \in Setups /\ c.contract \in Offered
  BY <1>1 DEF Candidates
<1>3. c.setup.direction = c.contract.type
  BY <1>1 DEF Eligible
<1> QED
  BY <1>2, <1>3, PipelineAssumption

LEMMA PipeInvGates == PipeInv => GatesPassed
<1> SUFFICES ASSUME PipeInv, NEW c \in ordered
             PROVE  /\ gex[c.ticker] # NoReport /\ Regime(gex[c.ticker]) # "mixed"
                    /\ c.contract \in contracts[c.ticker]
                    /\ c.contract.type = Direction(gex[c.ticker], SpotOf(c.ticker))
                    /\ c.contract.dte \in DteMin..DteMax
                    /\ bypass \/ \E a \in alerts : /\ a.ticker = c.ticker /\ a.age <= Lookback
                                                   /\ a.type = c.contract.type
  BY DEF GatesPassed
<1> DEFINE t == c.ticker
           x == SpotIn(alerts, dark, t)
<1>1. /\ c \in Candidates /\ c.contract # NoContract /\ c.status \in {"proposed", "executed"}
      /\ stage \in {"execute", "end"}
      /\ Good(c, Len(cands), stage, bypass, alerts, gex, dark, contracts)
  BY OrderedGood
<1>2. /\ Found(gex, alerts, dark, t) /\ c.setup = Detect(gex[t], x)
      /\ c.setup.direction # "none"
      /\ c.contract \in Eligible(contracts[t], c.setup.direction)
      /\ bypass \/ Confirming(alerts, t, c.setup.direction) # {}
  BY <1>1 DEF Good
<1>3. t \in Tickers
  BY <1>1 DEF Candidates
<1>4. gex[t] \in Reports /\ x \in Spots /\ gex[t] # NoReport
  BY <1>2, <1>3, FoundTyped DEF PipeInv, Found
<1>5. Regime(gex[t]) # "mixed" /\ c.setup.direction = Direction(gex[t], x)
  BY <1>2, <1>4, DetectTyped
<1>6. /\ c.contract \in contracts[t] /\ c.contract.type = c.setup.direction
      /\ c.contract.dte \in DteMin..DteMax
  BY <1>2 DEF Eligible
<1>7. bypass \/ \E a \in alerts : /\ a.ticker = t /\ a.age <= Lookback
                                  /\ a.type = c.setup.direction
  BY <1>2 DEF Confirming
<1>8. x = SpotOf(t)
  BY DEF SpotIn, SpotOf
<1> QED
  BY <1>4, <1>5, <1>6, <1>7, <1>8

LEMMA PipeInvTypes == PipeInv => PipeTypeOK
<1> SUFFICES ASSUME PipeInv PROVE PipeTypeOK
  OBVIOUS
<1>1. Len(cands) \in Nat /\ Len(cands) <= Len(TickerList) /\ DOMAIN cands = 1..Len(cands)
  BY EachCand
<1>2. ASSUME NEW c \in Range(cands) PROVE CandidateOK(c)
  <2>1. PICK i \in 1..Len(cands) : c = cands[i]
    BY <1>1 DEF Range
  <2>2. c \in Candidates /\ Good(c, Len(cands), stage, bypass, alerts, gex, dark, contracts)
    BY <2>1, EachCand
  <2>3. /\ c.ticker \in Tickers /\ c.setup \in Setups /\ c.score \in 0..Unit /\ c.rank \in Nat
        /\ c.confirmed \in BOOLEAN /\ c.status \in Statuses
        /\ c.contract \in Offered \union {NoContract}
    BY <2>2 DEF Candidates
  <2>4. Found(gex, alerts, dark, c.ticker)
        /\ c.setup = Detect(gex[c.ticker], SpotIn(alerts, dark, c.ticker))
        /\ c.rank <= Len(cands)
    BY <2>2 DEF Good
  <2>5. c.setup.conf <= c.setup.total
    BY <2>3, <2>4, FoundTyped, DetectTyped DEF PipeInv
  <2>6. /\ c.setup.direction \in {"call", "put", "none"} /\ c.setup.spot \in Spots
        /\ c.setup.conf \in Nat /\ c.setup.total \in Nat
    BY <2>3 DEF Setups
  <2>7. c.setup.conf \in 0..c.setup.total
    BY <2>5, <2>6
  <2>8. c.rank \in DOMAIN cands \union {0}
    BY <1>1, <2>3, <2>4
  <2> QED
    BY <2>3, <2>6, <2>7, <2>8 DEF CandidateOK
<1>3. next \in 1..(Len(TickerList) + 1)
  <2>1. next \in 1..(Len(cands) + 1) /\ Len(TickerList) \in Int
    <3>1. TickerList \in Seq(Tickers)
      BY PipelineAssumption
    <3> QED
      BY <3>1, LenProperties DEF PipeInv, OrderedOK
  <2> QED
    BY <1>1, <2>1
<1>4. ordered \subseteq Range(cands)
  BY OrderedGood
<1> QED
  BY <1>1, <1>2, <1>3, <1>4 DEF PipeTypeOK, PipeInv, FetchedOK
-----------------------------------------------------------------------------
(* The trade.                                                              *)

(* A position, opened on a setup of its own side or adopted without one.   *)
Positions ==
  {p \in [type : {"call", "put"}, entry : Premiums, target : Nat, setup : SUBSET Setups,
          peak : Premiums \union {Nothing}] :
     p.setup # {} => \E s \in Setups : /\ p.setup = {s} /\ s.direction = p.type
                                       /\ s.target = p.target}

TradeTyped ==
  /\ phase \in {"entering", "holding", "exited"}
  /\ config \in Configs /\ Valid(thresholds)
  /\ spot \in Spots /\ premium \in Premiums /\ dte \in Days /\ earnings \in Earnings
  /\ live # {} => \E s \in Setups : live = {s}
  /\ reason \in Rules \union {"none"}

PosOK ==
  /\ phase = "entering" => pos = NoPosition
  /\ phase # "entering" => pos \in Positions

(* What a tick that sold nothing leaves behind.                            *)
EvaluatedOK ==
  evaluated =>
    /\ phase = "holding" /\ pos.peak # Nothing /\ pos.peak >= premium
    /\ thresholds.dteFloor = config.dteFloor
    /\ WithinLimits(thresholds, pos, premium, dte, earnings)

(* The strengthening of the invariants of Trade.                           *)
TradeInv == PipeInv /\ TradeTyped /\ PosOK /\ EvaluatedOK

LEMMA DaysTyped ==
  /\ Days \subseteq Nat /\ 0 \in Days /\ AdoptedDte \in Days
  /\ \A c \in Offered : c.dte \in Days
  /\ \A d \in Days : d > 0 => d - 1 \in Days
<1> DEFINE S == {c.dte : c \in Offered}
           Z == S \union {AdoptedDte}
<1>1. \A c \in Offered : c.dte \in Nat
  BY PipelineAssumption
<1>2. IsFiniteSet(S)
  <2> DEFINE f == [c \in Offered |-> c.dte]
             image == {f[c] : c \in Offered}
  <2>1. S = image
    OBVIOUS
  <2>2. IsFiniteSet(Offered)
    BY PipelineAssumption
  <2>3. IsFiniteSet(image)
    <3> HIDE DEF f
    <3> QED
      BY <2>2, Images
  <2> HIDE DEF S, image
  <2> QED
    BY <2>1, <2>3
<1>3. AdoptedDte \in Nat /\ Z \subseteq Nat
  BY <1>1, TradeAssumption
<1>4. IsFiniteSet(Z)
  <2> HIDE DEF S
  <2> QED
    BY <1>2, FS_AddElement
<1>5. Days = 0..Max(Z)
  BY DEF Days
<1>6. (\A c \in Offered : c.dte \in Z) /\ AdoptedDte \in Z
  OBVIOUS
<1> HIDE DEF Z
<1>7. Max(Z) \in Z /\ \A x \in Z : x <= Max(Z)
  <2>1. Z # {} /\ Z \subseteq Int
    BY <1>3, <1>6
  <2> QED
    BY <1>4, <2>1, MaxExists
<1> DEFINE m == Max(Z)
<1>8. m \in Nat /\ Days = 0..m /\ \A x \in Z : x \in Nat /\ x <= m
  BY <1>3, <1>5, <1>7
<1> HIDE DEF m
<1>9. 0 \in 0..m /\ \A x \in Z : x \in 0..m
  BY <1>8
<1>10. (\A d \in 0..m : d \in Nat) /\ \A d \in 0..m : d > 0 => d - 1 \in 0..m
  BY <1>8
<1> QED
  BY <1>6, <1>8, <1>9, <1>10

LEMMA SyncedValid ==
  ASSUME NEW c, Valid(c), NEW t, Valid(t)
  PROVE  LET s == [c EXCEPT !.wallBand = t.wallBand]
         IN  Valid(s) /\ s.dteFloor = c.dteFloor /\ s.dynamic = c.dynamic
<1> DEFINE s == [c EXCEPT !.wallBand = t.wallBand]
<1>1. c \in Settings /\ t.wallBand \in Nat
  BY ValidFields DEF Settings
<1>2. s \in Settings /\ s.wallBand = t.wallBand /\ s.dteFloor = c.dteFloor /\ s.dynamic = c.dynamic
  BY <1>1 DEF Settings
<1>3. /\ s.stopLoss = c.stopLoss /\ s.activation = c.activation /\ s.giveback = c.giveback
      /\ s.confidenceDecay = c.confidenceDecay /\ s.wallDrift = c.wallDrift
      /\ s.ivAdjustment = c.ivAdjustment /\ s.momentumAdjustment = c.momentumAdjustment
      /\ s.liquidityAdjustment = c.liquidityAdjustment /\ s.rsiConfirm = c.rsiConfirm
      /\ s.rsiDiverge = c.rsiDiverge /\ s.earningsBuffer = c.earningsBuffer
      /\ s.spreadWide = c.spreadWide
  BY <1>1 DEF Settings
<1>4. t.wallBand * 200 \in Unit..(20 * Unit)
  BY DEF Valid
<1> HIDE DEF s
<1>5. Valid(s)
  BY <1>2, <1>3, <1>4 DEF Valid, Settings
<1> QED
  BY <1>2, <1>5 DEF s

LEMMA Least == Min(Spots) \in Spots /\ Min(Premiums) \in Premiums
<1>1. Spots # {} /\ Spots \subseteq Nat
  BY PipelineAssumption
<1>2. Premiums # {} /\ Premiums \subseteq Nat
  BY TradeAssumption
<1> QED
  BY <1>1, <1>2, MinExists

LEMMA TradeInvInit == Init => TradeInv
<1> SUFFICES ASSUME Init PROVE TradeInv
  OBVIOUS
<1>1. PipeInv
  BY PipeInvInit DEF Init
<1>2. config \in Configs /\ Valid(thresholds)
  BY TradeAssumption DEF Init
<1>3. TradeTyped
  BY <1>2, Least, DaysTyped DEF Init, TradeTyped, Earnings
<1> QED
  BY <1>1, <1>3 DEF TradeInv, PosOK, EvaluatedOK, Init
LEMMA PremiumsTyped == \A p \in Premiums : p \in Nat \ {0}
BY TradeAssumption

(* The steps that begin with a trade not yet held.                         *)
LEMMA EnteringStep ==
  ASSUME TradeInv, Pipe \/ Open \/ Adopt
  PROVE  TradeInv'
<1>1. phase = "entering" /\ pos = NoPosition /\ evaluated = FALSE
  <2>1. phase = "entering"
    BY DEF Pipe, Open, Adopt
  <2> QED
    BY <2>1 DEF TradeInv, PosOK, EvaluatedOK, Pipe, Open, Adopt, tradeVars
<1>2. CASE Pipe
  <2>1. PipeInv' /\ UNCHANGED tradeVars
    BY <1>2, PipeInvNext DEF Pipe, TradeInv
  <2> QED
    BY <1>1, <2>1 DEF TradeInv, TradeTyped, PosOK, EvaluatedOK, tradeVars
<1>3. CASE Open
  <2>1. PipeInv'
    BY <1>3, PipeInvForgotten DEF Open
  <2>2. PICK c \in ordered, price \in Premiums :
          /\ pos' = [type |-> c.contract.type, entry |-> price, target |-> c.setup.target,
                     setup |-> {c.setup}, peak |-> Nothing]
          /\ spot' = c.setup.spot /\ premium' = price /\ dte' = c.contract.dte
          /\ live' = {c.setup}
    BY <1>3 DEF Open
  <2>3. /\ phase' = "holding" /\ config' \in Configs /\ thresholds' = config'
        /\ UNCHANGED <<earnings, evaluated, reason>>
    BY <1>3 DEF Open, Configured
  <2>4. /\ c.setup \in Setups /\ c.setup.direction = c.contract.type
        /\ c.contract \in Offered /\ c.contract.type \in {"call", "put"}
    BY OrderedTrade DEF TradeInv
  <2>5. c.setup.spot \in Spots /\ c.setup.target \in Nat
    BY <2>4 DEF Setups
  <2>6. pos' \in Positions
    BY <2>2, <2>4, <2>5 DEF Positions
  <2>7. c.contract.dte \in Days
    BY <2>4, DaysTyped
  <2>8. Valid(thresholds')
    BY <2>3, TradeAssumption
  <2>9. TradeTyped'
    BY <2>2, <2>3, <2>4, <2>5, <2>7, <2>8 DEF TradeTyped, TradeInv
  <2>10. PosOK' /\ EvaluatedOK'
    BY <1>1, <2>3, <2>6 DEF PosOK, EvaluatedOK
  <2> QED
    BY <2>1, <2>9, <2>10 DEF TradeInv
<1>4. CASE Adopt
  <2>1. PipeInv'
    BY <1>4, PipeInvForgotten DEF Adopt
  <2>2. PICK type \in {"call", "put"}, price \in Premiums :
          /\ pos' = [type |-> type, entry |-> price, target |-> Nothing,
                     setup |-> {}, peak |-> Nothing]
          /\ premium' = price
    BY <1>4 DEF Adopt
  <2>3. /\ phase' = "holding" /\ config' \in Configs /\ thresholds' = config'
        /\ dte' = AdoptedDte /\ UNCHANGED <<spot, earnings, live, evaluated, reason>>
    BY <1>4 DEF Adopt, Configured
  <2>4. pos' \in Positions
    BY <2>2 DEF Positions, Nothing
  <2>5. Valid(thresholds') /\ dte' \in Days
    BY <2>3, TradeAssumption, DaysTyped
  <2>6. TradeTyped'
    BY <2>2, <2>3, <2>5 DEF TradeTyped, TradeInv
  <2>7. PosOK' /\ EvaluatedOK'
    BY <1>1, <2>3, <2>4 DEF PosOK, EvaluatedOK
  <2> QED
    BY <2>1, <2>6, <2>7 DEF TradeInv
<1> QED
  BY <1>2, <1>3, <1>4

(* The steps that change what is known of a held position.                 *)
LEMMA HoldingStep ==
  ASSUME TradeInv, MarketMoves \/ Scan \/ DayPasses \/ Reconfigure
  PROVE  TradeInv'
<1>1. /\ phase = "holding" /\ UNCHANGED <<pipeVars, phase, reason, thresholds, pos>>
      /\ evaluated' = FALSE
  BY DEF MarketMoves, Scan, DayPasses, Reconfigure, Holding
<1>2. PipeInv'
  BY <1>1, PipeInvStutter DEF TradeInv
<1>3. /\ config' \in Configs /\ spot' \in Spots /\ premium' \in Premiums
      /\ earnings' \in Earnings
  BY DEF TradeInv, TradeTyped, MarketMoves, Scan, DayPasses, Reconfigure
<1>4. dte' \in Days
  BY DaysTyped DEF TradeInv, TradeTyped, MarketMoves, Scan, DayPasses, Reconfigure
<1>5. live' # {} => \E s \in Setups : live' = {s}
  <2>1. CASE UNCHANGED live
    BY <2>1 DEF TradeInv, TradeTyped
  <2>2. CASE Scan
    <3>1. live' = {} \/ \E g \in Reports : live' = {Detect(g, spot)}
      BY <2>2 DEF Scan
    <3>2. spot \in Spots
      BY DEF TradeInv, TradeTyped
    <3> QED
      BY <3>1, <3>2, DetectTyped
  <2>3. UNCHANGED live \/ Scan
    BY DEF MarketMoves, DayPasses, Reconfigure
  <2> QED
    BY <2>1, <2>2, <2>3
<1>6. TradeTyped'
  BY <1>1, <1>3, <1>4, <1>5 DEF TradeTyped, TradeInv
<1>7. PosOK' /\ EvaluatedOK'
  BY <1>1 DEF PosOK, EvaluatedOK, TradeInv
<1> QED
  BY <1>2, <1>6, <1>7 DEF TradeInv

LEMMA EvaluateStep ==
  ASSUME TradeInv, Evaluate
  PROVE  TradeInv'
<1>1. /\ phase = "holding" /\ thresholds' = Synced /\ pos' = Peaked(pos, premium)
      /\ phase' = (IF reason' = "none" THEN "holding" ELSE "exited")
      /\ evaluated' = (reason' = "none")
      /\ UNCHANGED <<pipeVars, config, spot, premium, dte, earnings, live>>
  BY DEF Evaluate
<1>2. PICK ctx \in Contexts :
         reason' = Reason(thresholds', pos', spot, premium, dte, live, ctx, earnings)
  BY DEF Evaluate
<1>3. PipeInv'
  BY <1>1, PipeInvStutter DEF TradeInv
<1>4. Valid(thresholds') /\ thresholds'.dteFloor = config.dteFloor
  <2>1. Valid(config) /\ Valid(thresholds)
    BY TradeAssumption DEF TradeInv, TradeTyped
  <2> QED
    BY <1>1, <2>1, SyncedValid DEF Synced
<1>5. reason' \in Rules \union {"none"}
  BY <1>2, ReasonFires, Zenon
<1>6. TradeTyped'
  BY <1>1, <1>4, <1>5 DEF TradeTyped, TradeInv
<1>7. /\ pos \in Positions /\ premium \in Premiums /\ premium \in Nat \ {0} /\ dte \in Nat
  BY <1>1, PremiumsTyped, DaysTyped DEF TradeInv, TradeTyped, PosOK
<1> DEFINE peak == IF pos.peak = Nothing \/ premium > pos.peak THEN premium ELSE pos.peak
<1>8. pos' = [pos EXCEPT !.peak = peak]
  BY <1>1 DEF Peaked
<1>9. pos.entry \in Nat \ {0} /\ pos.entry \in Premiums
      /\ pos.peak \in Nat /\ pos.peak \in Premiums \union {Nothing}
  <2>1. pos.entry \in Premiums /\ pos.peak \in Premiums \union {Nothing}
    BY <1>7 DEF Positions
  <2> QED
    BY <2>1, PremiumsTyped DEF Nothing
<1>10. peak \in Premiums /\ peak \in Nat \ {0} /\ peak >= premium
  BY <1>7, <1>9, PremiumsTyped DEF Nothing
<1> HIDE DEF peak
<1>11. /\ pos' \in Positions /\ pos'.peak = peak /\ pos'.entry = pos.entry
  BY <1>7, <1>8, <1>10 DEF Positions
<1>12. PosOK'
  BY <1>1, <1>11 DEF PosOK
<1>13. ASSUME reason' = "none"
       PROVE  WithinLimits(thresholds', pos', premium, dte, earnings)
  <2>1. pos'.entry \in Nat \ {0} /\ pos'.peak \in Nat \ {0}
    BY <1>9, <1>10, <1>11
  <2>2. Reason(thresholds', pos', spot, premium, dte, live, ctx, earnings) = "none"
    BY <1>2, <1>13
  <2> QED
    BY <1>4, <1>7, <2>1, <2>2, UnsoldWithinLimits
<1>14. EvaluatedOK'
  BY <1>1, <1>4, <1>10, <1>11, <1>13 DEF EvaluatedOK, Nothing
<1> QED
  BY <1>3, <1>6, <1>12, <1>14 DEF TradeInv

LEMMA TradeInvNext == TradeInv /\ [Next]_vars => TradeInv'
<1> SUFFICES ASSUME TradeInv, [Next]_vars PROVE TradeInv'
  OBVIOUS
<1>1. CASE UNCHANGED vars
  <2>1. UNCHANGED pipeVars /\ UNCHANGED tradeVars
    BY <1>1 DEF vars
  <2>2. PipeInv'
    BY <2>1, PipeInvStutter DEF TradeInv
  <2> QED
    BY <2>1, <2>2 DEF TradeInv, TradeTyped, PosOK, EvaluatedOK, tradeVars
<1>2. CASE Next
  BY <1>2, EnteringStep, HoldingStep, EvaluateStep, Zenon DEF Next
<1> QED
  BY <1>1, <1>2

LEMMA TradeInvariance == Spec => []TradeInv
BY TradeInvInit, TradeInvNext, PTL DEF Spec
(* Whatever the pipeline fetched, ranked, bought and was held by.          *)
THEOREM TradeTypeCorrect == Spec => []TypeOK
<1> SUFFICES ASSUME TradeInv PROVE TypeOK
  BY TradeInvariance, PTL
<1>1. PipeTypeOK
  BY PipeInvTypes DEF TradeInv
<1>2. /\ phase \in {"entering", "holding", "exited"} /\ config \in Configs
      /\ thresholds.dynamic \in BOOLEAN
      /\ spot \in Spots /\ premium \in Premiums /\ dte \in Days /\ earnings \in Earnings
  BY ValidFields DEF TradeInv, TradeTyped
<1>3. Cardinality(live) <= 1 /\ \A s \in live : s.spot \in Spots
  <2>1. live # {} => \E s \in Setups : live = {s}
    BY DEF TradeInv, TradeTyped
  <2>2. CASE live = {}
    BY <2>2, FS_EmptySet
  <2>3. CASE live # {}
    <3>1. PICK s \in Setups : live = {s}
      BY <2>1, <2>3
    <3>2. Cardinality({s}) = 1
      BY FS_Singleton
    <3> QED
      BY <3>1, <3>2 DEF Setups
  <2> QED
    BY <2>2, <2>3
<1>4. /\ pos.type \in {"none", "call", "put"} /\ pos.entry \in Premiums \union {Nothing}
      /\ pos.peak \in Premiums \union {Nothing}
      /\ \A s \in pos.setup : s.direction = pos.type /\ s.target = pos.target
  <2>1. CASE pos = NoPosition
    BY <2>1 DEF NoPosition
  <2>2. CASE pos \in Positions
    BY <2>2 DEF Positions
  <2> QED
    BY <2>1, <2>2 DEF TradeInv, PosOK
<1>5. evaluated => pos.peak >= premium
  BY DEF TradeInv, EvaluatedOK
<1>6. reason \in Range(Priority) \union {"none"}
  <2>1. \A r \in Rules : \E i \in 1..6 : Priority[i] = r
    BY PriorityRules
  <2>2. DOMAIN Priority = 1..6
    BY DEF Priority
  <2>3. Rules \subseteq Range(Priority)
    BY <2>1, <2>2 DEF Range
  <2> QED
    BY <2>3 DEF TradeInv, TradeTyped
<1> QED
  BY <1>1, <1>2, <1>3, <1>4, <1>5, <1>6 DEF TypeOK

(* Every order the broker takes passed every gate (graph/agent.py).        *)
THEOREM OrdersPassTheGates == Spec => []GatesPassed
<1> SUFFICES ASSUME TradeInv PROVE GatesPassed
  BY TradeInvariance, PTL
<1> QED
  BY PipeInvGates DEF TradeInv

(* A position the rules keep is within the limits of the settings in force *)
(* (ExitMonitor.evaluate).                                                 *)
THEOREM HeldPositionsAreWithinLimits == Spec => []HeldWithinLimits
<1> SUFFICES ASSUME TradeInv PROVE HeldWithinLimits
  BY TradeInvariance, PTL
<1> SUFFICES ASSUME phase = "holding", evaluated
             PROVE  HeldWithinLimits
  BY DEF HeldWithinLimits
<1>1. WithinLimits(thresholds, pos, premium, dte, earnings)
      /\ thresholds.dteFloor = config.dteFloor
  BY DEF TradeInv, EvaluatedOK
<1> QED
  BY <1>1 DEF WithinLimits, HeldWithinLimits, NearEarnings, Room

(* The rules that sell do not undo the ones that bought.                   *)
THEOREM EntriesAreNotExits == Spec => []EntryIsNotExit
<1> SUFFICES ASSUME TradeInv PROVE EntryIsNotExit
  BY TradeInvariance, PTL
<1> SUFFICES ASSUME phase = "holding", pos.peak = Nothing, NEW s \in pos.setup,
                    NEW ctx \in Contexts, NEW days \in Earnings
             PROVE  Reason(Synced, [pos EXCEPT !.peak = pos.entry], s.spot, pos.entry, dte,
                           {s}, ctx, days) \in {"none", "profit_target", "dte_stop"}
  BY DEF EntryIsNotExit
<1> DEFINE p == [pos EXCEPT !.peak = pos.entry]
<1>1. pos \in Positions
  BY DEF TradeInv, PosOK
<1>2. s \in Setups /\ pos.setup = {s} /\ s.direction = pos.type
      /\ pos.entry \in Premiums
  BY <1>1 DEF Positions
<1>3. /\ p.entry = pos.entry /\ p.peak = pos.entry /\ p.setup = {s} /\ p.type = pos.type
  BY <1>1, <1>2 DEF Positions
<1>4. Valid(Synced)
  <2>1. Valid(config) /\ Valid(thresholds)
    BY TradeAssumption DEF TradeInv, TradeTyped
  <2> QED
    BY <2>1, SyncedValid DEF Synced
<1> HIDE DEF p
<1>5. p.entry \in Nat \ {0} /\ p.peak = p.entry /\ p.setup = {s} /\ s.direction = p.type
  BY <1>2, <1>3, PremiumsTyped
<1>6. /\ s.conf \in Nat /\ s.total \in Nat /\ s.spot \in Nat
      /\ s.callWall \in Nat /\ s.putWall \in Nat
  BY <1>2, PipelineAssumption DEF Setups
<1>7. Reason(Synced, p, s.spot, p.entry, dte, {s}, ctx, days)
        \in {"none", "profit_target", "dte_stop"}
  BY <1>4, <1>5, <1>6, UnsoldAtEntry
<1> QED
  BY <1>3, <1>7 DEF p

(* With the switch off, the rules are the static ones (exits/monitor.py:96).*)
THEOREM StaticRulesAreStatic == Spec => []StaticIsStatic
<1> SUFFICES ASSUME TradeInv PROVE StaticIsStatic
  BY TradeInvariance, PTL
<1> DEFINE bare == [iv |-> NoIv, rsi |-> {}, hist |-> {}, spread |-> 0]
           moved(wall) == {[s EXCEPT !.callWall = wall, !.putWall = wall, !.conf = 0] : s \in live}
<1> SUFFICES ASSUME ~config.dynamic, NEW ctx \in Contexts, NEW days \in Earnings,
                    NEW wall \in Spots \union {Nothing}
             PROVE  Reason(Synced, pos, spot, premium, dte, moved(wall), ctx, days)
                      = Reason(Synced, pos, spot, premium, dte, live, bare, NoDate)
  BY DEF StaticIsStatic
<1>1. ~Synced.dynamic
  <2>1. Valid(config) /\ Valid(thresholds)
    BY TradeAssumption DEF TradeInv, TradeTyped
  <2> QED
    BY <2>1, SyncedValid DEF Synced
<1>2. \A s \in live : s \in Setups
  BY DEF TradeInv, TradeTyped
<1>3. (\E x \in moved(wall) : x.direction # pos.type) <=> (\E x \in live : x.direction # pos.type)
  <2> DEFINE move(s) == [s EXCEPT !.callWall = wall, !.putWall = wall, !.conf = 0]
  <2>1. \A s \in live : move(s).direction = s.direction
    BY <1>2 DEF Setups
  <2>2. moved(wall) = {move(s) : s \in live}
    OBVIOUS
  <2> HIDE DEF move, moved
  <2> QED
    BY <2>1, <2>2
<1> HIDE DEF moved, bare
<1>4. \A r \in Rules :
        Fires(r, Synced, pos, spot, premium, dte, moved(wall), ctx, days)
          <=> Fires(r, Synced, pos, spot, premium, dte, live, bare, NoDate)
  BY <1>1, <1>3, StaticRule
<1> QED
  BY <1>4, ReasonSame
=============================================================================
