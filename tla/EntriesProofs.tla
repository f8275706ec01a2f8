--------------------------- MODULE EntriesProofs ---------------------------
(***************************************************************************)
(* Theorems about Entries, for any tickers, cadences, windows and faults.  *)
(*                                                                         *)
(* Four facts carry the properties, each inductive on top of TypeOK: what  *)
(* a scan in progress owes to the tickers that are held (ScanInv), that a  *)
(* cached structure is never older than its snapshot (AgeInv), that the    *)
(* cooldown of an attempt covers everything the attempt set in motion      *)
(* (EntryInv), and that the keys still remembered are those of the prints  *)
(* that can still be answered (SeenInv).                                   *)
(***************************************************************************)
EXTENDS Entries, FiniteSetTheorems, SequenceTheorems, NaturalsInduction,
        WellFoundedInduction, TLAPS

(* Between scans nothing is left of the last one; during one, a held       *)
(* ticker has still to be fetched or has a new snapshot, no older than the *)
(* scan.  Unless a scan failed since, a ticker kept in the cache is no     *)
(* older than the start of the last scan.                                  *)
AgeBound == ScanEvery + ScanTakes - scanIn

ScanInv ==
  /\ ~scanning => got = Empty /\ todo = {} /\ heldRead = {}
  /\ scanning => scanIn <= 0
  /\ \A t \in Tickers : got[t] # NoSnapshot => got[t].age <= -scanIn
  /\ scanning => \A t \in heldRead : t \in todo \/ got[t] # NoSnapshot
  /\ \A t \in hist.kept :
       /\ t \in Tickers /\ cache[t] # NoSnapshot
       /\ ~hist.failed => cache[t].age <= AgeBound

(* A snapshot with a setup is at least as old as the last answer with one. *)
AgeInv ==
  \A t \in Tickers : \A x \in {cache[t], got[t]} :
    x.setup => hist.structure[t] \in 0..x.age

Load(t) == orders[t] + positions[t] + (IF t \in sending THEN 1 ELSE 0)

(* While an attempt is covered by its cooldown, it is the only one, and no *)
(* proposal of the ticker can be approved any more.                        *)
EntryInv ==
  \A t \in Tickers :
    /\ proposal[t] \in 0..Cooldown => attempted[t] \in 0..proposal[t]
    /\ t \notin hist.outlived =>
         /\ Load(t) <= 1
         /\ Engaged(t) => /\ attempted[t] \in 0..Cooldown
                          /\ proposal[t] \notin 0..Cooldown

(* The keys of a sequence are distinct, and each was among the answered    *)
(* ones when those before it were already printed.                         *)
Ordered(keys) ==
  \A p, q \in 1..Len(keys) :
    p < q => keys[p] # keys[q] /\ keys[p] < keys[q] + Window

Answerable(i) == i \in 1..Len(prints) /\ i > Len(prints) - Window

SeenInv ==
  /\ Ordered(seen)
  /\ \A p \in 1..Len(seen) : seen[p] \in 1..Len(prints)
  /\ hist.acted \subseteq 1..Len(prints)
  /\ \A i \in hist.acted : Answerable(i) => Contains(seen, i)
  /\ ~hist.again

IInv == TypeOK /\ ScanInv /\ AgeInv /\ EntryInv /\ SeenInv /\ SeenIsOnDisk
         /\ ActsOnSeenStructure

-----------------------------------------------------------------------------
(* Induction, by a least counterexample.                                   *)
LEMMA LeastNat ==
  ASSUME NEW T \in SUBSET Nat, T # {}
  PROVE  \E m \in T : \A k \in T : m <= k
<1>1. PICK m \in T : \A k \in T : <<k, m>> \notin OpToRel(<, Nat)
  BY WFMin, NatLessThanWellFounded, Zenon
<1>2. \A k \in T : ~(k < m)
  BY <1>1, Zenon DEF OpToRel
<1> QED
  BY <1>2

(* A finite set of numbers can be listed downwards, so NewestFirst is one. *)
Listing(S, keys) ==
  /\ keys \in [1..Cardinality(S) -> S]
  /\ \A j, k \in 1..Cardinality(S) : j < k => keys[j] > keys[k]

LEMMA ListingExists ==
  ASSUME NEW S \in SUBSET Nat, IsFiniteSet(S)
  PROVE  \E keys : Listing(S, keys)
<1> DEFINE Bad == {n \in Nat : \E T \in SUBSET Nat :
                     /\ IsFiniteSet(T) /\ Cardinality(T) = n
                     /\ ~\E keys : Listing(T, keys)}
<1> SUFFICES ASSUME Bad # {} PROVE FALSE
  BY FS_CardinalityType
<1>1. PICK n \in Bad : \A k \in Bad : n <= k
  <2>1. Bad \in SUBSET Nat
    OBVIOUS
  <2> HIDE DEF Bad
  <2> QED
    BY <2>1, LeastNat
<1>2. PICK T \in SUBSET Nat : /\ IsFiniteSet(T) /\ Cardinality(T) = n
                              /\ ~\E keys : Listing(T, keys)
  BY <1>1
<1>3. T # {}
  <2>1. ASSUME T = {} PROVE FALSE
    <3>1. Cardinality(T) = 0
      BY <2>1, FS_EmptySet
    <3>2. Listing(T, [k \in {} |-> 0])
      BY <2>1, <3>1 DEF Listing
    <3> QED
      BY <1>2, <3>2
  <2> QED
    BY <2>1
<1>4. PICK m \in T : \A k \in T : m <= k
  BY <1>2, <1>3, LeastNat
<1> DEFINE R == T \ {m}
<1>5. IsFiniteSet(R) /\ Cardinality(R) = n - 1 /\ n - 1 \in Nat
  <2>1. IsFiniteSet(R) /\ Cardinality(R) = Cardinality(T) - 1
    BY <1>2, <1>4, FS_RemoveElement
  <2>2. Cardinality(R) \in Nat
    BY <2>1, FS_CardinalityType
  <2> QED
    BY ONLY <1>2, <2>1, <2>2
<1>6. PICK f : Listing(R, f)
  <2>1. n - 1 \notin Bad
    BY <1>1, <1>5
  <2> QED
    BY <1>2, <1>5, <2>1
<1> DEFINE g == [k \in 1..n |-> IF k < n THEN f[k] ELSE m]
<1>7. Listing(T, g)
  <2>1. n \in Nat /\ Cardinality(T) = n /\ Cardinality(R) = n - 1
    BY <1>1, <1>2, <1>5
  <2>2. f \in [1..(n - 1) -> R] /\ \A j, k \in 1..(n - 1) : j < k => f[j] > f[k]
    BY <1>6, <2>1 DEF Listing
  <2>3. \A k \in 1..n : k < n => k \in 1..(n - 1) /\ f[k] \in R
    BY <2>1, <2>2
  <2>4. g \in [1..n -> T]
    BY <1>4, <2>3
  <2>5. ASSUME NEW j \in 1..n, NEW k \in 1..n, j < k PROVE g[j] > g[k]
    <3>1. CASE k < n
      BY <2>1, <2>2, <2>3, <2>5, <3>1
    <3>2. CASE k = n
      <4>1. f[j] \in R /\ f[j] # m /\ m <= f[j] /\ f[j] \in Nat /\ m \in Nat
        BY <1>2, <1>4, <2>3, <2>5, <3>2
      <4> QED
        BY <2>5, <3>2, <4>1
    <3> QED
      BY <2>1, <3>1, <3>2
  <2> QED
    BY <2>1, <2>4, <2>5 DEF Listing
<1> QED
  BY <1>2, <1>7

LEMMA NewestFirstListing ==
  ASSUME NEW S \in SUBSET Nat, IsFiniteSet(S)
  PROVE  /\ Listing(S, NewestFirst(S))
         /\ NewestFirst(S) \in Seq(S) /\ Len(NewestFirst(S)) = Cardinality(S)
         /\ \A i \in S : \E k \in 1..Cardinality(S) : NewestFirst(S)[k] = i
<1>1. Listing(S, NewestFirst(S))
  BY ListingExists, Zenon DEF NewestFirst, Listing
<1> DEFINE keys == NewestFirst(S)
           n == Cardinality(S)
<1> HIDE DEF keys
<1>2. n \in Nat
  BY FS_CardinalityType
<1>3. keys \in [1..n -> S] /\ \A j, k \in 1..n : j < k => keys[j] > keys[k]
  BY <1>1 DEF Listing, keys
<1> HIDE DEF n
<1>4. keys \in Seq(S) /\ Len(keys) = n
  BY <1>2, <1>3
<1>5. keys \in Injection(1..n, S)
  <2>1. ASSUME NEW j \in 1..n, NEW k \in 1..n, keys[j] = keys[k] PROVE j = k
    <3>1. keys[j] \in Nat /\ keys[k] \in Nat
      BY <1>3
    <3>2. ~(j < k) /\ ~(k < j)
      BY <1>3, <2>1, <3>1
    <3> QED
      BY <1>2, <3>2
  <2> QED
    BY <1>3, <2>1 DEF Injection, IsInjective
<1>6. keys \in Surjection(1..n, S)
  <2>1. Cardinality(1..n) = n
    BY <1>2, FS_Interval
  <2> QED
    BY <1>5, <2>1, FS_Injection DEF n
<1>7. \A i \in S : \E k \in 1..n : keys[k] = i
  BY <1>6 DEF Surjection
<1> QED
  BY <1>1, <1>4, <1>7 DEF keys, n

-----------------------------------------------------------------------------
(* _filter_new.                                                            *)

LEMMA LatestAnswerable ==
  ASSUME TypeOK
  PROVE  /\ Latest = {i \in 1..Len(prints) : Answerable(i)}
         /\ Len(prints) \in 0..MaxAlerts /\ 1..Len(prints) \subseteq Alerts
         /\ NewAlerts \subseteq Latest /\ IsFiniteSet(NewAlerts) /\ NewAlerts \in SUBSET Nat
         /\ \A i \in NewAlerts : ~Contains(seen, i) /\ prints[i] \in Tickers
<1>1. Len(prints) \in Nat /\ DOMAIN prints = 1..Len(prints) /\ Len(prints) <= MaxAlerts
  BY LenProperties DEF TypeOK
<1>2. Len(prints) \in 0..MaxAlerts /\ 1..Len(prints) \subseteq Alerts
  BY <1>1, EntriesAssumption DEF Alerts
<1>3. Latest = {i \in 1..Len(prints) : Answerable(i)}
  BY <1>1 DEF Latest, Answerable
<1>4. NewAlerts \subseteq Latest /\ \A i \in NewAlerts : ~Contains(seen, i)
  BY DEF NewAlerts
<1>5. NewAlerts \in SUBSET (1..Len(prints))
  BY <1>3, <1>4
<1>6. IsFiniteSet(NewAlerts)
  <2>1. IsFiniteSet(1..Len(prints))
    BY <1>1, FS_Interval
  <2> QED
    BY <1>5, <2>1, FS_Subset
<1>7. \A i \in NewAlerts : prints[i] \in Tickers
  BY <1>1, <1>5, ElementOfSeq DEF TypeOK
<1> QED
  BY <1>2, <1>3, <1>4, <1>5, <1>6, <1>7

(* The keys before they are trimmed.                                       *)
AllKeys == seen \o NewestFirst(NewAlerts)

LEMMA AllKeysFacts ==
  ASSUME TypeOK
  PROVE  /\ AllKeys \in Seq(Alerts) /\ Len(AllKeys) \in Nat /\ Len(seen) \in Nat
         /\ Len(AllKeys) = Len(seen) + Cardinality(NewAlerts)
         /\ Cardinality(NewAlerts) \in Nat
         /\ \A p \in 1..Len(seen) : AllKeys[p] = seen[p]
         /\ \A p \in 1..Len(AllKeys) : p > Len(seen) => AllKeys[p] \in NewAlerts
         /\ \A p, q \in 1..Len(AllKeys) :
              p > Len(seen) /\ q > Len(seen) /\ p < q => AllKeys[p] > AllKeys[q]
         /\ \A i \in NewAlerts : \E p \in 1..Len(AllKeys) : AllKeys[p] = i
<1> DEFINE new == NewestFirst(NewAlerts)
           n == Cardinality(NewAlerts)
<1>1. /\ NewAlerts \in SUBSET Alerts /\ NewAlerts \in SUBSET Nat /\ IsFiniteSet(NewAlerts)
  BY LatestAnswerable
<1>2. /\ Listing(NewAlerts, new) /\ new \in Seq(NewAlerts) /\ Len(new) = n
      /\ \A i \in NewAlerts : \E k \in 1..n : new[k] = i
  BY <1>1, NewestFirstListing
<1>3. seen \in Seq(Alerts) /\ Len(seen) \in Nat
  BY LenProperties DEF TypeOK
<1>4. new \in Seq(Alerts)
  BY <1>1, <1>2, SeqMonotonic
<1>5. n \in Nat /\ \A k \in 1..n : new[k] \in NewAlerts
  BY <1>1, <1>2, FS_CardinalityType, ElementOfSeq
<1>6. \A j, k \in 1..n : j < k => new[j] > new[k]
  BY <1>2 DEF Listing
<1> HIDE DEF new, n
<1>7. /\ AllKeys \in Seq(Alerts) /\ Len(AllKeys) = Len(seen) + n
      /\ \A p \in 1..(Len(seen) + n) :
           AllKeys[p] = IF p <= Len(seen) THEN seen[p] ELSE new[p - Len(seen)]
  BY <1>2, <1>3, <1>4, ConcatProperties DEF AllKeys, new
<1>8. \A p \in 1..Len(AllKeys) :
        p > Len(seen) => p - Len(seen) \in 1..n /\ AllKeys[p] = new[p - Len(seen)]
  BY <1>3, <1>5, <1>7
<1>9. \A p \in 1..Len(AllKeys) : p > Len(seen) => AllKeys[p] \in NewAlerts
  BY <1>5, <1>8
<1>10. \A p, q \in 1..Len(AllKeys) :
         p > Len(seen) /\ q > Len(seen) /\ p < q => AllKeys[p] > AllKeys[q]
  BY <1>3, <1>5, <1>6, <1>7, <1>8
<1>11. ASSUME NEW i \in NewAlerts PROVE \E p \in 1..Len(AllKeys) : AllKeys[p] = i
  <2>1. PICK k \in 1..n : new[k] = i
    BY <1>2 DEF new, n
  <2>2. Len(seen) + k \in 1..Len(AllKeys) /\ AllKeys[Len(seen) + k] = i
    BY <1>3, <1>5, <1>7, <2>1
  <2> QED
    BY <2>2
<1>12. \A p \in 1..Len(seen) : AllKeys[p] = seen[p]
  BY <1>3, <1>5, <1>7
<1> QED
  BY <1>3, <1>5, <1>7, <1>9, <1>10, <1>11, <1>12 DEF n

LEMMA TrimmedFacts ==
  ASSUME NEW keys \in Seq(Alerts)
  PROVE  /\ Trimmed(keys) \in Seq(Alerts) /\ Len(Trimmed(keys)) <= MaxSeen
         /\ Len(keys) <= MaxSeen => Trimmed(keys) = keys
         /\ Len(keys) > MaxSeen =>
              /\ Len(Trimmed(keys)) = Keep
              /\ \A p \in 1..Keep : Trimmed(keys)[p] = keys[Len(keys) - Keep + p]
<1>1. Len(keys) \in Nat /\ Keep \in Nat /\ MaxSeen \in Nat /\ Keep <= MaxSeen
  BY LenProperties, EntriesAssumption
<1>2. CASE Len(keys) <= MaxSeen
  BY <1>1, <1>2 DEF Trimmed
<1>3. CASE Len(keys) > MaxSeen
  <2> DEFINE m == Len(keys) - Keep + 1
  <2>1. m \in Int /\ m >= 1 /\ Len(keys) - m + 1 = Keep /\ m <= Len(keys) + 1
    BY <1>1, <1>3
  <2>2. \A i \in m..Len(keys) : keys[i] \in Alerts
    BY <1>1, <2>1, ElementOfSeq
  <2>3. /\ SubSeq(keys, m, Len(keys)) \in Seq(Alerts)
        /\ Len(SubSeq(keys, m, Len(keys))) = IF m <= Len(keys) THEN Len(keys) - m + 1 ELSE 0
        /\ \A i \in 1..(Len(keys) - m + 1) : SubSeq(keys, m, Len(keys))[i] = keys[m + i - 1]
    BY <1>1, <2>1, <2>2, SubSeqProperties
  <2>4. Trimmed(keys) = SubSeq(keys, m, Len(keys))
    BY <1>3 DEF Trimmed
  <2>5. \A p \in 1..Keep : m + p - 1 = Len(keys) - Keep + p
    BY <1>1
  <2> HIDE DEF m
  <2>6. Len(Trimmed(keys)) = Keep
    BY <1>1, <2>1, <2>3, <2>4
  <2>7. \A p \in 1..Keep : Trimmed(keys)[p] = keys[Len(keys) - Keep + p]
    BY <2>1, <2>3, <2>4, <2>5
  <2> QED
    BY <1>1, <1>3, <2>3, <2>4, <2>6, <2>7
<1> QED
  BY <1>1, <1>2, <1>3

(* No key of a print that can still be answered is trimmed: from its place *)
(* on, the keys are distinct numbers less than Window away from it, which  *)
(* are no more than 2 * Window - 1.                                        *)
LEMMA KeptWhileAnswerable ==
  ASSUME NEW keys \in Seq(Alerts), Ordered(keys), Len(prints) \in Nat,
         \A p \in 1..Len(keys) : keys[p] \in 1..Len(prints),
         NEW p \in 1..Len(keys), Answerable(keys[p])
  PROVE  Len(keys) - p + 1 <= Keep
<1> DEFINE P == p..Len(keys)
           low == keys[p] - Window + 1
           high == keys[p] + Window - 1
           f == [q \in P |-> keys[q]]
<1>1. /\ Len(keys) \in Nat /\ p \in Nat /\ p <= Len(keys) /\ Window \in Nat \ {0}
      /\ Keep \in Nat /\ 2 * Window - 1 <= Keep
  BY LenProperties, EntriesAssumption
<1>2. \A q \in 1..Len(keys) : keys[q] \in Nat /\ keys[q] <= Len(prints)
  OBVIOUS
<1>3. keys[p] > Len(prints) - Window
  BY DEF Answerable
<1>4. \A q \in P : q \in 1..Len(keys) /\ keys[q] \in low..high
  <2>1. ASSUME NEW q \in P PROVE q \in 1..Len(keys) /\ keys[q] \in low..high
    <3>1. q \in 1..Len(keys) /\ p <= q
      BY <1>1
    <3>2. keys[q] <= high
      BY <1>1, <1>2, <1>3, <3>1
    <3>3. keys[p] < keys[q] + Window
      <4>1. CASE p = q
        BY <1>1, <1>2, <4>1
      <4>2. CASE p < q
        BY <3>1, <4>2 DEF Ordered
      <4> QED
        BY <1>1, <3>1, <4>1, <4>2
    <3>4. keys[q] >= low
      BY <1>1, <1>2, <3>1, <3>3
    <3> QED
      BY <1>1, <1>2, <3>1, <3>2, <3>4
  <2> QED
    BY <2>1
<1>5. low \in Int /\ high \in Int /\ high - low + 1 = 2 * Window - 1 /\ low <= high
  BY <1>1, <1>2
<1> HIDE DEF low, high
<1>6. f \in Injection(P, low..high)
  <2>1. \A a, b \in P : keys[a] = keys[b] => a = b
    <3>1. ASSUME NEW a \in P, NEW b \in P, keys[a] = keys[b] PROVE a = b
      <4>1. a \in 1..Len(keys) /\ b \in 1..Len(keys)
        BY <1>4
      <4>2. ~(a < b) /\ ~(b < a)
        BY <3>1, <4>1 DEF Ordered
      <4> QED
        BY <1>1, <4>1, <4>2
    <3> QED
      BY <3>1
  <2> QED
    BY <1>4, <2>1 DEF Injection, IsInjective
<1>7. IsFiniteSet(low..high) /\ Cardinality(low..high) = 2 * Window - 1
  <2>1. IsFiniteSet(low..high)
    BY ONLY <1>5, FS_Interval
  <2>2. Cardinality(low..high) = high - low + 1
    BY ONLY <1>5, FS_Interval
  <2> QED
    BY ONLY <1>5, <2>1, <2>2
<1>8. Cardinality(P) = Len(keys) - p + 1
  BY <1>1, FS_Interval
<1>9. Cardinality(P) <= Cardinality(low..high)
  BY <1>6, <1>7, FS_Injection
<1> QED
  BY <1>1, <1>7, <1>8, <1>9

LEMMA AllKeysOrdered ==
  ASSUME TypeOK, SeenInv
  PROVE  /\ Ordered(AllKeys)
         /\ \A p \in 1..Len(AllKeys) : AllKeys[p] \in 1..Len(prints)
<1>1. Len(prints) \in Nat /\ Window \in Nat \ {0}
  BY LatestAnswerable, EntriesAssumption
<1>2. \A p \in 1..Len(seen) : seen[p] \in 1..Len(prints)
  BY DEF SeenInv
<1>3. \A i \in NewAlerts : i \in 1..Len(prints) /\ Answerable(i) /\ ~Contains(seen, i)
  BY LatestAnswerable
<1>4. \A p \in 1..Len(AllKeys) : AllKeys[p] \in 1..Len(prints)
  <2>1. ASSUME NEW p \in 1..Len(AllKeys) PROVE AllKeys[p] \in 1..Len(prints)
    <3>1. CASE p <= Len(seen)
      BY <1>2, <3>1, AllKeysFacts
    <3>2. CASE p > Len(seen)
      BY <1>3, <3>2, AllKeysFacts
    <3> QED
      BY <3>1, <3>2, AllKeysFacts
  <2> QED
    BY <2>1
<1>5. ASSUME NEW p \in 1..Len(AllKeys), NEW q \in 1..Len(AllKeys), p < q
      PROVE  AllKeys[p] # AllKeys[q] /\ AllKeys[p] < AllKeys[q] + Window
  <2>0. AllKeys[p] \in 1..Len(prints) /\ AllKeys[q] \in 1..Len(prints)
    BY <1>4
  <2>1. CASE q <= Len(seen)
    <3>1. p \in 1..Len(seen) /\ q \in 1..Len(seen)
      BY <1>5, <2>1, AllKeysFacts
    <3> QED
      BY <1>5, <3>1, AllKeysFacts DEF SeenInv, Ordered
  <2>2. CASE q > Len(seen)
    <3>1. AllKeys[q] \in NewAlerts /\ Answerable(AllKeys[q]) /\ ~Contains(seen, AllKeys[q])
      BY <1>3, <2>2, AllKeysFacts
    <3>2. AllKeys[p] < AllKeys[q] + Window
      BY <1>1, <2>0, <3>1 DEF Answerable
    <3>3. AllKeys[p] # AllKeys[q]
      <4>1. CASE p <= Len(seen)
        <5>1. p \in 1..Len(seen) /\ AllKeys[p] = seen[p]
          BY <4>1, AllKeysFacts
        <5> QED
          BY <3>1, <5>1 DEF Contains
      <4>2. CASE p > Len(seen)
        BY <1>5, <2>0, <2>2, <4>2, AllKeysFacts
      <4> QED
        BY <4>1, <4>2, AllKeysFacts
    <3> QED
      BY <3>2, <3>3
  <2> QED
    BY <2>1, <2>2, AllKeysFacts
<1> QED
  BY <1>4, <1>5 DEF Ordered

LEMMA SeenAfterFacts ==
  ASSUME TypeOK, SeenInv
  PROVE  LET keys == SeenAfter(NewAlerts)
         IN  /\ Ordered(keys)
             /\ \A p \in 1..Len(keys) : keys[p] \in 1..Len(prints)
             /\ \A i \in 1..Len(prints) :
                  Answerable(i) /\ (Contains(seen, i) \/ i \in NewAlerts) => Contains(keys, i)
<1> DEFINE keys == SeenAfter(NewAlerts)
<1>1. keys = Trimmed(AllKeys)
  BY DEF SeenAfter, AllKeys
<1> HIDE DEF keys
<1>2. AllKeys \in Seq(Alerts) /\ Len(AllKeys) \in Nat /\ Len(prints) \in Nat
  BY AllKeysFacts, LatestAnswerable
<1>3. Ordered(AllKeys) /\ \A p \in 1..Len(AllKeys) : AllKeys[p] \in 1..Len(prints)
  BY AllKeysOrdered
<1>4. Keep \in Nat /\ MaxSeen \in Nat /\ Keep <= MaxSeen
  BY EntriesAssumption
<1>5. \A i \in 1..Len(prints) :
        Contains(seen, i) \/ i \in NewAlerts => \E p \in 1..Len(AllKeys) : AllKeys[p] = i
  <2>1. ASSUME NEW i, Contains(seen, i) PROVE \E p \in 1..Len(AllKeys) : AllKeys[p] = i
    <3>1. PICK p \in 1..Len(seen) : seen[p] = i
      BY <2>1 DEF Contains
    <3>2. p \in 1..Len(AllKeys) /\ AllKeys[p] = i
      BY <3>1, AllKeysFacts
    <3> QED
      BY <3>2
  <2> QED
    BY <2>1, AllKeysFacts
<1>6. CASE Len(AllKeys) <= MaxSeen
  <2>1. keys = AllKeys
    BY <1>1, <1>2, <1>6, TrimmedFacts
  <2> QED
    BY <1>3, <1>5, <2>1 DEF Contains, keys
<1>7. CASE Len(AllKeys) > MaxSeen
  <2> DEFINE d == Len(AllKeys) - Keep
  <2>1. Len(keys) = Keep /\ \A p \in 1..Keep : keys[p] = AllKeys[d + p]
    BY <1>1, <1>2, <1>7, TrimmedFacts
  <2>2. d \in Nat /\ \A p \in 1..Keep : d + p \in 1..Len(AllKeys)
    BY <1>2, <1>4, <1>7
  <2>3. \A p \in 1..Len(AllKeys) : p > d => p - d \in 1..Keep
    BY <1>2, <1>4, <2>2
  <2>4. \A p \in 1..Len(AllKeys) : Len(AllKeys) - p + 1 <= Keep => p > d
    BY <1>2, <1>4
  <2> HIDE DEF d
  <2>5. \A p \in 1..Len(keys) : keys[p] \in 1..Len(prints)
    BY <1>3, <2>1, <2>2
  <2>6. Ordered(keys)
    <3>1. ASSUME NEW p \in 1..Keep, NEW q \in 1..Keep, p < q
          PROVE  keys[p] # keys[q] /\ keys[p] < keys[q] + Window
      <4>1. d + p < d + q /\ d + p \in 1..Len(AllKeys) /\ d + q \in 1..Len(AllKeys)
        BY <2>2, <3>1
      <4> QED
        BY <1>3, <2>1, <4>1 DEF Ordered
    <3> QED
      BY <2>1, <3>1 DEF Ordered
  <2>7. ASSUME NEW i \in 1..Len(prints), Answerable(i), Contains(seen, i) \/ i \in NewAlerts
        PROVE  Contains(keys, i)
    <3>1. PICK p \in 1..Len(AllKeys) : AllKeys[p] = i
      BY <1>5, <2>7
    <3>2. Len(AllKeys) - p + 1 <= Keep
      BY <1>2, <1>3, <2>7, <3>1, KeptWhileAnswerable
    <3>3. p - d \in 1..Keep /\ d + (p - d) = p
      BY <2>2, <2>3, <2>4, <3>2
    <3>4. keys[p - d] = i
      BY <2>1, <3>1, <3>3
    <3> QED
      BY <2>1, <3>3, <3>4 DEF Contains
  <2> QED
    BY <2>5, <2>6, <2>7 DEF keys
<1> QED
  BY <1>2, <1>4, <1>6, <1>7

-----------------------------------------------------------------------------
(* Types.                                                                  *)

LEMMA OlderAge ==
  ASSUME NEW bound \in Nat, NEW n \in Ages(bound)
  PROVE  Older(n, bound) \in Ages(bound)
BY DEF Older, Ages, NoTime

LEMMA SnapshotMade ==
  /\ \A s \in BOOLEAN, a \in 0..(StaleAfter + 1) :
       [setup |-> s, age |-> a] \in Snapshots /\ [setup |-> s, age |-> a] # NoSnapshot
  /\ NoSnapshot \in Snapshots
  /\ Empty \in [Tickers -> Snapshots]
  /\ \A bound \in Nat : Never \in [Tickers -> Ages(bound)]
<1>1. NoSnapshot.age = -1 /\ NoSnapshot.setup = FALSE
  BY DEF NoSnapshot, NoTime
<1>2. ASSUME NEW s \in BOOLEAN, NEW a \in 0..(StaleAfter + 1)
      PROVE  /\ [setup |-> s, age |-> a] \in Snapshots
             /\ [setup |-> s, age |-> a] # NoSnapshot
  <2>1. [setup |-> s, age |-> a].age # -1
    BY EntriesAssumption
  <2> QED
    BY <1>1, <2>1 DEF Snapshots
<1>3. NoSnapshot \in Snapshots
  BY DEF Snapshots
<1> QED
  BY <1>2, <1>3 DEF Empty, Never, Ages

LEMMA SnapshotFields ==
  ASSUME NEW x \in Snapshots
  PROVE  /\ x.setup \in BOOLEAN /\ x.age \in Ages(StaleAfter)
         /\ x # NoSnapshot => x.age \in 0..(StaleAfter + 1)
         /\ x = NoSnapshot => x.setup = FALSE /\ x.age = NoTime
<1>1. CASE x = NoSnapshot
  BY <1>1 DEF NoSnapshot, Ages
<1>2. CASE x # NoSnapshot
  <2>1. x \in [setup : BOOLEAN, age : 0..(StaleAfter + 1)]
    BY <1>2 DEF Snapshots
  <2> QED
    BY <1>2, <2>1 DEF Ages
<1> QED
  BY <1>1, <1>2

LEMMA AgedSnapshot ==
  ASSUME NEW x \in Snapshots
  PROVE  LET y == [x EXCEPT !.age = Older(@, StaleAfter)]
         IN  /\ y \in Snapshots /\ y.setup = x.setup /\ y.age = Older(x.age, StaleAfter)
             /\ y = NoSnapshot <=> x = NoSnapshot
<1>1. CASE x = NoSnapshot
  BY <1>1 DEF Older, NoTime, Snapshots, NoSnapshot
<1>2. CASE x # NoSnapshot
  <2>1. x \in [setup : BOOLEAN, age : 0..(StaleAfter + 1)]
    BY <1>2 DEF Snapshots
  <2>2. Older(x.age, StaleAfter) \in 0..(StaleAfter + 1)
    BY <2>1, EntriesAssumption DEF Older, NoTime
  <2> QED
    BY <1>2, <2>1, <2>2 DEF Snapshots, NoSnapshot, NoTime
<1> QED
  BY <1>1, <1>2

LEMMA OldSnapshot ==
  ASSUME NEW x \in Snapshots, x # NoSnapshot
  PROVE  LET y == [x EXCEPT !.age = StaleAfter + 1]
         IN  /\ y \in Snapshots /\ y.setup = x.setup /\ y.age = StaleAfter + 1
             /\ y # NoSnapshot
<1>1. x \in [setup : BOOLEAN, age : 0..(StaleAfter + 1)]
  BY DEF Snapshots
<1>2. StaleAfter + 1 \in 0..(StaleAfter + 1) /\ StaleAfter + 1 # -1
  BY EntriesAssumption
<1> DEFINE y == [x EXCEPT !.age = StaleAfter + 1]
<1>3. y.setup = x.setup /\ y.age = StaleAfter + 1 /\ y = [setup |-> x.setup, age |-> StaleAfter + 1]
  BY <1>1
<1> QED
  BY <1>1, <1>2, <1>3, SnapshotMade

LEMMA TypeInit == Init => TypeOK
<1> SUFFICES ASSUME Init PROVE TypeOK
  OBVIOUS
<1>1. hist \in HistType
  BY SnapshotMade, EntriesAssumption DEF Init, HistType
<1>2. prints \in Seq(Tickers) /\ seen \in Seq(Alerts) /\ Len(prints) = 0 /\ Len(seen) = 0
  BY DEF Init
<1>3. /\ cache \in [Tickers -> Snapshots] /\ got \in [Tickers -> Snapshots]
      /\ attempted \in [Tickers -> Ages(Cooldown)]
      /\ proposal \in [Tickers -> Ages(Cooldown)]
  BY SnapshotMade, EntriesAssumption DEF Init
<1>4. orders \in [Tickers -> Nat] /\ positions \in [Tickers -> Nat]
  BY DEF Init
<1>5. /\ scanIn \in (-ScanTakes)..ScanEvery /\ logDay \in 0..MaxDay /\ day \in 1..MaxDay
      /\ time \in 0..MaxTime /\ faults \in 0..MaxFaults
      /\ Len(prints) <= MaxAlerts /\ Len(seen) <= MaxSeen
  BY <1>2, EntriesAssumption DEF Init
<1> QED
  BY <1>1, <1>2, <1>3, <1>4, <1>5 DEF Init, TypeOK

(* What an action leaves alone keeps its type; the rest is for each action *)
(* to show.                                                                *)
LEMMA TypeStep ==
  ASSUME TypeOK, [Next]_vars
  PROVE  TypeOK'
<1> USE DEF vars, scanner, watcher, broker, capture, clock, Fault
<1>1. CASE Discover
  BY <1>1, EntriesAssumption DEF Discover, Universe, Held, TypeOK
<1>2. CASE DiscoverRaises
  <2>1. hist' \in HistType
    BY <1>2 DEF DiscoverRaises, HistType, TypeOK
  <2>2. scanIn' \in (-ScanTakes)..ScanEvery
    BY <1>2, EntriesAssumption DEF DiscoverRaises
  <2>3. faults' \in 0..MaxFaults
    <3>1. faults < MaxFaults /\ faults' = faults + 1 /\ faults \in 0..MaxFaults
      BY <1>2 DEF DiscoverRaises, TypeOK
    <3> QED
      BY <3>1, EntriesAssumption
  <2> QED
    BY <1>2, <2>1, <2>2, <2>3 DEF DiscoverRaises, TypeOK
<1>3. CASE ScanEnds
  <2>1. cache' \in [Tickers -> Snapshots] /\ got' \in [Tickers -> Snapshots]
    BY <1>3, SnapshotMade DEF ScanEnds, TypeOK
  <2>2. hist' \in HistType
    <3>1. heldRead \intersect Held \in SUBSET Tickers /\ hist \in HistType
      BY DEF Held, TypeOK
    <3> QED
      BY <1>3, <3>1 DEF ScanEnds, HistType
  <2>3. scanIn' \in (-ScanTakes)..ScanEvery
    BY <1>3, EntriesAssumption DEF ScanEnds
  <2> QED
    BY <1>3, <2>1, <2>2, <2>3 DEF ScanEnds, TypeOK
<1>4. CASE Poll
  <2>1. seen' \in Seq(Alerts) /\ Len(seen') <= MaxSeen
    BY <1>4, AllKeysFacts, TrimmedFacts DEF Poll, SeenAfter, AllKeys
  <2>2. NewAlerts \subseteq Alerts /\ Latest \subseteq Alerts
    BY LatestAnswerable
  <2>3. running' \subseteq Tickers
    <3>1. running' = {prints[i] : i \in NewAlerts}
      BY <1>4 DEF Poll
    <3> QED
      BY <3>1, LatestAnswerable
  <2>4. hist' \in HistType
    BY <1>4, <2>2 DEF Poll, HistType, TypeOK
  <2>5. Unlogged \subseteq Alerts /\ SeenToday \subseteq Alerts
    BY <2>2 DEF Unlogged, SeenToday, TypeOK
  <2>6. /\ logged' \subseteq (1..MaxDay) \X Alerts
        /\ logSeen' \subseteq Alerts /\ logDay' \in 0..MaxDay
    <3>1. day \in 1..MaxDay /\ 1..MaxDay \subseteq 0..MaxDay
      BY DEF TypeOK
    <3>2. CASE Record
      BY <2>5, <3>1, <3>2 DEF Record, TypeOK
    <3>3. CASE RecordFails
      BY <2>5, <3>1, <3>3 DEF RecordFails, TypeOK
    <3> QED
      BY <1>4, <3>2, <3>3 DEF Poll
  <2>7. faults' \in 0..MaxFaults
    <3>1. faults' = faults \/ (faults < MaxFaults /\ faults' = faults + 1)
      BY <1>4 DEF Poll
    <3>2. faults \in 0..MaxFaults
      BY DEF TypeOK
    <3> QED
      BY <3>1, <3>2, EntriesAssumption
  <2> QED
    BY <1>4, <2>1, <2>3, <2>4, <2>6, <2>7 DEF Poll, TypeOK
<1>5. CASE Tick
  <2>1. cache' \in [Tickers -> Snapshots] /\ got' \in [Tickers -> Snapshots]
    BY <1>5, AgedSnapshot DEF Tick, Aged, TypeOK
  <2>2. /\ attempted' \in [Tickers -> Ages(Cooldown)]
        /\ proposal' \in [Tickers -> Ages(Cooldown)]
    BY <1>5, OlderAge, EntriesAssumption DEF Tick, TypeOK
  <2>3. hist' \in HistType
    <3>1. [t \in Tickers |-> Older(hist.structure[t], StaleAfter)] \in [Tickers -> Ages(StaleAfter)]
      BY OlderAge, EntriesAssumption DEF HistType, TypeOK
    <3> QED
      BY <1>5, <3>1 DEF Tick, HistType, TypeOK
  <2>4. time' \in 0..MaxTime /\ scanIn' \in (-ScanTakes)..ScanEvery
    <3>1. /\ time < MaxTime /\ time' = time + 1 /\ scanIn > -ScanTakes /\ scanIn' = scanIn - 1
          /\ time \in 0..MaxTime /\ scanIn \in (-ScanTakes)..ScanEvery
      BY <1>5 DEF Tick, TypeOK
    <3> QED
      BY <3>1, EntriesAssumption
  <2> QED
    BY <1>5, <2>1, <2>2, <2>3, <2>4 DEF Tick, TypeOK
<1>6. CASE NextDay
  <2>1. cache' \in [Tickers -> Snapshots]
    <3>1. ASSUME NEW t \in Tickers PROVE cache'[t] \in Snapshots
      <4>1. cache'[t] = IF cache[t] # NoSnapshot THEN [cache[t] EXCEPT !.age = StaleAfter + 1]
                        ELSE NoSnapshot
        BY <1>6, <3>1 DEF NextDay, Cached
      <4>2. cache[t] \in Snapshots
        BY DEF TypeOK
      <4> QED
        BY <4>1, <4>2, OldSnapshot, SnapshotMade
    <3> QED
      BY <1>6, <3>1 DEF NextDay
  <2>2. \A bound \in Nat : \A f \in [Tickers -> Ages(bound)] :
          [t \in Tickers |-> IF f[t] = NoTime THEN NoTime ELSE bound + 1] \in [Tickers -> Ages(bound)]
    BY DEF Ages
  <2>3. /\ attempted' \in [Tickers -> Ages(Cooldown)]
        /\ proposal' \in [Tickers -> Ages(Cooldown)]
    BY <1>6, <2>2, EntriesAssumption DEF NextDay, TypeOK
  <2>4. hist' \in HistType
    <3>1. [t \in Tickers |-> IF hist.structure[t] = NoTime THEN NoTime ELSE StaleAfter + 1]
            \in [Tickers -> Ages(StaleAfter)]
      BY <2>2, EntriesAssumption DEF HistType, TypeOK
    <3> QED
      BY <1>6, <3>1 DEF NextDay, HistType, TypeOK
  <2>5. time' \in 0..MaxTime /\ day' \in 1..MaxDay /\ scanIn' \in (-ScanTakes)..ScanEvery
    <3>1. /\ time < MaxTime /\ time' = time + 1 /\ time \in 0..MaxTime
          /\ day < MaxDay /\ day' = day + 1 /\ day \in 1..MaxDay /\ scanIn' = 0
      BY <1>6 DEF NextDay, TypeOK
    <3> QED
      BY <3>1, EntriesAssumption
  <2> QED
    BY <1>6, <2>1, <2>3, <2>4, <2>5 DEF NextDay, TypeOK
<1>7. CASE Crash
  <2>1. /\ cache' \in [Tickers -> Snapshots] /\ got' \in [Tickers -> Snapshots]
        /\ attempted' \in [Tickers -> Ages(Cooldown)]
        /\ proposal' \in [Tickers -> Ages(Cooldown)]
    BY <1>7, SnapshotMade, EntriesAssumption DEF Crash
  <2>2. hist' \in HistType
    BY <1>7 DEF Crash, HistType, TypeOK
  <2>3. orders' \in [Tickers -> Nat]
    BY <1>7 DEF Crash, TypeOK
  <2>4. seen' \in Seq(Alerts) /\ Len(seen') <= MaxSeen
    BY <1>7, EntriesAssumption DEF Crash
  <2>5. faults' \in 0..MaxFaults /\ scanIn' \in (-ScanTakes)..ScanEvery /\ logDay' \in 0..MaxDay
    <3>1. /\ faults < MaxFaults /\ faults' = faults + 1 /\ faults \in 0..MaxFaults
          /\ scanIn' = 0 /\ logDay' = 0
      BY <1>7 DEF Crash, TypeOK
    <3> QED
      BY <3>1, EntriesAssumption
  <2> QED
    BY <1>7, <2>1, <2>2, <2>3, <2>4, <2>5 DEF Crash, TypeOK
<1>8. ASSUME NEW t \in Tickers, ScanTicker(t) PROVE TypeOK'
  <2>1. got' \in [Tickers -> Snapshots]
    <3>1. PICK found \in BOOLEAN : got' = [got EXCEPT ![t] = [setup |-> found, age |-> 0]]
      BY <1>8 DEF ScanTicker, Fetched
    <3>2. [setup |-> found, age |-> 0] \in Snapshots
      BY SnapshotMade, EntriesAssumption
    <3>3. got \in [Tickers -> Snapshots]
      BY DEF TypeOK
    <3> QED
      BY <3>1, <3>2, <3>3
  <2>2. hist' \in HistType
    <3>1. hist \in HistType
      BY DEF TypeOK
    <3>2. hist' = hist \/ hist' = [hist EXCEPT !.structure[t] = 0]
      BY <1>8 DEF ScanTicker
    <3>3. 0 \in Ages(StaleAfter)
      BY EntriesAssumption DEF Ages
    <3> QED
      BY <3>1, <3>2, <3>3 DEF HistType
  <2> QED
    BY <1>8, <2>1, <2>2 DEF ScanTicker, TypeOK
<1>9. ASSUME NEW t \in Tickers, ScanTickerRaises(t) PROVE TypeOK'
  BY <1>9, EntriesAssumption DEF ScanTickerRaises, TypeOK
<1>10. ASSUME NEW t \in Tickers, PipelineEnters(t) PROVE TypeOK'
  <2>1. 0 \in Ages(Cooldown)
    BY EntriesAssumption DEF Ages
  <2>2. /\ attempted' \in [Tickers -> Ages(Cooldown)]
        /\ proposal' \in [Tickers -> Ages(Cooldown)]
        /\ sending' \subseteq Tickers
    BY <1>10, <2>1 DEF PipelineEnters, TypeOK
  <2>3. hist' \in HistType
    BY <1>10 DEF PipelineEnters, HistType, TypeOK
  <2> QED
    BY <1>10, <2>2, <2>3 DEF PipelineEnters, TypeOK
<1>11. ASSUME NEW t \in Tickers, PipelineEnds(t) PROVE TypeOK'
  BY <1>11 DEF PipelineEnds, TypeOK
<1>12. ASSUME NEW t \in Tickers, Executed(t) PROVE TypeOK'
  <2>1. orders' \in [Tickers -> Nat]
    <3>1. orders' = orders \/ orders' = [orders EXCEPT ![t] = @ + 1]
      BY <1>12 DEF Executed
    <3>2. orders \in [Tickers -> Nat]
      BY DEF TypeOK
    <3> QED
      BY <3>1, <3>2
  <2> QED
    BY <1>12, <2>1 DEF Executed, TypeOK
<1>13. ASSUME NEW t \in Tickers, Approve(t) PROVE TypeOK'
  BY <1>13 DEF Approve, Ages, TypeOK
<1>14. ASSUME NEW t \in Tickers, WhalePrint(t) PROVE TypeOK'
  <2>1. prints' \in Seq(Tickers) /\ Len(prints') <= MaxAlerts
    BY <1>14, AppendProperties, LenProperties, EntriesAssumption DEF WhalePrint, TypeOK
  <2> QED
    BY <1>14, <2>1 DEF WhalePrint, TypeOK
<1>15. ASSUME NEW t \in Tickers, OrderEnds(t) PROVE TypeOK'
  <2>1. orders' \in [Tickers -> Nat] /\ positions' \in [Tickers -> Nat]
    BY <1>15 DEF OrderEnds, TypeOK
  <2> QED
    BY <1>15, <2>1 DEF OrderEnds, TypeOK
<1>16. ASSUME NEW t \in Tickers, Sold(t) PROVE TypeOK'
  <2>1. positions' \in [Tickers -> Nat]
    BY <1>16 DEF Sold, TypeOK
  <2>2. hist' \in HistType
    BY <1>16 DEF Sold, HistType, TypeOK
  <2> QED
    BY <1>16, <2>1, <2>2 DEF Sold, TypeOK
<1>17. CASE UNCHANGED vars
  BY <1>17 DEF TypeOK
<1> QED
  BY <1>1, <1>2, <1>3, <1>4, <1>5, <1>6, <1>7, <1>8, <1>9, <1>10, <1>11, <1>12, <1>13,
     <1>14, <1>15, <1>16, <1>17 DEF Next

-----------------------------------------------------------------------------
(* The four parts, step by step.                                           *)

LEMMA HistTyped ==
  ASSUME TypeOK
  PROVE  /\ hist \in HistType
         /\ hist.structure \in [Tickers -> Ages(StaleAfter)]
         /\ hist.kept \subseteq Tickers /\ hist.outlived \subseteq Tickers
         /\ hist.acted \subseteq Alerts /\ hist.again \in BOOLEAN /\ hist.blind \in BOOLEAN
         /\ hist.failed \in BOOLEAN
BY DEF TypeOK, HistType

(* The steps that touch neither a snapshot, the scan nor the held tickers. *)
LEMMA ScanInvFrame ==
  ASSUME ScanInv, UNCHANGED scanner, hist'.kept \subseteq hist.kept,
         hist'.failed = hist.failed
  PROVE  ScanInv'
BY DEF ScanInv, AgeBound, scanner

LEMMA ScanInvStep ==
  ASSUME TypeOK, ScanInv, [Next]_vars
  PROVE  ScanInv'
<1>1. CASE Discover
  <2>1. /\ scanning' /\ scanIn' = scanIn /\ got' = got /\ cache' = cache /\ hist' = hist
        /\ heldRead' \subseteq todo' /\ scanIn <= 0
    BY <1>1 DEF Discover, Universe, Held
  <2> QED
    BY <2>1 DEF ScanInv, AgeBound
<1>2. CASE DiscoverRaises
  <2>1. /\ ~scanning /\ UNCHANGED <<cache, scanning, got, todo, heldRead>>
        /\ hist'.failed /\ hist'.kept = hist.kept
    BY <1>2, HistTyped DEF DiscoverRaises, HistType
  <2>2. \A t \in Tickers : got'[t] = NoSnapshot
    BY <2>1 DEF ScanInv, Empty
  <2> QED
    BY <2>1, <2>2 DEF ScanInv
<1>3. CASE ScanEnds
  <2>1. /\ scanning /\ todo = {} /\ ~scanning' /\ todo' = {} /\ got' = Empty
        /\ scanIn' = ScanEvery /\ heldRead' = {} /\ hist'.kept = heldRead \intersect Held
        /\ scanIn \in (-ScanTakes)..ScanEvery
        /\ cache' = [t \in Tickers |-> IF got[t] # NoSnapshot THEN got[t] ELSE cache[t]]
    BY <1>3, HistTyped DEF ScanEnds, HistType, TypeOK
  <2>2. ASSUME NEW t \in hist'.kept
        PROVE  t \in Tickers /\ cache'[t] # NoSnapshot /\ cache'[t].age <= AgeBound'
    <3>1. t \in Tickers /\ got[t] # NoSnapshot /\ got[t].age <= -scanIn
      BY <2>1, <2>2 DEF ScanInv, Held
    <3>2. cache'[t] = got[t] /\ AgeBound' = ScanTakes
      BY <2>1, <3>1, EntriesAssumption DEF AgeBound
    <3>3. got[t] \in Snapshots
      BY <3>1 DEF TypeOK
    <3>4. got[t].age \in 0..(StaleAfter + 1)
      BY <3>1, <3>3, SnapshotFields
    <3> QED
      BY <2>1, <3>1, <3>2, <3>4, EntriesAssumption
  <2>3. \A t \in Tickers : got'[t] = NoSnapshot
    BY <2>1 DEF Empty
  <2> QED
    BY <2>1, <2>2, <2>3 DEF ScanInv, Empty
<1>4. CASE Poll
  <2>1. hist'.kept = hist.kept /\ hist'.failed = hist.failed /\ UNCHANGED scanner
    BY <1>4, HistTyped DEF Poll, HistType
  <2> QED
    BY <2>1, ScanInvFrame
<1>5. CASE Tick
  <2>1. /\ scanning' = scanning /\ todo' = todo /\ heldRead' = heldRead
        /\ scanIn' = scanIn - 1 /\ scanIn \in (-ScanTakes)..ScanEvery
        /\ hist'.kept = hist.kept /\ hist'.failed = hist.failed
        /\ cache' = Aged(cache) /\ got' = Aged(got)
    BY <1>5, HistTyped DEF Tick, HistType, TypeOK
  <2>2. ASSUME NEW x \in Snapshots, NEW n \in Int, x # NoSnapshot, x.age <= n
        PROVE  Older(x.age, StaleAfter) <= n + 1
    <3>1. x.age \in 0..(StaleAfter + 1)
      BY <2>2, SnapshotFields
    <3> QED
      BY <2>2, <3>1, EntriesAssumption DEF Older
  <2>3. ASSUME NEW t \in Tickers
        PROVE  /\ cache[t] \in Snapshots /\ got[t] \in Snapshots
               /\ cache'[t].age = Older(cache[t].age, StaleAfter)
               /\ cache'[t] = NoSnapshot <=> cache[t] = NoSnapshot
               /\ got'[t].age = Older(got[t].age, StaleAfter)
               /\ got'[t] = NoSnapshot <=> got[t] = NoSnapshot
    <3>1. cache[t] \in Snapshots /\ got[t] \in Snapshots
      BY DEF TypeOK
    <3> QED
      BY <2>1, <3>1, AgedSnapshot DEF Aged
  <2>4. AgeBound \in Int /\ AgeBound' = AgeBound + 1 /\ -scanIn \in Int /\ -scanIn' = -scanIn + 1
    BY <2>1, EntriesAssumption DEF AgeBound
  <2>5. ASSUME NEW t \in hist'.kept
        PROVE  /\ t \in Tickers /\ cache'[t] # NoSnapshot
               /\ ~hist'.failed => cache'[t].age <= AgeBound'
    <3>1. /\ t \in Tickers /\ cache[t] # NoSnapshot
          /\ ~hist.failed => cache[t].age <= AgeBound
      BY <2>1, <2>5 DEF ScanInv
    <3> QED
      BY <2>1, <2>2, <2>3, <2>4, <3>1
  <2>6. \A t \in Tickers : got'[t] # NoSnapshot => got'[t].age <= -scanIn'
    BY <2>2, <2>3, <2>4 DEF ScanInv
  <2>7. ~scanning' => got' = Empty
    <3>1. ASSUME ~scanning PROVE got' = Empty
      <4>1. \A t \in Tickers : got'[t] = NoSnapshot
        BY <2>3, <3>1 DEF ScanInv, Empty
      <4> QED
        BY <2>1, <4>1 DEF Aged, Empty
    <3> QED
      BY <2>1, <3>1
  <2>8. scanning' => \A t \in heldRead' : t \in todo' \/ got'[t] # NoSnapshot
    <3>1. heldRead \subseteq Tickers
      BY DEF TypeOK
    <3> QED
      BY <2>1, <2>3, <3>1 DEF ScanInv
  <2>9. (scanning' => scanIn' <= 0) /\ (~scanning' => todo' = {} /\ heldRead' = {})
    BY <2>1 DEF ScanInv
  <2> QED
    BY <2>1, <2>5, <2>6, <2>7, <2>8, <2>9 DEF ScanInv
<1>6. CASE NextDay
  <2>1. /\ ~scanning /\ ~scanning' /\ got' = got /\ todo' = todo /\ heldRead' = heldRead
        /\ hist'.kept = {}
    BY <1>6, HistTyped DEF NextDay, HistType
  <2>2. \A t \in Tickers : got'[t] = NoSnapshot
    BY <2>1 DEF ScanInv, Empty
  <2> QED
    BY <2>1, <2>2 DEF ScanInv
<1>7. CASE Crash
  <2>1. ~scanning' /\ got' = Empty /\ todo' = {} /\ heldRead' = {} /\ hist'.kept = {}
    BY <1>7, HistTyped DEF Crash, HistType
  <2>2. \A t \in Tickers : got'[t] = NoSnapshot
    BY <2>1 DEF Empty
  <2> QED
    BY <2>1, <2>2 DEF ScanInv, Empty
<1>8. ASSUME NEW t \in Tickers, ScanTicker(t) PROVE ScanInv'
  <2>1. /\ t \in todo /\ todo' = todo \ {t}
        /\ UNCHANGED <<cache, scanIn, scanning, heldRead>>
        /\ hist'.kept = hist.kept /\ hist'.failed = hist.failed
    BY <1>8, HistTyped DEF ScanTicker, HistType
  <2>2. scanning /\ scanIn <= 0 /\ scanIn \in Int
    BY <2>1 DEF ScanInv, TypeOK
  <2>3. PICK found \in BOOLEAN : got' = [got EXCEPT ![t] = [setup |-> found, age |-> 0]]
    BY <1>8 DEF ScanTicker, Fetched
  <2>4. [setup |-> found, age |-> 0] # NoSnapshot
    BY SnapshotMade, EntriesAssumption
  <2>5. \A u \in Tickers :
          /\ u # t => got'[u] = got[u]
          /\ u = t => got'[u] # NoSnapshot /\ got'[u].age = 0
    BY <2>3, <2>4 DEF TypeOK
  <2>6. heldRead \subseteq Tickers
    BY DEF TypeOK
  <2>7. \A u \in Tickers : got'[u] # NoSnapshot => got'[u].age <= -scanIn'
    BY <2>1, <2>2, <2>5 DEF ScanInv
  <2>8. \A u \in heldRead' : u \in todo' \/ got'[u] # NoSnapshot
    BY <2>1, <2>2, <2>5, <2>6 DEF ScanInv
  <2>9. \A u \in hist'.kept :
          /\ u \in Tickers /\ cache'[u] # NoSnapshot
          /\ ~hist'.failed => cache'[u].age <= AgeBound'
    BY <2>1 DEF ScanInv, AgeBound
  <2> QED
    BY <2>1, <2>2, <2>7, <2>8, <2>9 DEF ScanInv
<1>9. ASSUME NEW t \in Tickers, ScanTickerRaises(t) PROVE ScanInv'
  <2>1. /\ t \in todo /\ todo' = todo \ {t} /\ heldRead' = heldRead \ {t}
        /\ UNCHANGED <<cache, scanIn, scanning, got, hist>>
    BY <1>9 DEF ScanTickerRaises
  <2>2. scanning
    BY <2>1 DEF ScanInv
  <2> QED
    BY <2>1, <2>2 DEF ScanInv, AgeBound
<1>10. ASSUME NEW t \in Tickers, PipelineEnters(t) PROVE ScanInv'
  <2>1. hist'.kept = hist.kept /\ hist'.failed = hist.failed /\ UNCHANGED scanner
    BY <1>10, HistTyped DEF PipelineEnters, HistType
  <2> QED
    BY <2>1, ScanInvFrame
<1>11. ASSUME NEW t \in Tickers, Sold(t) PROVE ScanInv'
  <2>1. hist'.kept \subseteq hist.kept /\ hist'.failed = hist.failed /\ UNCHANGED scanner
    BY <1>11, HistTyped DEF Sold, HistType
  <2> QED
    BY <2>1, ScanInvFrame
<1>12. ASSUME NEW t \in Tickers,
              \/ PipelineEnds(t) \/ Executed(t) \/ Approve(t) \/ WhalePrint(t) \/ OrderEnds(t)
       PROVE  ScanInv'
  BY <1>12, ScanInvFrame DEF PipelineEnds, Executed, Approve, WhalePrint, OrderEnds
<1>13. CASE UNCHANGED vars
  BY <1>13, ScanInvFrame DEF vars
<1> QED
  BY <1>1, <1>2, <1>3, <1>4, <1>5, <1>6, <1>7, <1>8, <1>9, <1>10, <1>11, <1>12, <1>13 DEF Next

LEMMA AgeInvFrame ==
  ASSUME AgeInv, cache' = cache, got' = got, hist'.structure = hist.structure
  PROVE  AgeInv'
BY DEF AgeInv

LEMMA AgeInvStep ==
  ASSUME TypeOK, ScanInv, AgeInv, [Next]_vars
  PROVE  AgeInv'
<1>0. Empty \in [Tickers -> Snapshots] /\ \A t \in Tickers : ~Empty[t].setup
  BY SnapshotMade DEF Empty, NoSnapshot
<1>1. CASE Discover
  BY <1>1, AgeInvFrame DEF Discover
<1>2. CASE DiscoverRaises
  <2>1. hist'.structure = hist.structure /\ cache' = cache /\ got' = got
    BY <1>2, HistTyped DEF DiscoverRaises, HistType
  <2> QED
    BY <2>1, AgeInvFrame
<1>3. CASE ScanEnds
  <2>1. /\ got' = Empty /\ hist'.structure = hist.structure
        /\ \A t \in Tickers : cache'[t] \in {got[t], cache[t]}
    BY <1>3, HistTyped DEF ScanEnds, HistType
  <2> QED
    BY <1>0, <2>1 DEF AgeInv
<1>4. CASE Poll
  <2>1. hist'.structure = hist.structure /\ cache' = cache /\ got' = got
    BY <1>4, HistTyped DEF Poll, HistType, scanner
  <2> QED
    BY <2>1, AgeInvFrame
<1>5. CASE Tick
  <2>1. /\ hist'.structure = [t \in Tickers |-> Older(hist.structure[t], StaleAfter)]
        /\ cache' = Aged(cache) /\ got' = Aged(got)
    BY <1>5, HistTyped DEF Tick, HistType
  <2>2. ASSUME NEW t \in Tickers, NEW x \in {cache[t], got[t]},
               NEW y, y = [x EXCEPT !.age = Older(@, StaleAfter)], y.setup
        PROVE  hist'.structure[t] \in 0..y.age
    <3>1. x \in Snapshots /\ hist.structure[t] \in Ages(StaleAfter)
      BY HistTyped DEF TypeOK
    <3>2. y.setup = x.setup /\ y.age = Older(x.age, StaleAfter)
      BY <2>2, <3>1, AgedSnapshot
    <3>3. hist.structure[t] \in 0..x.age
      BY <2>2, <3>2 DEF AgeInv
    <3>4. x.age \in 0..(StaleAfter + 1)
      BY <2>2, <3>1, <3>2, SnapshotFields
    <3>5. hist'.structure[t] = Older(hist.structure[t], StaleAfter)
      BY <2>1
    <3> QED
      BY <3>2, <3>3, <3>4, <3>5, EntriesAssumption DEF Older, NoTime
  <2>3. \A t \in Tickers :
          /\ cache'[t] = [cache[t] EXCEPT !.age = Older(@, StaleAfter)]
          /\ got'[t] = [got[t] EXCEPT !.age = Older(@, StaleAfter)]
    BY <2>1 DEF Aged
  <2> QED
    BY <2>2, <2>3 DEF AgeInv
<1>6. CASE NextDay
  <2>1. /\ ~scanning /\ got' = got
        /\ hist'.structure = [t \in Tickers |->
             IF hist.structure[t] = NoTime THEN NoTime ELSE StaleAfter + 1]
        /\ cache' = [t \in Tickers |->
             IF t \in Cached THEN [cache[t] EXCEPT !.age = StaleAfter + 1] ELSE NoSnapshot]
    BY <1>6, HistTyped DEF NextDay, HistType
  <2>2. got' = Empty
    BY <2>1 DEF ScanInv
  <2>3. ASSUME NEW t \in Tickers, cache'[t].setup
        PROVE  hist'.structure[t] \in 0..cache'[t].age
    <3>1. cache[t] \in Snapshots /\ cache[t] # NoSnapshot
      BY <2>1, <2>3 DEF TypeOK, Cached, NoSnapshot
    <3>2. /\ cache'[t].setup = cache[t].setup /\ cache'[t].age = StaleAfter + 1
      BY <2>1, <3>1, OldSnapshot DEF Cached
    <3>3. hist.structure[t] \in 0..cache[t].age
      BY <2>3, <3>2 DEF AgeInv
    <3>4. hist.structure[t] # NoTime
      BY <3>3 DEF NoTime
    <3>5. hist'.structure[t] = StaleAfter + 1
      BY <2>1, <3>4
    <3> QED
      BY <3>2, <3>5, EntriesAssumption
  <2> QED
    BY <1>0, <2>2, <2>3 DEF AgeInv
<1>7. CASE Crash
  BY <1>0, <1>7 DEF Crash, AgeInv
<1>8. ASSUME NEW t \in Tickers, ScanTicker(t) PROVE AgeInv'
  <2>1. PICK found \in BOOLEAN :
          /\ got' = [got EXCEPT ![t] = [setup |-> found, age |-> 0]]
          /\ hist' = IF found THEN [hist EXCEPT !.structure[t] = 0] ELSE hist
    BY <1>8 DEF ScanTicker, Fetched
  <2>2. cache' = cache
    BY <1>8 DEF ScanTicker
  <2>3. /\ \A u \in Tickers \ {t} : hist'.structure[u] = hist.structure[u]
        /\ hist'.structure[t] = IF found THEN 0 ELSE hist.structure[t]
    BY <2>1, HistTyped DEF HistType
  <2>4. \A u \in Tickers : got'[u] = IF u = t THEN [setup |-> found, age |-> 0] ELSE got[u]
    BY <2>1 DEF TypeOK
  <2>5. ASSUME NEW u \in Tickers, cache[u].setup PROVE hist'.structure[u] \in 0..cache[u].age
    <3>1. hist.structure[u] \in 0..cache[u].age /\ cache[u] \in Snapshots
      BY <2>5 DEF AgeInv, TypeOK
    <3>2. cache[u].age \in 0..(StaleAfter + 1)
      BY <2>5, <3>1, SnapshotFields
    <3> QED
      BY <2>3, <3>1, <3>2, EntriesAssumption
  <2>6. ASSUME NEW u \in Tickers, got'[u].setup PROVE hist'.structure[u] \in 0..got'[u].age
    BY <2>3, <2>4, <2>6 DEF AgeInv
  <2> QED
    BY <2>2, <2>5, <2>6 DEF AgeInv
<1>9. ASSUME NEW t \in Tickers, PipelineEnters(t) PROVE AgeInv'
  <2>1. hist'.structure = hist.structure /\ cache' = cache /\ got' = got
    BY <1>9, HistTyped DEF PipelineEnters, HistType, scanner
  <2> QED
    BY <2>1, AgeInvFrame
<1>10. ASSUME NEW t \in Tickers, Sold(t) PROVE AgeInv'
  <2>1. hist'.structure = hist.structure /\ cache' = cache /\ got' = got
    BY <1>10, HistTyped DEF Sold, HistType, scanner
  <2> QED
    BY <2>1, AgeInvFrame
<1>11. ASSUME NEW t \in Tickers,
              \/ ScanTickerRaises(t) \/ PipelineEnds(t) \/ Executed(t) \/ Approve(t)
              \/ WhalePrint(t) \/ OrderEnds(t)
       PROVE  AgeInv'
  BY <1>11, AgeInvFrame
     DEF ScanTickerRaises, PipelineEnds, Executed, Approve, WhalePrint, OrderEnds, scanner
<1>12. CASE UNCHANGED vars
  BY <1>12, AgeInvFrame DEF vars, scanner
<1> QED
  BY <1>1, <1>2, <1>3, <1>4, <1>5, <1>6, <1>7, <1>8, <1>9, <1>10, <1>11, <1>12 DEF Next

(* Only tickers whose attempt, proposal, orders, positions or sending      *)
(* change have something to show.                                          *)
EntrySame(t) ==
  /\ UNCHANGED <<attempted[t], proposal[t], orders[t], positions[t], t \in sending>>
  /\ t \in hist.outlived => t \in hist'.outlived

EntryOk(t) ==
  /\ proposal[t] \in 0..Cooldown => attempted[t] \in 0..proposal[t]
  /\ t \notin hist.outlived =>
       /\ Load(t) <= 1
       /\ Engaged(t) => /\ attempted[t] \in 0..Cooldown
                        /\ proposal[t] \notin 0..Cooldown

LEMMA EntryFrame ==
  ASSUME NEW t \in Tickers, EntryInv, EntrySame(t)
  PROVE  EntryOk(t)'
BY DEF EntryInv, EntrySame, EntryOk, Load, Engaged

LEMMA EntryTyped ==
  ASSUME TypeOK, NEW t \in Tickers
  PROVE  /\ orders[t] \in Nat /\ positions[t] \in Nat
         /\ attempted[t] \in Ages(Cooldown) /\ proposal[t] \in Ages(Cooldown)
         /\ Load(t) \in Nat /\ (Engaged(t) <=> Load(t) > 0)
<1>1. /\ orders[t] \in Nat /\ positions[t] \in Nat
      /\ attempted[t] \in Ages(Cooldown) /\ proposal[t] \in Ages(Cooldown)
  BY DEF TypeOK
<1> QED
  BY <1>1 DEF Load, Engaged

LEMMA EntryInvStep ==
  ASSUME TypeOK, EntryInv, [Next]_vars
  PROVE  EntryInv'
<1> SUFFICES ASSUME NEW t \in Tickers PROVE EntryOk(t)'
  BY DEF EntryInv, EntryOk, Load, Engaged
<1>0. EntryOk(t) /\ Cooldown \in Nat
  BY EntriesAssumption DEF EntryInv, EntryOk
<1>1. CASE Discover \/ DiscoverRaises
  <2>1. hist'.outlived = hist.outlived
    BY <1>1, HistTyped DEF Discover, DiscoverRaises, HistType
  <2> QED
    BY <1>1, <2>1, EntryFrame DEF Discover, DiscoverRaises, EntrySame, watcher, broker
<1>2. CASE ScanEnds
  BY <1>2, EntryFrame, HistTyped DEF ScanEnds, EntrySame, watcher, broker, HistType
<1>3. CASE Poll
  BY <1>3, EntryFrame, HistTyped DEF Poll, EntrySame, broker, HistType
<1>4. CASE Tick
  <2>1. /\ attempted'[t] = Older(attempted[t], Cooldown)
        /\ proposal'[t] = Older(proposal[t], Cooldown)
        /\ UNCHANGED <<orders, positions, sending>>
        /\ t \notin hist'.outlived =>
             t \notin hist.outlived /\ ~(attempted'[t] > Cooldown /\ Engaged(t))
    BY <1>4, HistTyped DEF Tick, broker, HistType
  <2>2. attempted[t] \in Ages(Cooldown) /\ proposal[t] \in Ages(Cooldown)
    BY EntryTyped
  <2>3. proposal'[t] \in 0..Cooldown => attempted'[t] \in 0..proposal'[t]
    BY <1>0, <2>1, <2>2 DEF EntryOk, Ages, Older, NoTime
  <2>4. Load(t)' = Load(t) /\ (Engaged(t)' <=> Engaged(t))
    BY <2>1 DEF Load, Engaged
  <2>5. ASSUME t \notin hist'.outlived, Engaged(t)
        PROVE  attempted'[t] \in 0..Cooldown /\ proposal'[t] \notin 0..Cooldown
    <3>1. /\ attempted[t] \in 0..Cooldown /\ proposal[t] \notin 0..Cooldown
          /\ ~(attempted'[t] > Cooldown)
      BY <1>0, <2>1, <2>5 DEF EntryOk
    <3> QED
      BY <1>0, <2>1, <2>2, <3>1 DEF Ages, Older, NoTime
  <2> QED
    BY <1>0, <2>1, <2>3, <2>4, <2>5 DEF EntryOk
<1>5. CASE NextDay
  <2>1. /\ proposal'[t] = (IF proposal[t] = NoTime THEN NoTime ELSE Cooldown + 1)
        /\ UNCHANGED <<orders, positions, sending>>
        /\ t \notin hist'.outlived => ~Engaged(t)
    BY <1>5, HistTyped DEF NextDay, broker, HistType
  <2>2. proposal'[t] \notin 0..Cooldown
    BY <1>0, <2>1 DEF NoTime
  <2>3. Load(t)' = Load(t) /\ (Engaged(t)' <=> Engaged(t))
    BY <2>1 DEF Load, Engaged
  <2>4. ~Engaged(t) => Load(t) <= 1
    BY EntryTyped
  <2> QED
    BY <2>1, <2>2, <2>3, <2>4 DEF EntryOk
<1>6. CASE Crash
  <2>1. /\ proposal'[t] = NoTime /\ sending' = {} /\ positions' = positions
        /\ t \notin hist'.outlived => ~Engaged(t)
    BY <1>6, HistTyped DEF Crash, HistType, Never
  <2>2. PICK reached \in SUBSET sending : orders'[t] = orders[t] + IF t \in reached THEN 1 ELSE 0
    BY <1>6 DEF Crash
  <2>3. ASSUME ~Engaged(t) PROVE Load(t)' <= 1 /\ ~Engaged(t)'
    <3>1. orders[t] = 0 /\ positions[t] = 0 /\ t \notin sending
      BY <2>3, EntryTyped DEF Engaged
    <3>2. orders'[t] = 0 /\ positions'[t] = 0 /\ t \notin sending'
      BY <2>1, <2>2, <3>1
    <3> QED
      BY <3>2 DEF Load, Engaged
  <2>4. proposal'[t] \notin 0..Cooldown
    BY <2>1 DEF NoTime
  <2> QED
    BY <2>1, <2>3, <2>4 DEF EntryOk
<1>7. ASSUME NEW u \in Tickers, ScanTicker(u) PROVE EntryOk(t)'
  <2>1. hist'.outlived = hist.outlived
    BY <1>7, HistTyped DEF ScanTicker, HistType
  <2> QED
    BY <1>7, <2>1, EntryFrame DEF ScanTicker, EntrySame, watcher, broker
<1>8. ASSUME NEW u \in Tickers, PipelineEnters(u) PROVE EntryOk(t)'
  <2>1. hist'.outlived = hist.outlived /\ UNCHANGED <<orders, positions>>
    BY <1>8, HistTyped DEF PipelineEnters, HistType, broker
  <2>2. CASE t # u
    <3>1. UNCHANGED <<attempted[t], proposal[t], t \in sending>>
      BY <1>8, <2>2 DEF PipelineEnters, TypeOK
    <3> QED
      BY <2>1, <3>1, EntryFrame DEF EntrySame
  <2>3. CASE t = u
    <3>1. attempted'[t] = 0 /\ ~RecentlyAttempted(t) /\ t \notin Held
      BY <1>8, <2>3 DEF PipelineEnters, TypeOK
    <3>2. attempted[t] \notin 0..Cooldown
      BY <1>0, <3>1 DEF RecentlyAttempted, NoTime
    <3>3. proposal[t] \notin 0..Cooldown
      BY <1>0, <3>2, EntryTyped DEF EntryOk, Ages
    <3>4. t \notin hist.outlived => ~Engaged(t) /\ Load(t) = 0
      BY <1>0, <3>2, EntryTyped DEF EntryOk
    <3>5. CASE mode = "autonomous"
      <4>1. proposal'[t] = proposal[t] /\ t \in sending'
        BY <1>8, <2>3, <3>5 DEF PipelineEnters
      <4>2. ~Engaged(t) => Load(t)' = 1
        BY <2>1, <4>1, EntryTyped DEF Engaged, Load
      <4> QED
        BY <1>0, <2>1, <3>1, <3>3, <3>4, <4>1, <4>2 DEF EntryOk
    <3>6. CASE mode # "autonomous"
      <4>1. proposal'[t] = 0 /\ sending' = sending
        BY <1>8, <2>3, <3>6 DEF PipelineEnters, TypeOK
      <4>2. Load(t)' = Load(t) /\ (Engaged(t)' <=> Engaged(t))
        BY <2>1, <4>1 DEF Engaged, Load
      <4> QED
        BY <1>0, <2>1, <3>1, <3>4, <4>1, <4>2 DEF EntryOk
    <3> QED
      BY <3>5, <3>6
  <2> QED
    BY <2>2, <2>3
<1>9. ASSUME NEW u \in Tickers, Executed(u) PROVE EntryOk(t)'
  <2>1. /\ u \in sending /\ sending' = sending \ {u} /\ UNCHANGED <<hist, positions, attempted, proposal>>
        /\ orders' = orders \/ orders' = [orders EXCEPT ![u] = @ + 1]
    BY <1>9 DEF Executed
  <2>2. CASE t # u
    <3>1. orders'[t] = orders[t] /\ (t \in sending' <=> t \in sending)
      BY <2>1, <2>2 DEF TypeOK
    <3> QED
      BY <2>1, <3>1, EntryFrame DEF EntrySame
  <2>3. CASE t = u
    <3>1. t \in sending /\ t \notin sending' /\ orders'[t] \in {orders[t], orders[t] + 1}
      BY <2>1, <2>3 DEF TypeOK
    <3>2. Engaged(t) /\ Load(t)' <= Load(t)
      BY <2>1, <3>1, EntryTyped DEF Engaged, Load
    <3>3. Load(t)' \in Nat
      BY <2>1, <3>1, EntryTyped DEF Load
    <3> QED
      BY <1>0, <2>1, <3>2, <3>3, EntryTyped DEF EntryOk
  <2> QED
    BY <2>2, <2>3
<1>10. ASSUME NEW u \in Tickers, Approve(u) PROVE EntryOk(t)'
  <2>1. /\ proposal[u] \in 0..Cooldown /\ proposal' = [proposal EXCEPT ![u] = NoTime]
        /\ sending' = sending \union {u} /\ UNCHANGED <<hist, orders, positions, attempted>>
    BY <1>10 DEF Approve, broker
  <2>2. CASE t # u
    <3>1. proposal'[t] = proposal[t] /\ (t \in sending' <=> t \in sending)
      BY <2>1, <2>2 DEF TypeOK
    <3> QED
      BY <2>1, <3>1, EntryFrame DEF EntrySame
  <2>3. CASE t = u
    <3>1. proposal'[t] \notin 0..Cooldown
      BY <2>1, <2>3 DEF TypeOK, NoTime
    <3>2. attempted[t] \in 0..Cooldown
      BY <1>0, <2>1, <2>3 DEF EntryOk
    <3>3. ~Engaged(t) => Load(t)' = 1
      BY <2>1, <2>3, EntryTyped DEF Engaged, Load
    <3>4. t \notin hist.outlived => ~Engaged(t)
      BY <1>0, <2>1, <2>3 DEF EntryOk
    <3> QED
      BY <2>1, <3>1, <3>2, <3>3, <3>4 DEF EntryOk
  <2> QED
    BY <2>2, <2>3
<1>11. ASSUME NEW u \in Tickers, OrderEnds(u) PROVE EntryOk(t)'
  <2>1. PICK bought \in {0, 1} : positions' = [positions EXCEPT ![u] = @ + bought]
    BY <1>11 DEF OrderEnds
  <2>2. /\ orders[u] > 0 /\ orders' = [orders EXCEPT ![u] = @ - 1]
        /\ UNCHANGED <<hist, attempted, proposal, sending>>
    BY <1>11 DEF OrderEnds, watcher
  <2>3. CASE t # u
    <3>1. orders'[t] = orders[t] /\ positions'[t] = positions[t]
      BY <2>1, <2>2, <2>3 DEF TypeOK
    <3> QED
      BY <2>2, <3>1, EntryFrame DEF EntrySame
  <2>4. CASE t = u
    <3>1. orders'[t] = orders[t] - 1 /\ positions'[t] = positions[t] + bought
      BY <2>1, <2>2, <2>4 DEF TypeOK
    <3>2. Engaged(t) /\ Load(t)' <= Load(t) /\ Load(t)' \in Nat
      BY <2>2, <2>4, <3>1, EntryTyped DEF Engaged, Load
    <3> QED
      BY <1>0, <2>2, <3>2, EntryTyped DEF EntryOk
  <2> QED
    BY <2>3, <2>4
<1>12. ASSUME NEW u \in Tickers, Sold(u) PROVE EntryOk(t)'
  <2>1. /\ positions[u] > 0 /\ positions' = [positions EXCEPT ![u] = @ - 1]
        /\ UNCHANGED <<orders, attempted, proposal, sending>> /\ hist'.outlived = hist.outlived
    BY <1>12, HistTyped DEF Sold, watcher, HistType
  <2>2. CASE t # u
    <3>1. positions'[t] = positions[t]
      BY <2>1, <2>2 DEF TypeOK
    <3> QED
      BY <2>1, <3>1, EntryFrame DEF EntrySame
  <2>3. CASE t = u
    <3>1. positions'[t] = positions[t] - 1
      BY <2>1, <2>3 DEF TypeOK
    <3>2. Engaged(t) /\ Load(t)' <= Load(t) /\ Load(t)' \in Nat
      BY <2>1, <2>3, <3>1, EntryTyped DEF Engaged, Load
    <3> QED
      BY <1>0, <2>1, <3>2, EntryTyped DEF EntryOk
  <2> QED
    BY <2>2, <2>3
<1>13. ASSUME NEW u \in Tickers, ScanTickerRaises(u) \/ PipelineEnds(u) \/ WhalePrint(u)
       PROVE  EntryOk(t)'
  BY <1>13, EntryFrame
     DEF ScanTickerRaises, PipelineEnds, WhalePrint, EntrySame, watcher, broker
<1>14. CASE UNCHANGED vars
  BY <1>14, EntryFrame DEF vars, EntrySame, watcher, broker
<1> QED
  BY <1>1, <1>2, <1>3, <1>4, <1>5, <1>6, <1>7, <1>8, <1>9, <1>10, <1>11, <1>12, <1>13,
     <1>14 DEF Next

LEMMA SeenInvFrame ==
  ASSUME SeenInv, prints' = prints, seen' = seen,
         hist'.acted = hist.acted, hist'.again = hist.again
  PROVE  SeenInv'
BY DEF SeenInv, Ordered, Answerable, Contains

LEMMA SeenInvStep ==
  ASSUME TypeOK, SeenInv, [Next]_vars
  PROVE  SeenInv'
<1>1. CASE Discover \/ DiscoverRaises
  <2>1. hist'.acted = hist.acted /\ hist'.again = hist.again
    BY <1>1, HistTyped DEF Discover, DiscoverRaises, HistType
  <2> QED
    BY <1>1, <2>1, SeenInvFrame DEF Discover, DiscoverRaises, watcher
<1>2. CASE ScanEnds
  <2>1. hist'.acted = hist.acted /\ hist'.again = hist.again
    BY <1>2, HistTyped DEF ScanEnds, HistType
  <2> QED
    BY <1>2, <2>1, SeenInvFrame DEF ScanEnds, watcher
<1>3. CASE Poll
  <2>1. /\ prints' = prints /\ seen' = SeenAfter(NewAlerts)
        /\ hist'.acted = hist.acted \union NewAlerts
        /\ hist'.again = (hist.again \/ NewAlerts \intersect hist.acted # {})
    BY <1>3, HistTyped DEF Poll, HistType
  <2>2. \A i \in NewAlerts : i \in 1..Len(prints) /\ Answerable(i) /\ ~Contains(seen, i)
    BY LatestAnswerable
  <2>3. ~hist'.again
    BY <2>1, <2>2 DEF SeenInv
  <2>4. /\ Ordered(seen') /\ \A p \in 1..Len(seen') : seen'[p] \in 1..Len(prints)
        /\ \A i \in 1..Len(prints) :
             Answerable(i) /\ (Contains(seen, i) \/ i \in NewAlerts) => Contains(seen', i)
    BY <2>1, SeenAfterFacts
  <2>5. hist'.acted \subseteq 1..Len(prints)
    BY <2>1, <2>2 DEF SeenInv
  <2>6. ASSUME NEW i \in hist'.acted, Answerable(i) PROVE Contains(seen', i)
    BY <2>1, <2>4, <2>5, <2>6 DEF SeenInv
  <2>7. \A i : Answerable(i)' <=> Answerable(i)
    BY <2>1 DEF Answerable
  <2> HIDE DEF Ordered
  <2> QED
    BY <2>1, <2>3, <2>4, <2>5, <2>6, <2>7 DEF SeenInv
<1>4. CASE Tick \/ NextDay
  <2>1. hist'.acted = hist.acted /\ hist'.again = hist.again
    BY <1>4, HistTyped DEF Tick, NextDay, HistType
  <2> QED
    BY <1>4, <2>1, SeenInvFrame DEF Tick, NextDay
<1>5. CASE Crash
  <2>1. hist'.acted = {} /\ hist'.again = hist.again /\ seen' = <<>>
    BY <1>5, HistTyped DEF Crash, HistType
  <2> QED
    BY <2>1 DEF SeenInv, Ordered
<1>6. ASSUME NEW t \in Tickers, WhalePrint(t) PROVE SeenInv'
  <2>1. /\ Len(prints) \in Nat /\ Len(prints') = Len(prints) + 1
    BY <1>6, LenProperties, AppendProperties DEF WhalePrint, TypeOK
  <2>2. seen' = seen /\ hist' = hist
    BY <1>6 DEF WhalePrint, watcher
  <2>3. \A i \in 1..Len(prints) : i \in 1..Len(prints') /\ (Answerable(i)' => Answerable(i))
    BY <2>1, EntriesAssumption DEF Answerable
  <2> QED
    BY <2>2, <2>3 DEF SeenInv, Ordered, Contains
<1>7. ASSUME NEW t \in Tickers, ScanTicker(t) \/ PipelineEnters(t) \/ Sold(t) PROVE SeenInv'
  <2>1. hist'.acted = hist.acted /\ hist'.again = hist.again
    BY <1>7, HistTyped DEF ScanTicker, PipelineEnters, Sold, HistType
  <2> QED
    BY <1>7, <2>1, SeenInvFrame DEF ScanTicker, PipelineEnters, Sold, watcher
<1>8. ASSUME NEW t \in Tickers,
             \/ ScanTickerRaises(t) \/ PipelineEnds(t) \/ Executed(t) \/ Approve(t)
             \/ OrderEnds(t)
      PROVE  SeenInv'
  BY <1>8, SeenInvFrame
     DEF ScanTickerRaises, PipelineEnds, Executed, Approve, OrderEnds, watcher
<1>9. CASE UNCHANGED vars
  BY <1>9, SeenInvFrame DEF vars, watcher
<1> QED
  BY <1>1, <1>2, <1>3, <1>4, <1>5, <1>6, <1>7, <1>8, <1>9 DEF Next

LEMMA SeenIsOnDiskStep ==
  ASSUME SeenIsOnDisk, [Next]_vars
  PROVE  SeenIsOnDisk'
<1>1. CASE Poll
  <2>1. \A i \in SeenToday : <<day, i>> \in logged
    BY DEF SeenToday, SeenIsOnDisk
  <2>2. CASE Record
    BY <2>1, <2>2 DEF Record, SeenIsOnDisk
  <2>3. CASE RecordFails
    BY <2>1, <2>3 DEF RecordFails, SeenIsOnDisk
  <2> QED
    BY <1>1, <2>2, <2>3 DEF Poll
<1>2. CASE Crash
  BY <1>2 DEF Crash, SeenIsOnDisk
<1>3. CASE \/ Discover \/ DiscoverRaises \/ ScanEnds \/ Tick \/ NextDay \/ UNCHANGED vars
  BY <1>3 DEF Discover, DiscoverRaises, ScanEnds, Tick, NextDay, vars, capture, SeenIsOnDisk
<1>4. ASSUME NEW t \in Tickers,
             \/ ScanTicker(t) \/ ScanTickerRaises(t) \/ PipelineEnters(t) \/ PipelineEnds(t)
             \/ Executed(t) \/ Approve(t) \/ WhalePrint(t) \/ OrderEnds(t) \/ Sold(t)
      PROVE  SeenIsOnDisk'
  BY <1>4 DEF ScanTicker, ScanTickerRaises, PipelineEnters, PipelineEnds, Executed, Approve,
              WhalePrint, OrderEnds, Sold, capture, SeenIsOnDisk
<1> QED
  BY <1>1, <1>2, <1>3, <1>4 DEF Next

LEMMA StructureStep ==
  ASSUME TypeOK, AgeInv, ActsOnSeenStructure, [Next]_vars
  PROVE  ActsOnSeenStructure'
<1>1. ASSUME NEW t \in Tickers, PipelineEnters(t) PROVE ActsOnSeenStructure'
  <2>1. cache[t] \in Snapshots /\ cache[t].setup /\ ~(cache[t].age > StaleAfter)
    BY <1>1 DEF PipelineEnters, Usable, IsStale, TypeOK
  <2>2. hist.structure[t] \in 0..cache[t].age
    BY <2>1 DEF AgeInv
  <2>3. cache[t].age \in 0..(StaleAfter + 1)
    BY <2>1, SnapshotFields
  <2>4. hist.structure[t] \in 0..StaleAfter
    BY <2>1, <2>2, <2>3, EntriesAssumption
  <2> QED
    BY <1>1, <2>4, HistTyped DEF PipelineEnters, ActsOnSeenStructure, HistType
<1>2. CASE Discover \/ DiscoverRaises \/ ScanEnds \/ Poll \/ Tick \/ NextDay \/ Crash
  <2>1. hist'.blind = hist.blind
    BY <1>2, HistTyped
       DEF Discover, DiscoverRaises, ScanEnds, Poll, Tick, NextDay, Crash, HistType
  <2> QED
    BY <2>1 DEF ActsOnSeenStructure
<1>3. ASSUME NEW t \in Tickers,
             \/ ScanTicker(t) \/ ScanTickerRaises(t) \/ PipelineEnds(t) \/ Executed(t)
             \/ Approve(t) \/ WhalePrint(t) \/ OrderEnds(t) \/ Sold(t)
      PROVE  ActsOnSeenStructure'
  <2>1. hist'.blind = hist.blind
    BY <1>3, HistTyped DEF ScanTicker, ScanTickerRaises, PipelineEnds, Executed, Approve,
                           WhalePrint, OrderEnds, Sold, HistType
  <2> QED
    BY <2>1 DEF ActsOnSeenStructure
<1>4. CASE UNCHANGED vars
  BY <1>4 DEF vars, ActsOnSeenStructure
<1> QED
  BY <1>1, <1>2, <1>3, <1>4 DEF Next

-----------------------------------------------------------------------------
LEMMA InvInit == Init => IInv
<1> SUFFICES ASSUME Init PROVE IInv
  OBVIOUS
<1>1. TypeOK
  BY TypeInit
<1>2. \A t \in Tickers : cache[t] = NoSnapshot /\ got[t] = NoSnapshot
  BY DEF Init, Empty
<1>3. ~NoSnapshot.setup
  BY DEF NoSnapshot
<1>4. ScanInv /\ AgeInv
  BY <1>2, <1>3 DEF Init, ScanInv, AgeInv
<1>5. EntryInv
  BY DEF Init, EntryInv, Load, Engaged, Never, NoTime
<1>6. SeenInv
  BY DEF Init, SeenInv, Ordered
<1>7. SeenIsOnDisk /\ ActsOnSeenStructure
  BY DEF Init, SeenIsOnDisk, ActsOnSeenStructure
<1> QED
  BY <1>1, <1>4, <1>5, <1>6, <1>7 DEF IInv

LEMMA InvStep == IInv /\ [Next]_vars => IInv'
BY TypeStep, ScanInvStep, AgeInvStep, EntryInvStep, SeenInvStep, SeenIsOnDiskStep,
   StructureStep DEF IInv

LEMMA Inductive == Spec => []IInv
BY InvInit, InvStep, PTL DEF Spec

(* Every variable of the scanner, the watcher and the capture keeps its    *)
(* type: no seen list outgrows MaxSeen and no age runs past what a         *)
(* comparison can tell apart.                                              *)
THEOREM TypeCorrect == Spec => []TypeOK
<1>1. IInv => TypeOK
  BY DEF IInv
<1> QED
  BY <1>1, Inductive, PTL

(* The cooldown of an attempt, kept in memory only, is enough: a ticker is *)
(* not entered again while an order works or a position is open, unless    *)
(* the order outlived the cooldown or the process was restarted            *)
(* (watcher.py:280-292), for any cooldown and any number of tickers.       *)
THEOREM EntriesAreSingle == Spec => []SingleEntry
<1>1. IInv => SingleEntry
  BY DEF IInv, EntryInv, Load, SingleEntry
<1> QED
  BY <1>1, Inductive, PTL

(* No attempt acts on a structure older than StaleAfter, whichever fetches *)
(* failed since (scanner.py:303, watcher.py:237-244).                      *)
THEOREM StructureIsFresh == Spec => []ActsOnSeenStructure
<1>1. IInv => ActsOnSeenStructure
  BY DEF IInv
<1> QED
  BY <1>1, Inductive, PTL

(* A print starts one pipeline in the life of a process although the keys  *)
(* are trimmed, as long as Keep is at least 2 * Window - 1: what is        *)
(* answered now was at most Window - 1 prints away from the oldest key     *)
(* that matters, on either side (watcher.py:203-216).                      *)
THEOREM PrintsActOnce == Spec => []ActedOnce
<1>1. IInv => ActedOnce
  BY DEF IInv, SeenInv, ActedOnce
<1> QED
  BY <1>1, Inductive, PTL

(* A ticker held at the last scan, and since, has a snapshot, which no     *)
(* interval of the scans makes stale as long as none fails: the interval   *)
(* and the time of two scans are no more than StaleAfter.  With failures,  *)
(* it still has one (scanner.py:106-149, cache.py:38-41).                  *)
THEOREM HeldStaysFresh == Spec => []HeldIsFresh
<1>1. IInv => HeldIsFresh
  <2>1. ASSUME IInv, NEW t \in hist.kept PROVE t \in Cached /\ (IsStale(t) => hist.failed)
    <3>1. /\ t \in Tickers /\ cache[t] # NoSnapshot
          /\ ~hist.failed => cache[t].age <= ScanEvery + ScanTakes - scanIn
      BY <2>1 DEF IInv, ScanInv, AgeBound
    <3>2. cache[t] \in Snapshots /\ scanIn \in (-ScanTakes)..ScanEvery
      BY <2>1, <3>1 DEF IInv, TypeOK
    <3>3. cache[t].age \in 0..(StaleAfter + 1)
      BY <3>1, <3>2, SnapshotFields
    <3>4. ~hist.failed => ~(cache[t].age > StaleAfter)
      BY <3>1, <3>2, <3>3, EntriesAssumption
    <3> QED
      BY <3>1, <3>4 DEF Cached, IsStale
  <2> QED
    BY <2>1 DEF HeldIsFresh
<1> QED
  BY <1>1, Inductive, PTL

(* What the capture counts as written is in the file of its day, whatever  *)
(* writes failed and days passed (flow_capture.py:50).                     *)
THEOREM CaptureIsOnDisk == Spec => []SeenIsOnDisk
<1>1. IInv => SeenIsOnDisk
  BY DEF IInv
<1> QED
  BY <1>1, Inductive, PTL
=============================================================================
