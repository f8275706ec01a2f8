----------------------------- MODULE MCEntries -----------------------------
(* Entries on a small instance.                                            *)
EXTENDS Entries, TLC

Symmetry == Permutations(Tickers)

(* A bound: two prints for as long as a cooldown, and the change of the    *)
(* day soon after the start; only with one print and within a day the      *)
(* clock goes on until a snapshot is stale.                                *)
Explored ==
  \/ time <= 1
  \/ time <= 2 /\ (Len(prints) <= 1 \/ day = 1)
  \/ Len(prints) <= 1 /\ day = 1
=============================================================================
