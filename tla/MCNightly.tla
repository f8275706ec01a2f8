----------------------------- MODULE MCNightly ------------------------------
(* Nightly on a small instance: one ticker, and a day that is over when    *)
(* the process starts.                                                     *)
EXTENDS Nightly

(* Of the tide of a day that is over nobody reads more than whether its    *)
(* file is there, and of a ticker's covered days no more than whether      *)
(* there are MinCoverage of them (each was checked against its report when *)
(* the manifest first counted it): the states that differ in nothing else  *)
(* behave alike.                                                           *)
Seen ==
  LET tideRead(d) == IF d < day /\ tide[d] # "absent" THEN "full" ELSE tide[d]
      covered(t) == Cardinality({d \in Days : <<d, t>> \in coverage})
  IN  <<day, clock, missed, added, [d \in Days |-> tideRead(d)], gex, quote,
        {t \in Names : Cell(t) \in coverage},
        [t \in Names |-> Min({covered(t), MinCoverage})],
        loop, loopTodo, saver, saverTodo, saverSet, faults, replayVars>>

(* A bound: behaviours in which no script adds a day, or with one price.   *)
Explored == added[1] = 0 \/ \A c \in Cells : quote[c] # 2
=============================================================================
