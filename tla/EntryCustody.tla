---------------------------- MODULE EntryCustody ----------------------------
(***************************************************************************)
(* What the order lifecycle promises about an approved entry, without      *)
(* orders, cancels, reprices, polls or clocks.                             *)
(*                                                                         *)
(* An entry buys at most Quantity contracts, once.  While it is "working"  *)
(* contracts may fill.  It is settled exactly once: "open" hands every     *)
(* contract that was bought to the position store, "ended" is possible     *)
(* only when nothing was bought, and neither is ever left again -- in      *)
(* particular no contract is bought for an entry that has been settled.    *)
(* "lost" is the one escape: the agent no longer follows the entry, which  *)
(* may still buy (the whole Quantity, never more) with nobody watching.    *)
(***************************************************************************)
EXTENDS Naturals, FiniteSets

CONSTANTS Entries,   \* approved candidates, each entitled to one position
          Quantity,  \* contracts an entry was approved for
          Fills      \* names of single-contract executions

VARIABLES phase,     \* how far each entry has come
          bought,    \* the executions of each entry
          held       \* contracts the position store holds for each entry

custodyVars == <<phase, bought, held>>

Phase == {"idle", "working", "open", "ended", "lost"}

CustodyInit ==
  /\ phase = [e \in Entries |-> "idle"]
  /\ bought = [e \in Entries |-> {}]
  /\ held = [e \in Entries |-> 0]

Submit(e) ==
  /\ phase[e] = "idle"
  /\ phase' = [phase EXCEPT ![e] = "working"]
  /\ UNCHANGED <<bought, held>>

Buy(e) ==
  /\ phase[e] \in {"working", "lost"}
  /\ \E f \in Fills \ bought[e] :
       /\ Cardinality(bought[e]) < Quantity
       /\ bought' = [bought EXCEPT ![e] = @ \union {f}]
  /\ UNCHANGED <<phase, held>>

Settle(e) ==
  /\ phase[e] = "working"
  /\ bought[e] # {}
  /\ phase' = [phase EXCEPT ![e] = "open"]
  /\ held' = [held EXCEPT ![e] = Cardinality(bought[e])]
  /\ UNCHANGED bought

End(e) ==
  /\ phase[e] = "working"
  /\ bought[e] = {}
  /\ phase' = [phase EXCEPT ![e] = "ended"]
  /\ UNCHANGED <<bought, held>>

Lose(e) ==
  /\ phase[e] \in {"idle", "working"}
  /\ phase' = [phase EXCEPT ![e] = "lost"]
  /\ UNCHANGED <<bought, held>>

CustodyNext ==
  \E e \in Entries : Submit(e) \/ Buy(e) \/ Settle(e) \/ End(e) \/ Lose(e)

CustodySpec == CustodyInit /\ [][CustodyNext]_custodyVars
=============================================================================
