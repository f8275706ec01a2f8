---------------------------- MODULE MCRiskEngine ----------------------------
(* Instances of RiskEngine for TLC.  A .cfg file cannot write a negative   *)
(* number, so the amounts are defined here.                                *)
EXTENDS RiskEngine

LossesAndGains == {-2, -1, 1}
=============================================================================
