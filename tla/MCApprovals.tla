---------------------------- MODULE MCApprovals ----------------------------
(* Instances of Approvals for TLC; the .cfg files give the constants.      *)
EXTENDS Approvals
=============================================================================
