----------------------------- MODULE MCExitLoop -----------------------------
(* Instances of ExitLoop for TLC; the .cfg files give the constants.       *)
EXTENDS ExitLoop
=============================================================================
