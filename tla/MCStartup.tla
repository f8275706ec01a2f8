----------------------------- MODULE MCStartup -----------------------------
(* Instances of Startup for TLC; the .cfg files give the constants.        *)
EXTENDS Startup
=============================================================================
