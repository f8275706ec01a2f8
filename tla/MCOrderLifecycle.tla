-------------------------- MODULE MCOrderLifecycle --------------------------
(* Instances of OrderLifecycle for TLC; the .cfg files give the constants. *)
EXTENDS OrderLifecycle
=============================================================================
