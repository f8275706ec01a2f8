------------------------------ MODULE MCTokens ------------------------------
(* Instances of Tokens for TLC; the .cfg files give the constants.         *)
EXTENDS Tokens
=============================================================================
