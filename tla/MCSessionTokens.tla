-------------------------- MODULE MCSessionTokens --------------------------
(* TLC instances of SessionTokens. *)
EXTENDS SessionTokens, TLC

ClientSymmetry == Permutations(Clients)
=============================================================================
