---------------------------- MODULE MCAccount115 ----------------------------
(* TLC instances of Account115. *)
EXTENDS Account115, TLC

CONSTANTS job, test
=============================================================================
