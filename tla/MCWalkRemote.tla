---------------------------- MODULE MCWalkRemote ----------------------------
(* Instances of WalkRemote for TLC. *)
EXTENDS WalkRemote, TLC

CONSTANTS r, a, b, c

\* The root has two subdirectories, one of which has one: a worker can run dry while
\* another is still finding directories.
Tree == r :> {a, b} @@ a :> {c} @@ b :> {} @@ c :> {}
=============================================================================
