-------------------------- MODULE MCDownloadToFile --------------------------
(* Instances of DownloadToFile for TLC. *)
EXTENDS DownloadToFile, TLC

CONSTANTS w1, w2, w3, i1, i2, i3, i4

FileSymmetry == Permutations(Inodes) \union Permutations(Writers)
=============================================================================
