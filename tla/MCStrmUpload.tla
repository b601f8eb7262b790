---------------------------- MODULE MCStrmUpload ----------------------------
(* Instances of StrmUploadQueue for TLC. *)
EXTENDS StrmUploadQueue, TLC

CONSTANTS t1, t2, w1, w2, u1

SingleRow == [t \in {t1} |-> 0]
=============================================================================
