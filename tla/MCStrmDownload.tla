--------------------------- MODULE MCStrmDownload ---------------------------
(* Instances of StrmDownloadQueue for TLC. *)
EXTENDS StrmDownloadQueue, TLC

CONSTANTS t1, t2, w1, w2, u1

\* One row, or two rows inserted one after the other.
SingleRow == [t \in {t1} |-> 0]
TwoBatches == t1 :> 0 @@ t2 :> 1

WorkerSymmetry == Permutations(Workers)
=============================================================================
