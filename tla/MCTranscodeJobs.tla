-------------------------- MODULE MCTranscodeJobs --------------------------
(* TLC instances of TranscodeJobs. *)
EXTENDS TranscodeJobs, TLC

CONSTANTS m1, m2
=============================================================================
