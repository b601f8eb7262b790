---------------------------- MODULE SyncPromise ----------------------------
(***************************************************************************)
(* What StartSync promises of the synchronisation paths: a path has at     *)
(* most one run at a time, a run opens and closes its history record only  *)
(* while it holds the path, and a closed record is never opened again.     *)
(***************************************************************************)
CONSTANTS Paths, Runs, Nobody

VARIABLES
  holder,   \* path -> the run that holds it, or Nobody
  log       \* run -> its record: "none", "open", an outcome, or "deleted"

Outcomes == {"done", "failed", "canceled"}

Init ==
  /\ holder = [p \in Paths |-> Nobody]
  /\ log = [r \in Runs |-> "none"]

Take(p, r) ==
  /\ holder[p] = Nobody
  /\ log[r] = "none"
  /\ \A q \in Paths : holder[q] # r
  /\ holder' = [holder EXCEPT ![p] = r]
  /\ UNCHANGED log

\* Runs end one by one; a crash ends all of them.
Release(S) ==
  /\ holder' = [p \in Paths |-> IF p \in S THEN Nobody ELSE holder[p]]
  /\ UNCHANGED log

Open(p) ==
  /\ holder[p] # Nobody
  /\ log[holder[p]] = "none"
  /\ log' = [log EXCEPT ![holder[p]] = "open"]
  /\ UNCHANGED holder

Close(p, outcome) ==
  /\ holder[p] # Nobody
  /\ log[holder[p]] = "open"
  /\ log' = [log EXCEPT ![holder[p]] = outcome]
  /\ UNCHANGED holder

\* The user deletes records, of live runs too.
Erase(S) ==
  /\ \A r \in S : log[r] # "none"
  /\ log' = [r \in Runs |-> IF r \in S THEN "deleted" ELSE log[r]]
  /\ UNCHANGED holder

Next ==
  \/ \E p \in Paths, r \in Runs : Take(p, r)
  \/ \E S \in SUBSET Paths : Release(S)
  \/ \E p \in Paths : Open(p) \/ \E outcome \in Outcomes : Close(p, outcome)
  \/ \E S \in SUBSET Runs : Erase(S)

Spec == Init /\ [][Next]_<<holder, log>>
=============================================================================
