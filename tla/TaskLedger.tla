----------------------------- MODULE TaskLedger -----------------------------
(***************************************************************************)
(* What a persistent task queue promises to the rest of the server, with   *)
(* the workers, retries, restarts and stale writes left out.  A task is    *)
(* inserted once and never comes back after it was removed; it is reported *)
(* done only after its result was produced; a closed task changes to       *)
(* another outcome only by being reopened, or cancelled.                   *)
(*                                                                         *)
(* Cancelling a task that has just closed, and reopening one that was just *)
(* cancelled, are allowed: the status checks of the queue's requests are   *)
(* not atomic with their writes.                                           *)
(***************************************************************************)
CONSTANT Tasks

VARIABLES
  state,        \* task -> what the queue reports of it
  produced      \* tasks whose result exists

vars == <<state, produced>>

Closed == {"done", "failed", "canceled"}
States == {"unborn", "open", "deleted"} \union Closed

In(s) == {t \in Tasks : state[t] \in s}
Move(S, st) == state' = [t \in Tasks |-> IF t \in S THEN st ELSE state[t]]

Submit(S) == S \subseteq In({"unborn"}) /\ Move(S, "open") /\ UNCHANGED produced

Produce(t) == t \notin In({"unborn"}) /\ produced' = produced \union {t} /\ UNCHANGED state

CloseDone(t) == t \in In({"open"}) \intersect produced /\ Move({t}, "done") /\ UNCHANGED produced

CloseFailed(t) == t \in In({"open"}) /\ Move({t}, "failed") /\ UNCHANGED produced

Cancel(S) == S \subseteq In({"open"} \union Closed) /\ Move(S, "canceled") /\ UNCHANGED produced

Reopen(S) == S \subseteq In(Closed) /\ Move(S, "open") /\ UNCHANGED produced

Remove(S) == S \subseteq In({"open"} \union Closed) /\ Move(S, "deleted") /\ UNCHANGED produced

Init == state = [t \in Tasks |-> "unborn"] /\ produced = {}

Next ==
  \/ \E S \in SUBSET Tasks : Submit(S) \/ Cancel(S) \/ Reopen(S) \/ Remove(S)
  \/ \E t \in Tasks : Produce(t) \/ CloseDone(t) \/ CloseFailed(t)

Spec == Init /\ [][Next]_vars
=============================================================================
