----------------------------- MODULE WalkRemote -----------------------------
(***************************************************************************)
(* The parallel walk of a remote directory tree (walkRemote in             *)
(* internal/service/strm_sync.go).  Workers share a list of directories to *)
(* visit, a count of unfinished directories and a condition variable; the  *)
(* first failed listing, a panic or the user cancels the walk.  A walk     *)
(* that reports success lets pruneLocal remove every local file it did not *)
(* see, so success has to mean that the whole tree was listed.             *)
(*                                                                         *)
(* Every section under walkMu is one action.  The list of directories is   *)
(* modelled as a set: each directory of a tree is pushed once, and nothing *)
(* depends on the order in which they are taken.                           *)
(***************************************************************************)
EXTENDS Integers, FiniteSets

CONSTANTS
  Dirs,         \* directories of the remote tree
  Root,         \* the directory the walk starts from
  Children,     \* directory -> its subdirectories
  Workers       \* strmScanWorkers goroutines; 8 in the code

NoDir == "no directory"   \* no directory taken

\* A finite tree: no directory has two parents, the root has none, and a set that
\* holds the root and is closed under Children is everything.
ASSUME TreeAssumption ==
  /\ IsFiniteSet(Dirs)
  /\ NoDir \notin Dirs
  /\ Root \in Dirs
  /\ Children \in [Dirs -> SUBSET Dirs]
  /\ \A d \in Dirs : Root \notin Children[d]
  /\ \A d, e \in Dirs : d # e => Children[d] \intersect Children[e] = {}
  /\ \A S \in SUBSET Dirs : Root \in S /\ (\A d \in S : Children[d] \subseteq S) => S = Dirs

ASSUME WorkersAssumption == Workers # {}

VARIABLES
  work,         \* directories pushed and not yet taken
  pending,      \* directories pushed and not yet finished, as counted by the code
  asleep,       \* workers in walkCond.Wait
  pc,           \* worker -> where it is
  cur,          \* worker -> the directory it has taken
  todo,         \* worker -> subdirectories it has listed and not yet pushed
  cancelled,    \* the context of the walk is done
  alarmed,      \* the goroutine that waits for the context has broadcast
  firstErr,     \* a listing error was recorded
  finished,     \* directories listed and processed completely
  result        \* what walkRemote returned

vars == <<work, pending, asleep, pc, cur, todo, cancelled, alarmed, firstErr,
          finished, result>>

\*   loop      about to enter the critical section at the head of the loop
\*   wait      in walkCond.Wait, or just woken
\*   taken     has a directory, the context not looked at yet
\*   listing   in provider.List
\*   pushing   working through the entries
\*   failing   the listing failed and the error is recorded
\*   cancel    about to cancel the walk and leave
\*   exited    left
PCs == {"loop", "wait", "taken", "listing", "pushing", "failing", "cancel", "exited"}

Goto(w, l) == pc' = [pc EXCEPT ![w] = l]
Broadcast == asleep' = {}
Signal == \/ asleep = {} /\ UNCHANGED asleep
          \/ \E v \in asleep : asleep' = asleep \ {v}

Drop(w) == cur' = [cur EXCEPT ![w] = NoDir] /\ todo' = [todo EXCEPT ![w] = {}]

-----------------------------------------------------------------------------
\* Mutant: the directory stays in the list.
Take_Keeps(w, d) ==
  /\ pc[w] = "loop"
  /\ d \in work
  /\ cur' = [cur EXCEPT ![w] = d]
  /\ Goto(w, "taken")
  /\ UNCHANGED <<work, pending, asleep, todo, cancelled, alarmed, firstErr, finished, result>>

\* The critical section at the head of the loop: take a directory, ...
Take(w, d) ==
  /\ pc[w] = "loop"
  /\ d \in work
  /\ work' = work \ {d}
  /\ cur' = [cur EXCEPT ![w] = d]
  /\ Goto(w, "taken")
  /\ UNCHANGED <<pending, asleep, todo, cancelled, alarmed, firstErr, finished, result>>

\* ... leave, since nothing is or will be left, or the walk is cancelled, ...
Leave(w) ==
  /\ pc[w] = "loop"
  /\ work = {}
  /\ cancelled \/ pending = 0
  /\ Goto(w, "exited")
  /\ UNCHANGED <<work, pending, asleep, cur, todo, cancelled, alarmed, firstErr, finished, result>>

\* ... or sleep.
Sleep(w) ==
  /\ pc[w] = "loop"
  /\ work = {}
  /\ ~cancelled /\ pending # 0
  /\ asleep' = asleep \union {w}
  /\ Goto(w, "wait")
  /\ UNCHANGED <<work, pending, cur, todo, cancelled, alarmed, firstErr, finished, result>>

\* A woken worker takes the mutex again and re-checks the condition.
Wake(w) ==
  /\ pc[w] = "wait"
  /\ w \notin asleep
  /\ Goto(w, "loop")
  /\ UNCHANGED <<work, pending, asleep, cur, todo, cancelled, alarmed, firstErr, finished, result>>

CheckContext(w) ==
  /\ pc[w] = "taken"
  /\ ~cancelled
  /\ Goto(w, "listing")
  /\ UNCHANGED <<work, pending, asleep, cur, todo, cancelled, alarmed, firstErr, finished, result>>

\* Mutant: the directory is not counted off.
GiveUp_NoCount(w) ==
  /\ pc[w] = "taken"
  /\ cancelled
  /\ Broadcast
  /\ Drop(w)
  /\ Goto(w, "exited")
  /\ UNCHANGED <<work, pending, cancelled, alarmed, firstErr, finished, result>>

\* The context is done: count the directory off and leave.
GiveUp(w) ==
  /\ pc[w] = "taken"
  /\ cancelled
  /\ pending' = pending - 1
  /\ Broadcast
  /\ Drop(w)
  /\ Goto(w, "exited")
  /\ UNCHANGED <<work, cancelled, alarmed, firstErr, finished, result>>

List(w) ==
  /\ pc[w] = "listing"
  /\ todo' = [todo EXCEPT ![w] = Children[cur[w]]]
  /\ Goto(w, "pushing")
  /\ UNCHANGED <<work, pending, asleep, cur, cancelled, alarmed, firstErr, finished, result>>

ListFails(w) ==
  /\ pc[w] = "listing"
  /\ firstErr' = TRUE
  /\ Goto(w, "failing")
  /\ UNCHANGED <<work, pending, asleep, cur, todo, cancelled, alarmed, finished, result>>

CountOffFailed(w) ==
  /\ pc[w] = "failing"
  /\ pending' = pending - 1
  /\ Broadcast
  /\ Drop(w)
  /\ Goto(w, "cancel")
  /\ UNCHANGED <<work, cancelled, alarmed, firstErr, finished, result>>

\* Listing or processing panics: the directory is never counted off.
Panic(w) ==
  /\ pc[w] \in {"listing", "pushing"}
  /\ Goto(w, "cancel")
  /\ UNCHANGED <<work, pending, asleep, cur, todo, cancelled, alarmed, firstErr, finished, result>>

CancelWalk(w) ==
  /\ pc[w] = "cancel"
  /\ cancelled' = TRUE
  /\ Goto(w, "exited")
  /\ UNCHANGED <<work, pending, asleep, cur, todo, alarmed, firstErr, finished, result>>

\* Mutant: the directory is not counted.
Push_NoCount(w, d) ==
  /\ pc[w] = "pushing"
  /\ d \in todo[w]
  /\ todo' = [todo EXCEPT ![w] = @ \ {d}]
  /\ work' = work \union {d}
  /\ Signal
  /\ UNCHANGED <<pending, pc, cur, cancelled, alarmed, firstErr, finished, result>>

Push(w, d) ==
  /\ pc[w] = "pushing"
  /\ d \in todo[w]
  /\ todo' = [todo EXCEPT ![w] = @ \ {d}]
  /\ work' = work \union {d}
  /\ pending' = pending + 1
  /\ Signal
  /\ UNCHANGED <<pc, cur, cancelled, alarmed, firstErr, finished, result>>

\* Mutants: the directory is counted off before its subdirectories are pushed, or
\* nobody is told that it was the last one.
CountOff_Early(w) ==
  /\ pc[w] = "pushing"
  /\ pending' = pending - 1
  /\ IF pending = 1 THEN Broadcast ELSE UNCHANGED asleep
  /\ finished' = finished \union {cur[w]}
  /\ Drop(w)
  /\ Goto(w, "loop")
  /\ UNCHANGED <<work, cancelled, alarmed, firstErr, result>>

CountOff_Silent(w) ==
  /\ pc[w] = "pushing"
  /\ todo[w] = {}
  /\ pending' = pending - 1
  /\ finished' = finished \union {cur[w]}
  /\ Drop(w)
  /\ Goto(w, "loop")
  /\ UNCHANGED <<work, asleep, cancelled, alarmed, firstErr, result>>

CountOff(w) ==
  /\ pc[w] = "pushing"
  /\ todo[w] = {}
  /\ pending' = pending - 1
  /\ IF pending = 1 THEN Broadcast ELSE UNCHANGED asleep
  /\ finished' = finished \union {cur[w]}
  /\ Drop(w)
  /\ Goto(w, "loop")
  /\ UNCHANGED <<work, cancelled, alarmed, firstErr, result>>

\* Mutant: sleepers are not woken.
Alarm_Silent ==
  /\ cancelled
  /\ ~alarmed
  /\ alarmed' = TRUE
  /\ UNCHANGED <<work, pending, asleep, pc, cur, todo, cancelled, firstErr, finished, result>>

\* The goroutine that waits for ctx.Done.
Alarm ==
  /\ cancelled
  /\ ~alarmed
  /\ alarmed' = TRUE
  /\ Broadcast
  /\ UNCHANGED <<work, pending, pc, cur, todo, cancelled, firstErr, finished, result>>

\* CancelSync, or the shutdown of the server.
UserCancel ==
  /\ ~cancelled
  /\ result = "none"
  /\ cancelled' = TRUE
  /\ UNCHANGED <<work, pending, asleep, pc, cur, todo, alarmed, firstErr, finished, result>>

Return ==
  /\ result = "none"
  /\ \A w \in Workers : pc[w] = "exited"
  /\ result' = IF firstErr THEN "error" ELSE IF cancelled THEN "cancelled" ELSE "ok"
  /\ cancelled' = TRUE
  /\ UNCHANGED <<work, pending, asleep, pc, cur, todo, alarmed, firstErr, finished>>

\* Nothing is left to do: the walk has returned and its helper goroutine has ended.
Returned == result # "none" /\ alarmed /\ UNCHANGED vars

Init ==
  /\ work = {Root}
  /\ pending = 1
  /\ asleep = {}
  /\ pc = [w \in Workers |-> "loop"]
  /\ cur = [w \in Workers |-> NoDir]
  /\ todo = [w \in Workers |-> {}]
  /\ cancelled = FALSE
  /\ alarmed = FALSE
  /\ firstErr = FALSE
  /\ finished = {}
  /\ result = "none"

WorkerNext(w) ==
  \/ \E d \in Dirs : Take(w, d) \/ Push(w, d)
  \/ Leave(w)
  \/ Sleep(w)
  \/ Wake(w)
  \/ CheckContext(w)
  \/ GiveUp(w)
  \/ List(w)
  \/ ListFails(w)
  \/ CountOffFailed(w)
  \/ Panic(w)
  \/ CancelWalk(w)
  \/ CountOff(w)

Next ==
  \/ \E w \in Workers : WorkerNext(w)
  \/ Alarm
  \/ UserCancel
  \/ Return
  \/ Returned

Spec == Init /\ [][Next]_vars

\* Goroutines are scheduled; provider.List ends (its HTTP client has a timeout).
\* Nobody is obliged to cancel.
Fairness ==
  /\ \A w \in Workers : WF_vars(WorkerNext(w))
  /\ WF_vars(Alarm)
  /\ WF_vars(Return)

FairSpec == Spec /\ Fairness

-----------------------------------------------------------------------------
Busy == {w \in Workers : cur[w] # NoDir}
InHand == {cur[w] : w \in Busy}

\* The shared state of the walk is well formed; pendingDirs is never negative.
TypeOK ==
  /\ work \subseteq Dirs
  /\ pending \in Nat
  /\ asleep \subseteq Workers
  /\ pc \in [Workers -> PCs]
  /\ cur \in [Workers -> Dirs \union {NoDir}]
  /\ todo \in [Workers -> SUBSET Dirs]
  /\ cancelled \in BOOLEAN
  /\ alarmed \in BOOLEAN
  /\ firstErr \in BOOLEAN
  /\ finished \subseteq Dirs
  /\ result \in {"none", "ok", "error", "cancelled"}

\* The code's counter is exact: it counts the directories in the list and those that
\* workers have in hand, the ones lost to a panic included.  Workers leave when it is
\* zero, so an undercount ends the walk early and an overcount never ends it.
PendingIsExact == pending = Cardinality(work \union InHand)

\* No directory is visited twice or by two workers.
VisitedOnce ==
  /\ work \intersect (InHand \union finished) = {}
  /\ InHand \intersect finished = {}
  /\ \A v, w \in Busy : cur[v] = cur[w] => v = w

\* A walk that reports success has listed and processed the whole tree.
SuccessIsComplete == result = "ok" => finished = Dirs

\* A worker that sleeps has been left something to be woken for: a directory that is
\* still in some awake worker's hands, or the alarm of a cancelled walk.
NobodySleepsForever ==
  asleep # {} => \/ cancelled /\ ~alarmed
                 \/ \E w \in Workers \ asleep : pc[w] # "exited"

\* The walk returns, whatever fails, panics or is cancelled.
WalkReturns == <>(result # "none")
=============================================================================
