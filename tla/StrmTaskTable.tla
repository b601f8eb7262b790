--------------------------- MODULE StrmTaskTable ---------------------------
(***************************************************************************)
(* The task table behind the STRM download queue and the STRM upload queue *)
(* (internal/repository/strm_repository.go) and the operations that the    *)
(* queue page of the UI performs on it (internal/service/strm_queue.go).   *)
(* The two tables have the same columns and the same statements, so this   *)
(* module is extended by StrmDownloadQueue and by StrmUploadQueue, which   *)
(* add the workers.                                                        *)
(*                                                                         *)
(* Time is abstracted: a row only remembers whether next_try_at lies in    *)
(* the future (backoff) and whether finished_at is set (fin).              *)
(***************************************************************************)
EXTENDS Integers, FiniteSets

CONSTANTS
  Tasks,        \* primary keys of the rows the synchronisations insert
  Birth,        \* created_at of each row: the number of its insert batch
  MaxRetry,     \* strmMaxTaskRetry; 3 in the code
  Databases,    \* databases considered: "sqlite", the default, and "postgres"
  Users,        \* concurrent HTTP requests that cancel or retry one row
  MaxUserOps    \* bound on the user operations of a behaviour

ASSUME TableAssumption ==
  /\ Birth \in [Tasks -> Nat]
  /\ MaxRetry \in Nat
  /\ Databases \subseteq {"sqlite", "postgres"}
  /\ MaxUserOps \in Nat

VARIABLES
  row,          \* the table: task -> row
  op,           \* user -> the single-row operation between its read and its write
  userOps,      \* number of user operations started (bound)
  database      \* the database behind the table; it never changes

tableVars == <<row, op, userOps, database>>

-----------------------------------------------------------------------------
\* Rows.

ActiveStatus == {"pending", "running"}
ClosedStatus == {"done", "failed", "canceled"}
StoredStatus == ActiveStatus \union ClosedStatus
GoneStatus   == {"unborn", "deleted"}   \* no such row: not yet inserted, or removed

Row == [status : StoredStatus \union GoneStatus, retry : 0..MaxRetry,
        backoff : BOOLEAN, fin : BOOLEAN]

Blank(st) == [status |-> st, retry |-> 0, backoff |-> FALSE, fin |-> FALSE]

With(s) == {t \in Tasks : row[t].status \in s}

OpKinds == {"none", "cancel", "retry"}
Op == [kind : OpKinds, task : Tasks, seen : Row] 
NoOp == [kind |-> "none"]

-----------------------------------------------------------------------------
\* The statements of the repository, as functions of the table.

\* Mutant: the update inserts the row when it is gone.
UpdateRow_Upserts(t, new) == [row EXCEPT ![t] = new]

\* UPDATE ... SET status, retry_count, next_try_at, finished_at WHERE id = t.
UpdateRow(t, new) == IF row[t].status \in StoredStatus
                     THEN [row EXCEPT ![t] = new] ELSE row

\* Mutant: the condition is dropped.
UpdateIfRunning_Always(t, new) == UpdateRow(t, new)

\* UPDATE ... WHERE id = t AND status = 'running'.
UpdateIfRunning(t, new) == IF row[t].status = "running"
                           THEN [row EXCEPT ![t] = new] ELSE row

\* One UPDATE over a set of rows.
UpdateAll(S, New(_)) == [t \in Tasks |-> IF t \in S THEN New(row[t]) ELSE row[t]]

DeleteAll(S) == [t \in Tasks |-> IF t \in S THEN Blank("deleted") ELSE row[t]]

BackToPending(r) == [r EXCEPT !.status = "pending"]
\* Mutant: running rows are left alone.
ResetRunningToPending_Nothing == row

ResetRunningToPending == UpdateAll(With({"running"}), BackToPending)

\* The rows a claim may pick: pending and next_try_at not in the future.
Claimable == {t \in With({"pending"}) : ~row[t].backoff}

\* SELECT ... ORDER BY created_at LIMIT limit: rows of equal created_at in any order.
OldestClaimable(S, limit) ==
  /\ S \subseteq Claimable
  /\ S # {}
  /\ Cardinality(S) <= limit
  /\ Cardinality(S) < limit => S = Claimable
  /\ \A s \in S, u \in Claimable \ S : Birth[s] <= Birth[u]

\* UPDATE ... SET status = 'running' WHERE id IN S, whatever the rows have become.
Running(r) == [r EXCEPT !.status = "running"]
MarkRunning(S) == UpdateAll(S \intersect With(StoredStatus), Running)

\* The SELECT and the UPDATE of a claim are one transaction.  SQLite begins it with
\* the write lock; PostgreSQL, at READ COMMITTED, lets other statements in between.
AtomicClaim == database = "sqlite"

-----------------------------------------------------------------------------
\* retryTask: what a failed execution of a claimed row writes back.

\* Mutant: off by one.
RetriesLeft_OneMore(copy) == copy.retry <= MaxRetry

RetriesLeft(copy) == copy.retry < MaxRetry

\* Mutant: the status of the claim is kept.
AfterFailure_KeepsRunning(copy) == [copy EXCEPT !.retry = IF RetriesLeft(copy) THEN @ + 1 ELSE @]

AfterFailure(copy) ==
  IF RetriesLeft(copy)
  THEN [copy EXCEPT !.status = "pending", !.retry = @ + 1, !.backoff = TRUE, !.fin = FALSE]
  ELSE [copy EXCEPT !.status = "failed", !.fin = TRUE]

\* Mutant: finished_at is forgotten.
Finished_NoTime(t, st) == [row[t] EXCEPT !.status = st]

\* finish(status): only status and finished_at are written.
Finished(t, st) == [row[t] EXCEPT !.status = st, !.fin = TRUE]

-----------------------------------------------------------------------------
\* Operations of the synchronisation and of the queue page.

\* flushDownloadBatch / flushUploadBatch: one insert for a buffered batch.
Enqueue(b) ==
  /\ \E t \in Tasks : Birth[t] = b /\ row[t].status = "unborn"
  /\ row' = [t \in Tasks |-> IF Birth[t] = b /\ row[t].status = "unborn"
                             THEN Blank("pending") ELSE row[t]]
  /\ UNCHANGED <<op, userOps, database>>

UserOp == userOps < MaxUserOps /\ userOps' = userOps + 1

\* CancelDownloadTask / CancelUploadTask, RetryDownloadTask / RetryUploadTask read
\* the row, check its status and write every column back: two steps.
ReadForCancel(u, t) ==
  /\ op[u] = NoOp
  /\ row[t].status \in ActiveStatus
  /\ UserOp
  /\ op' = [op EXCEPT ![u] = [kind |-> "cancel", task |-> t, seen |-> row[t]]]
  /\ UNCHANGED <<row, database>>

ReadForRetry(u, t) ==
  /\ op[u] = NoOp
  /\ row[t].status \in {"failed", "canceled"}
  /\ UserOp
  /\ op' = [op EXCEPT ![u] = [kind |-> "retry", task |-> t, seen |-> row[t]]]
  /\ UNCHANGED <<row, database>>

\* Mutant: finished_at is not cleared.
Requeued_KeepsTime(r) == [r EXCEPT !.status = "pending", !.retry = 0, !.backoff = FALSE]

Canceled(r) == [r EXCEPT !.status = "canceled", !.fin = TRUE]
Requeued(r) == Blank("pending")

WriteCancel(u) ==
  /\ op[u].kind = "cancel"
  /\ row' = UpdateRow(op[u].task, Canceled(op[u].seen))
  /\ op' = [op EXCEPT ![u] = NoOp]
  /\ UNCHANGED <<userOps, database>>

WriteRetry(u) ==
  /\ op[u].kind = "retry"
  /\ row' = UpdateRow(op[u].task, Requeued(op[u].seen))
  /\ op' = [op EXCEPT ![u] = NoOp]
  /\ UNCHANGED <<userOps, database>>

\* The request is aborted, or its write fails: nothing is written.
AbandonOp(u) ==
  /\ op[u] # NoOp
  /\ op' = [op EXCEPT ![u] = NoOp]
  /\ UNCHANGED <<row, userOps, database>>

\* CancelBatch, and CancelPending when S is every task.
CancelBatch(S) ==
  /\ S \intersect With(ActiveStatus) # {}
  /\ UserOp
  /\ row' = UpdateAll(S \intersect With(ActiveStatus), Canceled)
  /\ UNCHANGED <<op, database>>

RetryBatch(S) ==
  /\ S \intersect With({"failed", "canceled"}) # {}
  /\ UserOp
  /\ row' = UpdateAll(S \intersect With({"failed", "canceled"}), Requeued)
  /\ UNCHANGED <<op, database>>

RetryAllFailed ==
  /\ With({"failed"}) # {}
  /\ UserOp
  /\ row' = UpdateAll(With({"failed"}), Requeued)
  /\ UNCHANGED <<op, database>>

\* Delete and DeleteBatch: whatever the status, running included.
DeleteBatch(S) ==
  /\ S \intersect With(StoredStatus) # {}
  /\ UserOp
  /\ row' = DeleteAll(S \intersect With(StoredStatus))
  /\ UNCHANGED <<op, database>>

ClearKinds == {{"done"}, {"failed"}, {"canceled"}, ClosedStatus}

\* ClearDone, ClearFailed, ClearCanceled, ClearFinished.
Clear(k) ==
  /\ With(k) # {}
  /\ UserOp
  /\ row' = DeleteAll(With(k))
  /\ UNCHANGED <<op, database>>

\* queueCleanupLoop: rows closed seven days ago; which ones is left open.
DeleteFinishedOlderThan(S) ==
  /\ S # {}
  /\ S \subseteq {t \in With(ClosedStatus) : row[t].fin}
  /\ row' = DeleteAll(S)
  /\ UNCHANGED <<op, userOps, database>>

\* The clock passes next_try_at.
BackoffElapses(t) ==
  /\ row[t].backoff
  /\ row' = [row EXCEPT ![t].backoff = FALSE]
  /\ UNCHANGED <<op, userOps, database>>

TableInit ==
  /\ row = [t \in Tasks |-> Blank("unborn")]
  /\ op = [u \in Users |-> NoOp]
  /\ userOps = 0
  /\ database \in Databases

UserNext ==
  \/ \E u \in Users, t \in Tasks : ReadForCancel(u, t) \/ ReadForRetry(u, t)
  \/ \E u \in Users : WriteCancel(u) \/ WriteRetry(u) \/ AbandonOp(u)
  \/ \E S \in SUBSET Tasks : CancelBatch(S) \/ RetryBatch(S) \/ DeleteBatch(S)
  \/ RetryAllFailed
  \/ \E k \in ClearKinds : Clear(k)

-----------------------------------------------------------------------------
\* The rows and the requests under way are well formed.
TableTypeOK ==
  /\ row \in [Tasks -> Row]
  /\ op \in [Users -> Op \union {NoOp}]
  /\ userOps \in 0..MaxUserOps
  /\ database \in Databases

\* finished_at is set exactly on the closed rows: the seven-day cleanup and the
\* queue page rely on it, and every writer of a row, with a fresh or a stale copy,
\* has to keep it so.  (A claim on PostgreSQL can mark a row that was cancelled after
\* it was selected; the row then runs with finished_at set.)
FinishedIffClosed ==
  AtomicClaim => \A t \in Tasks : row[t].fin <=> row[t].status \in ClosedStatus

\* What the table shows of each row at the level of TaskLedger: whether a worker has it
\* is not visible there.
LedgerState == [t \in Tasks |-> IF row[t].status \in ActiveStatus THEN "open" ELSE row[t].status]
=============================================================================
