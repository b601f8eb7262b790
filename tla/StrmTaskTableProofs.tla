------------------------ MODULE StrmTaskTableProofs ------------------------
(***************************************************************************)
(* Lemmas about the task table that the proofs of both queues use: every   *)
(* statement keeps the rows well formed, the requests of the queue page    *)
(* never set a row to running, they keep finished_at on exactly the closed *)
(* rows, and each of their steps is one the ledger allows.                 *)
(***************************************************************************)
EXTENDS StrmTaskTable, TLAPS

\* What the requests, the clock, the inserts and the cleanup loop do to the table.
TableStep ==
  \/ UserNext
  \/ \E t \in Tasks : BackoffElapses(t)
  \/ \E b \in Nat : Enqueue(b)
  \/ \E S \in SUBSET Tasks : DeleteFinishedOlderThan(S)

\* How such a step may change one row.
Rewritten(old, new) ==
  \/ new = old
  \/ old.status \in StoredStatus /\ new.status = "pending" /\ new.fin = FALSE
  \/ old.status \in StoredStatus /\ new.status = "canceled" /\ new.fin = TRUE
  \/ old.status \in StoredStatus /\ new.status = "deleted" /\ new.fin = FALSE
  \/ old.status = "unborn" /\ new.status = "pending" /\ new.fin = FALSE
  \/ new.status = old.status /\ new.fin = old.fin

\* What the ledger sees of one row, and a set of rows that go to one state there.
Shown(r) == IF r.status \in ActiveStatus THEN "open" ELSE r.status
Moves(S, from, to) ==
  /\ \A t \in S : Shown(row[t]) \in from
  /\ LedgerState' = [t \in Tasks |-> IF t \in S THEN to ELSE LedgerState[t]]

LedgerMove ==
  \/ LedgerState' = LedgerState
  \/ \E S \in SUBSET Tasks :
       \/ Moves(S, {"unborn"}, "open")
       \/ Moves(S, {"open"} \union ClosedStatus, "canceled")
       \/ Moves(S, ClosedStatus, "open")
       \/ Moves(S, {"open"} \union ClosedStatus, "deleted")

-----------------------------------------------------------------------------
\* Values of the statements.

LEMMA RowFields ==
  ASSUME NEW r, r \in Row
  PROVE  /\ r.status \in StoredStatus \union GoneStatus
         /\ r.retry \in 0..MaxRetry
         /\ r.backoff \in BOOLEAN
         /\ r.fin \in BOOLEAN
BY DEF Row

LEMMA BlankType ==
  ASSUME NEW st \in StoredStatus \union GoneStatus
  PROVE  /\ Blank(st) \in Row
         /\ Blank(st).status = st
         /\ Blank(st).retry = 0
         /\ Blank(st).backoff = FALSE
         /\ Blank(st).fin = FALSE
BY TableAssumption DEF Blank, Row

LEMMA CanceledType ==
  ASSUME NEW r \in Row
  PROVE  /\ Canceled(r) \in Row
         /\ Canceled(r).status = "canceled"
         /\ Canceled(r).fin = TRUE
BY DEF Canceled, Row, StoredStatus, ClosedStatus

LEMMA RequeuedType ==
  ASSUME NEW r \in Row
  PROVE  /\ Requeued(r) \in Row
         /\ Requeued(r).status = "pending"
         /\ Requeued(r).fin = FALSE
BY BlankType DEF Requeued, StoredStatus, ActiveStatus

LEMMA RunningType ==
  ASSUME NEW r \in Row
  PROVE  /\ Running(r) \in Row
         /\ Running(r).status = "running"
         /\ Running(r).fin = r.fin
         /\ Running(r).retry = r.retry
BY DEF Running, Row, StoredStatus, ActiveStatus

LEMMA BackToPendingType ==
  ASSUME NEW r \in Row
  PROVE  /\ BackToPending(r) \in Row
         /\ BackToPending(r).status = "pending"
         /\ BackToPending(r).fin = r.fin
BY DEF BackToPending, Row, StoredStatus, ActiveStatus

\* A failed execution leaves a row either waiting for its next try or failed, never
\* with more than MaxRetry retries, and finished only if it failed.
LEMMA AfterFailureType ==
  ASSUME NEW r \in Row
  PROVE  /\ AfterFailure(r) \in Row
         /\ AfterFailure(r).status \in {"pending", "failed"}
         /\ AfterFailure(r).fin <=> AfterFailure(r).status = "failed"
<1>1. MaxRetry \in Nat /\ r.retry \in 0..MaxRetry
  BY TableAssumption, RowFields
<1>2. CASE RetriesLeft(r)
  <2>1. r.retry + 1 \in 0..MaxRetry
    BY <1>1, <1>2 DEF RetriesLeft
  <2> QED
    BY <1>2, <2>1 DEF AfterFailure, Row, StoredStatus, ActiveStatus
<1>3. CASE ~RetriesLeft(r)
  BY <1>3 DEF AfterFailure, Row, StoredStatus, ClosedStatus
<1> QED
  BY <1>2, <1>3

LEMMA FinishedType ==
  ASSUME row \in [Tasks -> Row], NEW t \in Tasks, NEW st \in ClosedStatus
  PROVE  /\ Finished(t, st) \in Row
         /\ Finished(t, st).status = st
         /\ Finished(t, st).fin = TRUE
<1>1. row[t] \in Row
  OBVIOUS
<1> QED
  BY <1>1 DEF Finished, Row, StoredStatus

\* An UPDATE by id writes the row if it exists and no other row.
LEMMA UpdateRowEffect ==
  ASSUME row \in [Tasks -> Row], NEW t \in Tasks, NEW new \in Row, row' = UpdateRow(t, new)
  PROVE  /\ row' \in [Tasks -> Row]
         /\ \A u \in Tasks : u # t => row'[u] = row[u]
         /\ row'[t] = IF row[t].status \in StoredStatus THEN new ELSE row[t]
BY DEF UpdateRow

\* The conditional UPDATE writes the row only if it is still running.
LEMMA UpdateIfRunningEffect ==
  ASSUME row \in [Tasks -> Row], NEW t \in Tasks, NEW new \in Row, row' = UpdateIfRunning(t, new)
  PROVE  /\ row' \in [Tasks -> Row]
         /\ \A u \in Tasks : u # t => row'[u] = row[u]
         /\ row'[t] = IF row[t].status = "running" THEN new ELSE row[t]
BY DEF UpdateIfRunning

LEMMA DeleteAllEffect ==
  ASSUME row \in [Tasks -> Row], NEW S, row' = DeleteAll(S)
  PROVE  /\ row' \in [Tasks -> Row]
         /\ \A t \in Tasks : row'[t] = IF t \in S THEN Blank("deleted") ELSE row[t]
<1>1. Blank("deleted") \in Row
  BY BlankType DEF GoneStatus
<1> QED
  BY <1>1 DEF DeleteAll

LEMMA MarkRunningEffect ==
  ASSUME row \in [Tasks -> Row], NEW S, row' = MarkRunning(S)
  PROVE  /\ row' \in [Tasks -> Row]
         /\ \A t \in Tasks : row'[t] = IF t \in S /\ row[t].status \in StoredStatus
                                       THEN Running(row[t]) ELSE row[t]
<1>1. \A t \in Tasks : Running(row[t]) \in Row
  BY RunningType
<1>2. row' = [t \in Tasks |-> IF t \in S \intersect With(StoredStatus)
                              THEN Running(row[t]) ELSE row[t]]
  BY DEF MarkRunning, UpdateAll
<1> QED
  BY <1>1, <1>2 DEF With

LEMMA ResetEffect ==
  ASSUME row \in [Tasks -> Row], row' = ResetRunningToPending
  PROVE  /\ row' \in [Tasks -> Row]
         /\ \A t \in Tasks : row'[t] = IF row[t].status = "running"
                                       THEN BackToPending(row[t]) ELSE row[t]
<1>1. \A t \in Tasks : BackToPending(row[t]) \in Row
  BY BackToPendingType
<1>2. row' = [t \in Tasks |-> IF t \in With({"running"}) THEN BackToPending(row[t]) ELSE row[t]]
  BY DEF ResetRunningToPending, UpdateAll
<1> QED
  BY <1>1, <1>2 DEF With

-----------------------------------------------------------------------------
\* The steps of the table itself.

\* A request that has read a row holds a well formed copy of it.
LEMMA UserRequestTypes ==
  ASSUME TableTypeOK, NEW u \in Users, op[u] # NoOp
  PROVE  op[u] \in Op /\ op[u].task \in Tasks /\ op[u].seen \in Row
BY DEF TableTypeOK, Op

LEMMA ReadStep ==
  ASSUME TableTypeOK, NEW u \in Users, NEW t \in Tasks,
         ReadForCancel(u, t) \/ ReadForRetry(u, t)
  PROVE  TableTypeOK' /\ row' = row
<1>1. row[t] \in Row /\ userOps \in 0..MaxUserOps /\ MaxUserOps \in Nat
  BY TableAssumption DEF TableTypeOK
<1>2. userOps' \in 0..MaxUserOps
  BY <1>1 DEF ReadForCancel, ReadForRetry, UserOp
<1>3. \A k \in {"cancel", "retry"} : [kind |-> k, task |-> t, seen |-> row[t]] \in Op
  BY <1>1 DEF Op, OpKinds
<1>4. op' \in [Users -> Op \union {NoOp}]
  BY <1>3 DEF TableTypeOK, ReadForCancel, ReadForRetry
<1> QED
  BY <1>2, <1>4 DEF TableTypeOK, ReadForCancel, ReadForRetry

LEMMA WriteStep ==
  ASSUME TableTypeOK, NEW u \in Users, WriteCancel(u) \/ WriteRetry(u) \/ AbandonOp(u)
  PROVE  TableTypeOK' /\ \A t \in Tasks : Rewritten(row[t], row'[t])
<1>1. op' \in [Users -> Op \union {NoOp}]
  BY DEF TableTypeOK, WriteCancel, WriteRetry, AbandonOp
<1>2. CASE AbandonOp(u)
  BY <1>1, <1>2 DEF TableTypeOK, AbandonOp, Rewritten
<1>3. CASE WriteCancel(u)
  <2>1. op[u].task \in Tasks /\ op[u].seen \in Row
    BY <1>3, UserRequestTypes DEF WriteCancel, NoOp
  <2>2. /\ row' \in [Tasks -> Row]
        /\ \A t \in Tasks : t # op[u].task => row'[t] = row[t]
        /\ row'[op[u].task] = IF row[op[u].task].status \in StoredStatus
                              THEN Canceled(op[u].seen) ELSE row[op[u].task]
    BY <1>3, <2>1, CanceledType, UpdateRowEffect DEF WriteCancel, TableTypeOK
  <2>3. \A t \in Tasks : Rewritten(row[t], row'[t])
    BY <2>1, <2>2, CanceledType DEF Rewritten
  <2> QED
    BY <1>1, <1>3, <2>2, <2>3 DEF TableTypeOK, WriteCancel
<1>4. CASE WriteRetry(u)
  <2>1. op[u].task \in Tasks /\ op[u].seen \in Row
    BY <1>4, UserRequestTypes DEF WriteRetry, NoOp
  <2>2. /\ row' \in [Tasks -> Row]
        /\ \A t \in Tasks : t # op[u].task => row'[t] = row[t]
        /\ row'[op[u].task] = IF row[op[u].task].status \in StoredStatus
                              THEN Requeued(op[u].seen) ELSE row[op[u].task]
    BY <1>4, <2>1, RequeuedType, UpdateRowEffect DEF WriteRetry, TableTypeOK
  <2>3. \A t \in Tasks : Rewritten(row[t], row'[t])
    BY <2>1, <2>2, RequeuedType DEF Rewritten
  <2> QED
    BY <1>1, <1>4, <2>2, <2>3 DEF TableTypeOK, WriteRetry
<1> QED
  BY <1>2, <1>3, <1>4

LEMMA CancelAllEffect ==
  ASSUME row \in [Tasks -> Row], NEW S, row' = UpdateAll(S, Canceled)
  PROVE  /\ row' \in [Tasks -> Row]
         /\ \A t \in Tasks : row'[t] = IF t \in S THEN Canceled(row[t]) ELSE row[t]
<1>1. \A t \in Tasks : Canceled(row[t]) \in Row
  BY CanceledType
<1>2. row' = [t \in Tasks |-> IF t \in S THEN Canceled(row[t]) ELSE row[t]]
  BY DEF UpdateAll
<1> QED
  BY <1>1, <1>2

LEMMA RequeueAllEffect ==
  ASSUME row \in [Tasks -> Row], NEW S, row' = UpdateAll(S, Requeued)
  PROVE  /\ row' \in [Tasks -> Row]
         /\ \A t \in Tasks : row'[t] = IF t \in S THEN Requeued(row[t]) ELSE row[t]
<1>1. \A t \in Tasks : Requeued(row[t]) \in Row
  BY RequeuedType
<1>2. row' = [t \in Tasks |-> IF t \in S THEN Requeued(row[t]) ELSE row[t]]
  BY DEF UpdateAll
<1> QED
  BY <1>1, <1>2

LEMMA UserOpType ==
  ASSUME TableTypeOK, UserOp
  PROVE  userOps' \in 0..MaxUserOps
<1>1. userOps \in 0..MaxUserOps /\ MaxUserOps \in Nat
  BY TableAssumption DEF TableTypeOK
<1> QED
  BY <1>1 DEF UserOp

\* One statement of the queue page over many rows.
BatchStep ==
  \/ \E S \in SUBSET Tasks : CancelBatch(S) \/ RetryBatch(S) \/ DeleteBatch(S)
  \/ RetryAllFailed
  \/ \E k \in ClearKinds : Clear(k)

\* What such a statement does: it takes the rows of one set, all closed or of any
\* status, to one status.
BatchOutcome(S) ==
  /\ row' \in [Tasks -> Row]
  /\ \A t \in Tasks \ S : row'[t] = row[t]
  /\ \/ /\ S \subseteq With(StoredStatus)
        /\ \A t \in S : row'[t] = Canceled(row[t])
     \/ /\ S \subseteq With(ClosedStatus)
        /\ \A t \in S : row'[t] = Requeued(row[t])
     \/ /\ S \subseteq With(StoredStatus)
        /\ \A t \in S : row'[t] = Blank("deleted")

LEMMA BatchEffect ==
  ASSUME TableTypeOK, BatchStep
  PROVE  \E S \in SUBSET Tasks : BatchOutcome(S)
<1>r. row \in [Tasks -> Row]
  BY DEF TableTypeOK
<1>1. ASSUME NEW S \in SUBSET Tasks, CancelBatch(S) PROVE \E T \in SUBSET Tasks : BatchOutcome(T)
  <2> DEFINE T == S \intersect With(ActiveStatus)
  <2>1. T \in SUBSET Tasks /\ T \subseteq With(StoredStatus)
    BY DEF With, StoredStatus
  <2>2. row' = UpdateAll(T, Canceled)
    BY <1>1 DEF CancelBatch
  <2> HIDE DEF T
  <2>3. BatchOutcome(T)
    BY <1>r, <2>1, <2>2, CancelAllEffect DEF BatchOutcome
  <2> QED
    BY <2>1, <2>3
<1>2. ASSUME NEW T \in SUBSET Tasks, T \subseteq With(ClosedStatus), row' = UpdateAll(T, Requeued)
      PROVE \E U \in SUBSET Tasks : BatchOutcome(U)
  <2>1. BatchOutcome(T)
    BY <1>r, <1>2, RequeueAllEffect DEF BatchOutcome
  <2> QED
    BY <2>1
<1>3. ASSUME NEW S \in SUBSET Tasks, RetryBatch(S) PROVE \E U \in SUBSET Tasks : BatchOutcome(U)
  <2> DEFINE T == S \intersect With({"failed", "canceled"})
  <2>1. T \in SUBSET Tasks /\ T \subseteq With(ClosedStatus)
    BY DEF With, ClosedStatus
  <2>2. row' = UpdateAll(T, Requeued)
    BY <1>3 DEF RetryBatch
  <2> HIDE DEF T
  <2> QED
    BY <1>2, <2>1, <2>2
<1>4. CASE RetryAllFailed
  <2> DEFINE T == With({"failed"})
  <2>1. T \in SUBSET Tasks /\ T \subseteq With(ClosedStatus)
    BY DEF With, ClosedStatus
  <2>2. row' = UpdateAll(T, Requeued)
    BY <1>4 DEF RetryAllFailed
  <2> HIDE DEF T
  <2> QED
    BY <1>2, <2>1, <2>2
<1>5. ASSUME NEW T \in SUBSET Tasks, T \subseteq With(StoredStatus), row' = DeleteAll(T)
      PROVE \E U \in SUBSET Tasks : BatchOutcome(U)
  <2>1. BatchOutcome(T)
    BY <1>r, <1>5, DeleteAllEffect DEF BatchOutcome
  <2> QED
    BY <2>1
<1>6. ASSUME NEW S \in SUBSET Tasks, DeleteBatch(S) PROVE \E U \in SUBSET Tasks : BatchOutcome(U)
  <2> DEFINE T == S \intersect With(StoredStatus)
  <2>1. T \in SUBSET Tasks /\ T \subseteq With(StoredStatus) /\ row' = DeleteAll(T)
    BY <1>6 DEF DeleteBatch, With
  <2> HIDE DEF T
  <2> QED
    BY <1>5, <2>1
<1>7. ASSUME NEW k \in ClearKinds, Clear(k) PROVE \E U \in SUBSET Tasks : BatchOutcome(U)
  <2> DEFINE T == With(k)
  <2>1. k \subseteq StoredStatus
    BY DEF ClearKinds, ClosedStatus, StoredStatus
  <2>2. T \in SUBSET Tasks /\ T \subseteq With(StoredStatus) /\ row' = DeleteAll(T)
    BY <1>7, <2>1 DEF Clear, With
  <2> HIDE DEF T
  <2> QED
    BY <1>5, <2>2
<1> QED
  BY <1>1, <1>3, <1>4, <1>6, <1>7 DEF BatchStep

LEMMA BatchTypes ==
  ASSUME TableTypeOK, BatchStep
  PROVE  TableTypeOK' /\ \A t \in Tasks : Rewritten(row[t], row'[t])
<1>1. PICK S \in SUBSET Tasks : BatchOutcome(S)
  BY BatchEffect
<1>2. UserOp /\ op' = op /\ database' = database
  BY DEF BatchStep, CancelBatch, RetryBatch, DeleteBatch, RetryAllFailed, Clear
<1>3. TableTypeOK'
  BY <1>1, <1>2, UserOpType DEF TableTypeOK, BatchOutcome
<1>4. \A t \in Tasks : row[t] \in Row
  BY DEF TableTypeOK
<1>5. ASSUME NEW t \in Tasks PROVE Rewritten(row[t], row'[t])
  <2>1. CASE t \notin S
    BY <1>1, <2>1 DEF BatchOutcome, Rewritten
  <2>2. CASE t \in S
    <3>1. t \in With(StoredStatus) \union With(ClosedStatus)
      BY <1>1, <2>2 DEF BatchOutcome
    <3>2. row[t].status \in StoredStatus
      BY <3>1 DEF With, StoredStatus
    <3>3. row'[t] \in {Canceled(row[t]), Requeued(row[t]), Blank("deleted")}
      BY <1>1, <2>2 DEF BatchOutcome
    <3>4. Canceled(row[t]).status = "canceled" /\ Canceled(row[t]).fin = TRUE
      BY <1>4, CanceledType
    <3>5. Requeued(row[t]).status = "pending" /\ Requeued(row[t]).fin = FALSE
      BY <1>4, RequeuedType
    <3>6. Blank("deleted").status = "deleted" /\ Blank("deleted").fin = FALSE
      BY BlankType DEF GoneStatus
    <3> QED
      BY <3>2, <3>3, <3>4, <3>5, <3>6 DEF Rewritten
  <2> QED
    BY <2>1, <2>2
<1> QED
  BY <1>3, <1>5

LEMMA EnqueueTypes ==
  ASSUME TableTypeOK, NEW b, Enqueue(b)
  PROVE  TableTypeOK' /\ \A t \in Tasks : Rewritten(row[t], row'[t])
<1>1. /\ Blank("pending") \in Row
      /\ Blank("pending").status = "pending"
      /\ Blank("pending").fin = FALSE
  BY BlankType DEF StoredStatus, ActiveStatus
<1>2. row' \in [Tasks -> Row]
  BY <1>1 DEF TableTypeOK, Enqueue
<1> QED
  BY <1>1, <1>2 DEF TableTypeOK, Enqueue, Rewritten

LEMMA CleanupTypes ==
  ASSUME TableTypeOK, NEW S, DeleteFinishedOlderThan(S)
  PROVE  TableTypeOK' /\ \A t \in Tasks : Rewritten(row[t], row'[t])
<1>1. /\ row' \in [Tasks -> Row]
      /\ \A t \in Tasks : row'[t] = IF t \in S THEN Blank("deleted") ELSE row[t]
  BY DeleteAllEffect DEF TableTypeOK, DeleteFinishedOlderThan
<1>2. \A t \in S : row[t].status \in StoredStatus
  BY DEF DeleteFinishedOlderThan, With, StoredStatus
<1>3. Blank("deleted").status = "deleted" /\ Blank("deleted").fin = FALSE
  BY BlankType DEF GoneStatus
<1> QED
  BY <1>1, <1>2, <1>3 DEF TableTypeOK, DeleteFinishedOlderThan, Rewritten

LEMMA BackoffTypes ==
  ASSUME TableTypeOK, NEW t \in Tasks, BackoffElapses(t)
  PROVE  TableTypeOK' /\ \A u \in Tasks : Rewritten(row[u], row'[u])
<1>1. row[t] \in Row /\ row \in [Tasks -> Row]
  BY DEF TableTypeOK
<1>2. [row[t] EXCEPT !.backoff = FALSE] \in Row
  BY <1>1 DEF Row
<1>3. row' \in [Tasks -> Row]
  BY <1>1, <1>2 DEF BackoffElapses
<1>4. row'[t].status = row[t].status /\ row'[t].fin = row[t].fin
  BY <1>1 DEF BackoffElapses, Row
<1>5. \A u \in Tasks : u # t => row'[u] = row[u]
  BY <1>1 DEF BackoffElapses
<1> QED
  BY <1>3, <1>4, <1>5 DEF TableTypeOK, BackoffElapses, Rewritten

\* The requests, the clock, the inserts and the cleanup loop keep the table well formed
\* and change each row in one of the ways of Rewritten: none of them makes a row
\* running.
LEMMA TableStepTypes ==
  ASSUME TableTypeOK, TableStep
  PROVE  TableTypeOK' /\ \A t \in Tasks : Rewritten(row[t], row'[t])
<1>1. ASSUME NEW u \in Users, NEW t \in Tasks, ReadForCancel(u, t) \/ ReadForRetry(u, t)
      PROVE  TableTypeOK' /\ \A s \in Tasks : Rewritten(row[s], row'[s])
  BY <1>1, ReadStep DEF Rewritten
<1>2. UserNext => \/ \E u \in Users, t \in Tasks : ReadForCancel(u, t) \/ ReadForRetry(u, t)
                  \/ \E u \in Users : WriteCancel(u) \/ WriteRetry(u) \/ AbandonOp(u)
                  \/ BatchStep
  BY DEF UserNext, BatchStep
<1> QED
  BY <1>1, <1>2, WriteStep, BatchTypes, EnqueueTypes, CleanupTypes, BackoffTypes DEF TableStep

-----------------------------------------------------------------------------
\* What the ledger sees of the steps.

LEMMA LedgerIsShown == LedgerState = [t \in Tasks |-> Shown(row[t])]
BY DEF LedgerState, Shown

LEMMA MovesByRows ==
  ASSUME NEW S \in SUBSET Tasks, NEW from, NEW to,
         \A t \in S : Shown(row[t]) \in from /\ Shown(row'[t]) = to,
         \A t \in Tasks \ S : Shown(row'[t]) = Shown(row[t])
  PROVE  Moves(S, from, to)
BY LedgerIsShown DEF Moves, LedgerState, Shown

LEMMA SameShown ==
  ASSUME \A t \in Tasks : Shown(row'[t]) = Shown(row[t])
  PROVE  LedgerState' = LedgerState
BY DEF LedgerState, Shown

\* One row that goes to pending, running or canceled.
LEMMA OneRowMoves ==
  ASSUME row \in [Tasks -> Row],
         NEW t \in Tasks,
         \A u \in Tasks : u # t => row'[u] = row[u],
         \/ row'[t] = row[t]
         \/ /\ row[t].status \in StoredStatus
            /\ row'[t].status \in {"pending", "running", "canceled"}
  PROVE  LedgerMove
<1>1. CASE row'[t] = row[t]
  <2>1. \A u \in Tasks : row'[u] = row[u]
    BY <1>1
  <2> QED
    BY <2>1, SameShown DEF LedgerMove
<1>2. CASE row[t].status \in StoredStatus /\ row'[t].status = "canceled"
  <2>1. Shown(row[t]) \in {"open"} \union ClosedStatus /\ Shown(row'[t]) = "canceled"
    BY <1>2 DEF Shown, StoredStatus, ActiveStatus
  <2>2. Moves({t}, {"open"} \union ClosedStatus, "canceled")
    BY <2>1, MovesByRows
  <2> QED
    BY <2>2 DEF LedgerMove
<1>3. CASE row[t].status \in ClosedStatus /\ row'[t].status \in {"pending", "running"}
  <2>1. Shown(row[t]) \in ClosedStatus /\ Shown(row'[t]) = "open"
    BY <1>3 DEF Shown, ClosedStatus, ActiveStatus
  <2>2. Moves({t}, ClosedStatus, "open")
    BY <2>1, MovesByRows
  <2> QED
    BY <2>2 DEF LedgerMove
<1>4. CASE row[t].status \in ActiveStatus /\ row'[t].status \in {"pending", "running"}
  <2>1. Shown(row[t]) = "open" /\ Shown(row'[t]) = "open"
    BY <1>4 DEF Shown, ActiveStatus
  <2>2. \A u \in Tasks : Shown(row'[u]) = Shown(row[u])
    BY <2>1
  <2> QED
    BY <2>2, SameShown DEF LedgerMove
<1> QED
  BY <1>1, <1>2, <1>3, <1>4 DEF StoredStatus

LEMMA BatchMoves ==
  ASSUME TableTypeOK, BatchStep
  PROVE  LedgerMove
<1>1. PICK S \in SUBSET Tasks : BatchOutcome(S)
  BY BatchEffect
<1>2. \A t \in Tasks : row[t] \in Row
  BY DEF TableTypeOK
<1>3. \A t \in Tasks \ S : Shown(row'[t]) = Shown(row[t])
  BY <1>1 DEF BatchOutcome
<1>4. CASE S \subseteq With(StoredStatus) /\ \A t \in S : row'[t] = Canceled(row[t])
  <2>0. \A t \in S : Canceled(row[t]).status = "canceled"
    BY <1>2, CanceledType
  <2>1. \A t \in S : Shown(row[t]) \in {"open"} \union ClosedStatus /\ Shown(row'[t]) = "canceled"
    BY <1>4, <2>0 DEF Shown, With, StoredStatus, ActiveStatus
  <2>2. Moves(S, {"open"} \union ClosedStatus, "canceled")
    BY <1>3, <2>1, MovesByRows
  <2> QED
    BY <2>2 DEF LedgerMove
<1>5. CASE S \subseteq With(ClosedStatus) /\ \A t \in S : row'[t] = Requeued(row[t])
  <2>0. \A t \in S : Requeued(row[t]).status = "pending"
    BY <1>2, RequeuedType
  <2>1. \A t \in S : Shown(row[t]) \in ClosedStatus /\ Shown(row'[t]) = "open"
    BY <1>5, <2>0 DEF Shown, With, ClosedStatus, ActiveStatus
  <2>2. Moves(S, ClosedStatus, "open")
    BY <1>3, <2>1, MovesByRows
  <2> QED
    BY <2>2 DEF LedgerMove
<1>6. CASE S \subseteq With(StoredStatus) /\ \A t \in S : row'[t] = Blank("deleted")
  <2>0. Blank("deleted").status = "deleted"
    BY BlankType DEF GoneStatus
  <2>1. \A t \in S : Shown(row[t]) \in {"open"} \union ClosedStatus /\ Shown(row'[t]) = "deleted"
    BY <1>2, <1>6, <2>0 DEF Shown, With, StoredStatus, ActiveStatus
  <2>2. Moves(S, {"open"} \union ClosedStatus, "deleted")
    BY <1>3, <2>1, MovesByRows
  <2> QED
    BY <2>2 DEF LedgerMove
<1> QED
  BY <1>1, <1>4, <1>5, <1>6 DEF BatchOutcome

LEMMA WriteMoves ==
  ASSUME TableTypeOK, NEW u \in Users, WriteCancel(u) \/ WriteRetry(u) \/ AbandonOp(u)
  PROVE  LedgerMove
<1>1. row \in [Tasks -> Row]
  BY DEF TableTypeOK
<1>2. CASE AbandonOp(u)
  BY <1>2, SameShown DEF AbandonOp, LedgerMove
<1>3. CASE WriteCancel(u)
  <2>1. op[u].task \in Tasks /\ op[u].seen \in Row
    BY <1>3, UserRequestTypes DEF WriteCancel, NoOp
  <2>2. /\ \A t \in Tasks : t # op[u].task => row'[t] = row[t]
        /\ row'[op[u].task] = IF row[op[u].task].status \in StoredStatus
                              THEN Canceled(op[u].seen) ELSE row[op[u].task]
    BY <1>1, <1>3, <2>1, CanceledType, UpdateRowEffect DEF WriteCancel
  <2>3. Canceled(op[u].seen).status = "canceled"
    BY <2>1, CanceledType
  <2> QED
    BY <1>1, <2>1, <2>2, <2>3, OneRowMoves
<1>4. CASE WriteRetry(u)
  <2>1. op[u].task \in Tasks /\ op[u].seen \in Row
    BY <1>4, UserRequestTypes DEF WriteRetry, NoOp
  <2>2. /\ \A t \in Tasks : t # op[u].task => row'[t] = row[t]
        /\ row'[op[u].task] = IF row[op[u].task].status \in StoredStatus
                              THEN Requeued(op[u].seen) ELSE row[op[u].task]
    BY <1>1, <1>4, <2>1, RequeuedType, UpdateRowEffect DEF WriteRetry
  <2>3. Requeued(op[u].seen).status = "pending"
    BY <2>1, RequeuedType
  <2> QED
    BY <1>1, <2>1, <2>2, <2>3, OneRowMoves
<1> QED
  BY <1>2, <1>3, <1>4

LEMMA EnqueueMoves ==
  ASSUME TableTypeOK, NEW b, Enqueue(b)
  PROVE  LedgerMove
<1> DEFINE S == {t \in Tasks : Birth[t] = b /\ row[t].status = "unborn"}
<1>1. Blank("pending").status = "pending"
  BY BlankType DEF StoredStatus, ActiveStatus
<1>2. \A t \in Tasks : row'[t] = IF t \in S THEN Blank("pending") ELSE row[t]
  BY DEF Enqueue
<1>3. \A t \in S : Shown(row[t]) \in {"unborn"} /\ Shown(row'[t]) = "open"
  BY <1>1, <1>2 DEF Shown, ActiveStatus
<1>4. \A t \in Tasks \ S : Shown(row'[t]) = Shown(row[t])
  BY <1>2
<1>5. S \in SUBSET Tasks
  OBVIOUS
<1> HIDE DEF S
<1>6. Moves(S, {"unborn"}, "open")
  BY <1>3, <1>4, <1>5, MovesByRows
<1> QED
  BY <1>5, <1>6 DEF LedgerMove

LEMMA CleanupMoves ==
  ASSUME TableTypeOK, NEW S \in SUBSET Tasks, DeleteFinishedOlderThan(S)
  PROVE  LedgerMove
<1>1. \A t \in Tasks : row'[t] = IF t \in S THEN Blank("deleted") ELSE row[t]
  BY DeleteAllEffect DEF TableTypeOK, DeleteFinishedOlderThan
<1>2. \A t \in S : row[t].status \in ClosedStatus
  BY DEF DeleteFinishedOlderThan, With
<1>3. Blank("deleted").status = "deleted"
  BY BlankType DEF GoneStatus
<1>4. \A t \in S : /\ Shown(row[t]) \in {"open"} \union ClosedStatus
                   /\ Shown(row'[t]) = "deleted"
  BY <1>1, <1>2, <1>3 DEF Shown, ActiveStatus
<1>5. \A t \in Tasks \ S : Shown(row'[t]) = Shown(row[t])
  BY <1>1
<1>6. Moves(S, {"open"} \union ClosedStatus, "deleted")
  BY <1>4, <1>5, MovesByRows
<1> QED
  BY <1>6 DEF LedgerMove

\* The requests, the clock, the inserts and the cleanup loop do to the table only what
\* the ledger allows.
LEMMA TableStepMoves ==
  ASSUME TableTypeOK, TableStep
  PROVE  LedgerMove
<1>1. ASSUME NEW t \in Tasks, BackoffElapses(t) PROVE LedgerMove
  <2>1. row[t] \in Row /\ row \in [Tasks -> Row]
    BY DEF TableTypeOK
  <2>2. \A u \in Tasks : row'[u].status = row[u].status
    BY <1>1, <2>1 DEF BackoffElapses, Row
  <2>3. \A u \in Tasks : Shown(row'[u]) = Shown(row[u])
    BY <2>2 DEF Shown
  <2> QED
    BY <2>3, SameShown DEF LedgerMove
<1>2. ASSUME NEW u \in Users, NEW t \in Tasks, ReadForCancel(u, t) \/ ReadForRetry(u, t)
      PROVE  LedgerMove
  BY <1>2, ReadStep, SameShown DEF LedgerMove
<1>3. UserNext => \/ \E u \in Users, t \in Tasks : ReadForCancel(u, t) \/ ReadForRetry(u, t)
                  \/ \E u \in Users : WriteCancel(u) \/ WriteRetry(u) \/ AbandonOp(u)
                  \/ BatchStep
  BY DEF UserNext, BatchStep
<1> QED
  BY <1>1, <1>2, <1>3, WriteMoves, BatchMoves, EnqueueMoves, CleanupMoves DEF TableStep
=============================================================================
