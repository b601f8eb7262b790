---------------------- MODULE StrmDownloadQueueProofs ----------------------
(***************************************************************************)
(* Proofs about StrmDownloadQueue, for any set of rows, workers and users, *)
(* any batch size, semaphore capacities and retry limit, and any number of *)
(* restarts and failed writes; and about the files its executions write    *)
(* (DownloadToFile), for any number of executions of one target.           *)
(***************************************************************************)
EXTENDS StrmDownloadQueue, StrmTaskTableProofs, DownloadToFile, FiniteSetTheorems

\* A transaction that is open between its SELECT and its UPDATE exists only where the
\* database lets other statements in between.
PickedIsPostgres ==
  AtomicClaim => \A w \in Workers : AtStage(w, {"picked"}) = {}

\* A claim is marked as a whole: the rows of an open transaction are all its worker has.
BatchIsUniform ==
  \A w \in Workers : AtStage(w, {"picked"}) # {} => AtStage(w, {"picked"}) = Held(w)

\* Only rows that were inserted are ever claimed, and no row goes back to before that;
\* the copy of a claimed row says running.
HeldIsBorn ==
  \A w \in Workers : \A t \in Held(w) :
    row[t].status # "unborn" /\ job[w][t].copy.status = "running"

SavedIsOnDisk ==
  \A w \in Workers : AtStage(w, {"saved"}) \subseteq onDisk

\* RunningIsHeld with a holder that has its claim behind it: one whose transaction is
\* still open may roll back and leave the row alone.
RunningHasWorker ==
  \A t \in With({"running"}) :
    \/ phase = "down" \/ resetDue \/ t \in stuck
    \/ \E w \in Workers : t \in Held(w) \ AtStage(w, {"picked"})

IInv ==
  /\ TypeOK
  /\ FinishedIffClosed
  /\ CopiesAreOpen
  /\ PickedIsPostgres
  /\ BatchIsUniform
  /\ HeldIsBorn
  /\ SavedIsOnDisk
  /\ RunningHasWorker

-----------------------------------------------------------------------------
\* Jobs.

\* Every job of the next state is one of this state, with the same copy, and none has
\* become picked.
JobsContinue ==
  \A w \in Workers : \A t \in Tasks :
    \/ job'[w][t] = NoJob
    \/ /\ job[w][t] # NoJob
       /\ job'[w][t].copy = job[w][t].copy
       /\ job'[w][t].stage = "picked" => job[w][t].stage = "picked"

\* finished_at as FinishedIffClosed wants it, on one row.
Consistent(r) == r.fin <=> r.status \in ClosedStatus

LEMMA HeldJob ==
  ASSUME TypeOK, NEW w \in Workers, NEW t \in Held(w)
  PROVE  /\ t \in Tasks
         /\ job[w][t] \in Job
         /\ job[w][t].stage \in JobStage
         /\ job[w][t].copy \in Row
BY DEF TypeOK, Held, Job

LEMMA EndJobEffect ==
  ASSUME TypeOK, NEW w \in Workers, NEW t \in Tasks, EndJob(w, t)
  PROVE  /\ job' \in [Workers -> [Tasks -> Job \union {NoJob}]]
         /\ \A v \in Workers : \A u \in Tasks :
              job'[v][u] = IF v = w /\ u = t THEN NoJob ELSE job[v][u]
BY DEF TypeOK, EndJob

LEMMA SetStageEffect ==
  ASSUME TypeOK, NEW w \in Workers, NEW t \in Held(w), NEW s \in JobStage, SetStage(w, t, s)
  PROVE  /\ job' \in [Workers -> [Tasks -> Job \union {NoJob}]]
         /\ \A v \in Workers : \A u \in Tasks :
              v # w \/ u # t => job'[v][u] = job[v][u]
         /\ job'[w][t] # NoJob
         /\ job'[w][t].stage = s
         /\ job'[w][t].copy = job[w][t].copy
<1>1. t \in Tasks /\ job[w][t] \in Job
  BY HeldJob
<1> DEFINE new == [job[w][t] EXCEPT !.stage = s]
<1>2. new \in Job /\ new.stage = s /\ new.copy = job[w][t].copy
  BY <1>1 DEF Job
<1>3. job' = [job EXCEPT ![w] = [job[w] EXCEPT ![t] = new]]
  BY DEF SetStage
<1> HIDE DEF new
<1>4. new # NoJob
  BY <1>2 DEF JobStage, NoJob, SlotStage
<1> QED
  BY <1>1, <1>2, <1>3, <1>4 DEF TypeOK

\* The jobs of w at one stage go to another, all others stay as they are.
Advanced(w, from, to) ==
  /\ job' \in [Workers -> [Tasks -> Job \union {NoJob}]]
  /\ \A v \in Workers : \A u \in Tasks :
       v # w \/ u \notin AtStage(w, {from}) => job'[v][u] = job[v][u]
  /\ \A u \in AtStage(w, {from}) : /\ job'[w][u] # NoJob
                                   /\ job'[w][u].stage = to
                                   /\ job'[w][u].copy = job[w][u].copy

LEMMA AdvanceEffect ==
  ASSUME TypeOK, NEW w \in Workers, NEW from \in JobStage, NEW to \in JobStage,
         job' = [job EXCEPT ![w] = Advance(w, from, to)]
  PROVE  Advanced(w, from, to)
<1> DEFINE new(u) == [job[w][u] EXCEPT !.stage = to]
<1>1. \A u \in AtStage(w, {from}) : u \in Tasks /\ job[w][u] \in Job
  BY HeldJob DEF AtStage
<1>2. \A u \in AtStage(w, {from}) :
        /\ new(u) \in Job
        /\ new(u).stage = to
        /\ new(u).copy = job[w][u].copy
        /\ new(u) # NoJob
  <2> TAKE u \in AtStage(w, {from})
  <2>1. new(u) \in Job /\ new(u).stage = to /\ new(u).copy = job[w][u].copy
    BY <1>1 DEF Job
  <2> HIDE DEF new
  <2>2. new(u) # NoJob
    BY <2>1 DEF JobStage, NoJob, SlotStage
  <2> QED
    BY <2>1, <2>2
<1>3. Advance(w, from, to) = [t \in Tasks |-> IF t \in AtStage(w, {from}) THEN new(t) ELSE job[w][t]]
  BY DEF Advance
<1> HIDE DEF new
<1>4. Advance(w, from, to) \in [Tasks -> Job \union {NoJob}]
  <2>1. \A t \in Tasks : job[w][t] \in Job \union {NoJob}
    BY DEF TypeOK
  <2>2. \A t \in Tasks : (IF t \in AtStage(w, {from}) THEN new(t) ELSE job[w][t]) \in Job \union {NoJob}
    BY <1>2, <2>1
  <2> QED
    BY <1>3, <2>2
<1> QED
  BY <1>1, <1>2, <1>3, <1>4 DEF TypeOK, Advanced

\* What does not depend on the table but on the jobs, and is kept whenever jobs only go
\* on or end.
LEMMA ContinueKeeps ==
  ASSUME IInv, JobsContinue, UNCHANGED database,
         \A t \in Tasks : row'[t].status = "unborn" => row[t].status = "unborn"
  PROVE  CopiesAreOpen' /\ PickedIsPostgres' /\ HeldIsBorn'
<1>1. AtomicClaim' <=> AtomicClaim
  BY DEF AtomicClaim
<1>2. \A w \in Workers : \A t \in Held(w)' :
        /\ t \in Tasks
        /\ t \in Held(w)
        /\ job'[w][t].copy = job[w][t].copy
        /\ job'[w][t].stage = "picked" => job[w][t].stage = "picked"
  BY DEF JobsContinue, Held
<1>3. CopiesAreOpen'
  BY <1>1, <1>2 DEF IInv, CopiesAreOpen
<1>4. \A w \in Workers : AtStage(w, {"picked"})' \subseteq AtStage(w, {"picked"})
  BY <1>2 DEF AtStage
<1>5. PickedIsPostgres'
  BY <1>1, <1>4 DEF IInv, PickedIsPostgres
<1>6. HeldIsBorn'
  BY <1>2 DEF IInv, HeldIsBorn
<1> QED
  BY <1>3, <1>5, <1>6

-----------------------------------------------------------------------------
\* The two shapes of a step of one goroutine.

\* A job ends: the row is no longer running, or was left behind by a failed write.
LEMMA JobEndKeeps ==
  ASSUME IInv, NEW w \in Workers, NEW t \in Held(w), job[w][t].stage # "picked",
         EndJob(w, t),
         UNCHANGED <<op, userOps, database, onDisk, phase, resetDue, starts, dead>>,
         cooling' \in BOOLEAN, faults' \in 0..MaxFaults,
         stuck \subseteq stuck', stuck' \subseteq Tasks,
         row' \in [Tasks -> Row],
         \A u \in Tasks : u # t => row'[u] = row[u],
         \/ row'[t] = row[t] /\ (row[t].status = "running" => t \in stuck')
         \/ /\ row'[t].status \in {"pending", "done", "failed"}
            /\ AtomicClaim => Consistent(row'[t])
  PROVE  IInv'
<1>1. TypeOK /\ t \in Tasks
  BY HeldJob DEF IInv
<1>2. /\ job' \in [Workers -> [Tasks -> Job \union {NoJob}]]
      /\ \A v \in Workers : \A u \in Tasks :
           job'[v][u] = IF v = w /\ u = t THEN NoJob ELSE job[v][u]
  BY <1>1, EndJobEffect
<1>3. TypeOK'
  BY <1>1, <1>2 DEF TypeOK, TableTypeOK
<1>4. JobsContinue
  BY <1>2 DEF JobsContinue
<1>5. CopiesAreOpen' /\ PickedIsPostgres' /\ HeldIsBorn'
  BY <1>4, ContinueKeeps
<1>6. FinishedIffClosed'
  BY <1>1 DEF IInv, FinishedIffClosed, Consistent, AtomicClaim
<1>7. BatchIsUniform'
  <2> SUFFICES ASSUME NEW v \in Workers, AtStage(v, {"picked"})' # {}
               PROVE  AtStage(v, {"picked"})' = Held(v)'
    BY DEF BatchIsUniform
  <2>1. AtStage(v, {"picked"}) # {}
    BY <1>2 DEF AtStage, Held
  <2>2. AtStage(v, {"picked"}) = Held(v)
    BY <2>1 DEF IInv, BatchIsUniform
  <2>3. v # w
    BY <2>2 DEF AtStage
  <2> QED
    BY <1>2, <2>2, <2>3 DEF AtStage, Held
<1>8. SavedIsOnDisk'
  BY <1>2 DEF IInv, SavedIsOnDisk, AtStage, Held
<1>9. RunningHasWorker'
  <2> SUFFICES ASSUME NEW u \in Tasks, row'[u].status = "running", phase # "down", ~resetDue, u \notin stuck'
               PROVE  \E v \in Workers : u \in Held(v)' \ AtStage(v, {"picked"})'
    BY DEF RunningHasWorker, With
  <2>1. u # t
    OBVIOUS
  <2>2. u \in With({"running"}) /\ u \notin stuck
    BY <2>1 DEF With
  <2>3. PICK v \in Workers : u \in Held(v) \ AtStage(v, {"picked"})
    BY <2>2 DEF IInv, RunningHasWorker
  <2>4. job'[v][u] = job[v][u]
    BY <1>2, <2>1
  <2>5. u \in Held(v)' \ AtStage(v, {"picked"})'
    BY <2>3, <2>4 DEF Held, AtStage
  <2> QED
    BY <2>5
<1> QED
  BY <1>3, <1>5, <1>6, <1>7, <1>8, <1>9 DEF IInv

\* A job goes on to its next stage, perhaps writing its copy to the row.
LEMMA StageKeeps ==
  ASSUME IInv, NEW w \in Workers, NEW t \in Held(w), job[w][t].stage # "picked",
         NEW s \in JobStage \ {"picked"}, SetStage(w, t, s),
         UNCHANGED <<op, userOps, database, procVars>>,
         onDisk \subseteq onDisk', onDisk' \subseteq Tasks, s = "saved" => t \in onDisk',
         row' \in {row, UpdateRow(t, job[w][t].copy)}
  PROVE  IInv'
<1>1. TypeOK /\ t \in Tasks /\ job[w][t].copy \in Row
  BY HeldJob DEF IInv
<1>2. /\ job' \in [Workers -> [Tasks -> Job \union {NoJob}]]
      /\ \A v \in Workers : \A u \in Tasks : v # w \/ u # t => job'[v][u] = job[v][u]
      /\ job'[w][t] # NoJob
      /\ job'[w][t].stage = s
      /\ job'[w][t].copy = job[w][t].copy
  BY <1>1, SetStageEffect
<1>3. /\ row' \in [Tasks -> Row]
      /\ \A u \in Tasks : u # t => row'[u] = row[u]
      /\ \/ row'[t] = row[t]
         \/ row[t].status \in StoredStatus /\ row'[t] = job[w][t].copy
  BY <1>1, UpdateRowEffect DEF TypeOK, TableTypeOK
<1>4. TypeOK'
  BY <1>1, <1>2, <1>3 DEF TypeOK, TableTypeOK, procVars
<1>5. AtomicClaim => job[w][t].copy.status = "running" /\ ~job[w][t].copy.fin
  BY DEF IInv, CopiesAreOpen
<1>6. JobsContinue
  <2>1. job[w][t] # NoJob
    BY DEF Held
  <2>2. ASSUME NEW v \in Workers, NEW u \in Tasks
        PROVE  \/ job'[v][u] = NoJob
               \/ /\ job[v][u] # NoJob
                  /\ job'[v][u].copy = job[v][u].copy
                  /\ job'[v][u].stage = "picked" => job[v][u].stage = "picked"
    BY <1>2, <2>1
  <2> QED
    BY <2>2 DEF JobsContinue
<1>7. \A u \in Tasks : row'[u].status = "unborn" => row[u].status = "unborn"
  BY <1>1, <1>3 DEF IInv, HeldIsBorn
<1>8. CopiesAreOpen' /\ PickedIsPostgres' /\ HeldIsBorn'
  BY <1>6, <1>7, ContinueKeeps
<1>9. FinishedIffClosed'
  BY <1>1, <1>3, <1>5 DEF IInv, FinishedIffClosed, AtomicClaim, ClosedStatus
<1>10. BatchIsUniform'
  <2> SUFFICES ASSUME NEW v \in Workers, AtStage(v, {"picked"})' # {}
               PROVE  AtStage(v, {"picked"})' = Held(v)'
    BY DEF BatchIsUniform
  <2>1. AtStage(v, {"picked"}) # {}
    BY <1>2 DEF AtStage, Held
  <2>2. AtStage(v, {"picked"}) = Held(v)
    BY <2>1 DEF IInv, BatchIsUniform
  <2>3. v # w
    BY <2>2 DEF AtStage
  <2> QED
    BY <1>2, <2>2, <2>3 DEF AtStage, Held
<1>11. SavedIsOnDisk'
  BY <1>2 DEF IInv, SavedIsOnDisk, AtStage, Held
<1>12. RunningHasWorker'
  <2> SUFFICES ASSUME NEW u \in Tasks, row'[u].status = "running", phase # "down", ~resetDue, u \notin stuck
               PROVE  \E v \in Workers : u \in Held(v)' \ AtStage(v, {"picked"})'
    BY DEF RunningHasWorker, With, procVars
  <2>1. CASE u = t
    BY <1>1, <1>2, <2>1 DEF Held, AtStage
  <2>2. CASE u # t
    <3>1. u \in With({"running"})
      BY <1>3, <2>2 DEF With
    <3>2. PICK v \in Workers : u \in Held(v) \ AtStage(v, {"picked"})
      BY <3>1 DEF IInv, RunningHasWorker
    <3>3. job'[v][u] = job[v][u]
      BY <1>2, <2>2
    <3> QED
      BY <3>2, <3>3 DEF Held, AtStage
  <2> QED
    BY <2>1, <2>2
<1> QED
  BY <1>4, <1>8, <1>9, <1>10, <1>11, <1>12 DEF IInv

-----------------------------------------------------------------------------
\* One goroutine: JobNext.

\* requeueDownloadTask leaves the row pending, and not finished unless the copy is.
LEMMA RequeueKeeps ==
  ASSUME IInv, NEW w \in Workers, NEW t \in Held(w), job[w][t].stage # "picked", Requeue(w, t)
  PROVE  IInv'
<1> DEFINE new == [job[w][t].copy EXCEPT !.status = "pending",
                                         !.backoff = t \in Tasks115 /\ cooling]
<1>1. TypeOK /\ t \in Tasks /\ job[w][t].copy \in Row /\ row \in [Tasks -> Row]
  BY HeldJob DEF IInv, TypeOK, TableTypeOK
<1>2. new \in Row /\ new.status = "pending" /\ new.fin = job[w][t].copy.fin
  BY <1>1 DEF Row, StoredStatus, ActiveStatus
<1>3. row' = UpdateRow(t, new)
  BY DEF Requeue, RequeueWrite
<1> HIDE DEF new
<1>4. /\ row' \in [Tasks -> Row]
      /\ \A u \in Tasks : u # t => row'[u] = row[u]
      /\ row'[t] = IF row[t].status \in StoredStatus THEN new ELSE row[t]
  BY <1>1, <1>2, <1>3, UpdateRowEffect
<1>5. AtomicClaim => ~job[w][t].copy.fin
  BY DEF IInv, CopiesAreOpen
<1>6. AtomicClaim => Consistent(new)
  BY <1>2, <1>5 DEF Consistent, ClosedStatus
<1>7. row[t].status \notin StoredStatus => row[t].status # "running"
  BY DEF StoredStatus, ActiveStatus
<1>8. \/ row'[t] = row[t] /\ row[t].status # "running"
      \/ row'[t] = new
  BY <1>4, <1>7
<1> QED
  BY <1>1, <1>2, <1>4, <1>6, <1>8, JobEndKeeps DEF Requeue, procVars, TypeOK

\* A job closes its row, conditionally.
LEMMA FinishKeeps ==
  ASSUME IInv, NEW w \in Workers, NEW t \in Held(w), job[w][t].stage # "picked",
         NEW new \in Row, new.status \in {"pending", "done", "failed"}, Consistent(new),
         row' = UpdateIfRunning(t, new), EndJob(w, t), cooling' \in BOOLEAN,
         UNCHANGED <<op, userOps, database, onDisk, phase, resetDue, starts, faults, dead, stuck>>
  PROVE  IInv'
<1>1. TypeOK /\ t \in Tasks /\ row \in [Tasks -> Row]
  BY HeldJob DEF IInv, TypeOK, TableTypeOK
<1>2. /\ row' \in [Tasks -> Row]
      /\ \A u \in Tasks : u # t => row'[u] = row[u]
      /\ row'[t] = IF row[t].status = "running" THEN new ELSE row[t]
  BY <1>1, UpdateIfRunningEffect
<1>3. \/ row'[t] = row[t] /\ row[t].status # "running"
      \/ row'[t] = new
  BY <1>2
<1> QED
  BY <1>1, <1>2, <1>3, JobEndKeeps DEF TypeOK

LEMMA AtStageHeld ==
  ASSUME NEW w \in Workers, NEW s, NEW t \in AtStage(w, s)
  PROVE  t \in Held(w) /\ job[w][t].stage \in s
BY DEF AtStage

LEMMA JobStep ==
  ASSUME IInv, NEW w \in Workers, NEW t \in Tasks, JobNext(w, t)
  PROVE  IInv'
<1>t. TypeOK /\ cooling \in BOOLEAN /\ faults \in 0..MaxFaults /\ onDisk \subseteq Tasks
      /\ stuck \subseteq Tasks /\ row \in [Tasks -> Row] /\ MaxFaults \in Nat
  BY DownloadAssumption DEF IInv, TypeOK, TableTypeOK
<1>1. CASE RequeueCooling(w, t)
  <2>1. t \in Held(w) /\ job[w][t].stage # "picked"
    BY <1>1, AtStageHeld DEF RequeueCooling
  <2> QED
    BY <1>1, <2>1, RequeueKeeps DEF RequeueCooling
<1>2. CASE GiveUpSlot(w, t)
  <2>1. t \in Held(w) /\ job[w][t].stage # "picked"
    BY <1>2, AtStageHeld DEF GiveUpSlot
  <2> QED
    BY <1>2, <2>1, RequeueKeeps DEF GiveUpSlot
<1>3. CASE Keep(w, t)
  <2>1. t \in Held(w) /\ job[w][t].stage # "picked"
    BY <1>3, AtStageHeld DEF Keep
  <2> QED
    BY <1>t, <1>3, <2>1, StageKeeps DEF Keep, JobStage, tableVars
<1>4. CASE AcquireSlot(w, t)
  <2>1. t \in Held(w) /\ job[w][t].stage # "picked"
    BY <1>4, AtStageHeld DEF AcquireSlot
  <2> QED
    BY <1>t, <1>4, <2>1, StageKeeps DEF AcquireSlot, JobStage, SlotStage, tableVars
<1>5. CASE SanitizePath(w, t)
  <2>1. t \in Held(w) /\ job[w][t].stage # "picked"
    BY <1>5, AtStageHeld DEF SanitizePath
  <2>2. row' \in {row, UpdateRow(t, job[w][t].copy)}
    BY <1>5 DEF SanitizePath
  <2> QED
    BY <1>t, <1>5, <2>1, <2>2, StageKeeps DEF SanitizePath, JobStage, SlotStage
<1>6. CASE Download(w, t)
  <2>1. t \in Held(w) /\ job[w][t].stage # "picked"
    BY <1>6, AtStageHeld DEF Download
  <2> QED
    BY <1>t, <1>6, <2>1, StageKeeps DEF Download, JobStage, SlotStage, tableVars
<1>7. ASSUME NEW st \in {"done", "failed"}, NEW s \in {"working", "saved"},
             t \in AtStage(w, {s}), row' = UpdateIfRunning(t, Finished(t, st)), EndJob(w, t),
             UNCHANGED <<op, userOps, database, onDisk, procVars>>
      PROVE  IInv'
  <2>1. t \in Held(w) /\ job[w][t].stage # "picked"
    BY <1>7, AtStageHeld
  <2>2. /\ Finished(t, st) \in Row
        /\ Finished(t, st).status = st
        /\ Finished(t, st).fin = TRUE
    BY <1>t, FinishedType DEF ClosedStatus
  <2>3. Consistent(Finished(t, st))
    BY <2>2 DEF Consistent, ClosedStatus
  <2> QED
    BY <1>t, <1>7, <2>1, <2>2, <2>3, FinishKeeps DEF procVars
<1>8. CASE FinishDone(w, t)
  BY <1>7, <1>8 DEF FinishDone
<1>9. CASE FinishFailed(w, t)
  BY <1>7, <1>9 DEF FinishFailed
<1>10. ASSUME NEW blocked \in BOOLEAN, FailWithRetry(w, t, blocked)
       PROVE  IInv'
  <2>1. t \in Held(w) /\ job[w][t].stage # "picked"
    BY <1>10, AtStageHeld DEF FailWithRetry, SlotStage
  <2>2. job[w][t].copy \in Row
    BY <1>t, <2>1, HeldJob
  <2>3. /\ AfterFailure(job[w][t].copy) \in Row
        /\ AfterFailure(job[w][t].copy).status \in {"pending", "failed"}
        /\ AfterFailure(job[w][t].copy).fin <=> AfterFailure(job[w][t].copy).status = "failed"
    BY <2>2, AfterFailureType
  <2>4. Consistent(AfterFailure(job[w][t].copy))
    BY <2>3 DEF Consistent, ClosedStatus
  <2>5. cooling' \in BOOLEAN
    BY <1>10 DEF FailWithRetry
  <2> QED
    BY <1>10, <2>1, <2>3, <2>4, <2>5, FinishKeeps DEF FailWithRetry
<1>11. CASE LoseWrite(w, t)
  <2>1. t \in Held(w) /\ job[w][t].stage # "picked"
    BY <1>11, AtStageHeld DEF LoseWrite, SlotStage
  <2>2. faults' \in 0..MaxFaults
    BY <1>t, <1>11 DEF LoseWrite
  <2>3. stuck \subseteq stuck' /\ stuck' \subseteq Tasks
    BY <1>t, <1>11 DEF LoseWrite
  <2>4. row[t].status = "running" => t \in stuck'
    BY <1>11 DEF LoseWrite, With
  <2> QED
    BY <1>t, <1>11, <2>1, <2>2, <2>3, <2>4, JobEndKeeps DEF LoseWrite, tableVars
<1> QED
  BY <1>1, <1>2, <1>3, <1>4, <1>5, <1>6, <1>8, <1>9, <1>10, <1>11 DEF JobNext

-----------------------------------------------------------------------------
\* The claim.

LEMMA PickEffect ==
  ASSUME TypeOK, NEW w \in Workers, NEW S \in SUBSET Tasks, NEW s \in {"picked", "claimed"},
         Pick(w, S, s)
  PROVE  /\ job' \in [Workers -> [Tasks -> Job \union {NoJob}]]
         /\ \A v \in Workers : v # w => job'[v] = job[v]
         /\ \A t \in Tasks \ S : job'[w][t] = NoJob
         /\ \A t \in S : /\ job'[w][t] # NoJob
                         /\ job'[w][t].stage = s
                         /\ job'[w][t].copy = Running(row[t])
         /\ \A t \in S : row[t].status = "pending"
         /\ Held(w) = {}
<1> DEFINE new(t) == [stage |-> s, copy |-> Running(row[t])]
<1>1. \A t \in S : new(t) \in Job /\ new(t) # NoJob /\ new(t).stage = s /\ new(t).copy = Running(row[t])
  <2> TAKE t \in S
  <2>1. Running(row[t]) \in Row
    BY RunningType DEF TypeOK, TableTypeOK
  <2>2. new(t) \in Job /\ new(t).stage = s /\ new(t).copy = Running(row[t])
    BY <2>1 DEF Job, JobStage
  <2> HIDE DEF new
  <2>3. new(t) # NoJob
    BY <2>2 DEF NoJob
  <2> QED
    BY <2>2, <2>3
<1> DEFINE jobs == [t \in Tasks |-> IF t \in S THEN new(t) ELSE NoJob]
<1>2. job' = [job EXCEPT ![w] = jobs]
  BY DEF Pick
<1> HIDE DEF new
<1>3. jobs \in [Tasks -> Job \union {NoJob}]
  BY <1>1
<1>4. /\ \A t \in Tasks \ S : jobs[t] = NoJob
      /\ \A t \in S : jobs[t] = new(t)
  OBVIOUS
<1> HIDE DEF jobs
<1>5. job' \in [Workers -> [Tasks -> Job \union {NoJob}]] /\ job'[w] = jobs
  BY <1>2, <1>3 DEF TypeOK
<1>6. \A v \in Workers : v # w => job'[v] = job[v]
  BY <1>2 DEF TypeOK
<1>7. \A t \in S : row[t].status = "pending"
  BY DEF Pick, OldestClaimable, Claimable, With
<1> QED
  BY <1>1, <1>4, <1>5, <1>6, <1>7 DEF Pick

\* The rows of the claim as the claim has read them.
LEMMA PickKeeps ==
  ASSUME IInv, NEW w \in Workers, NEW S \in SUBSET Tasks, NEW s \in {"picked", "claimed"},
         Pick(w, S, s), s = "picked" <=> ~AtomicClaim,
         row' \in [Tasks -> Row],
         \A t \in Tasks \ S : row'[t] = row[t],
         \A t \in S : \/ row'[t] = row[t]
                      \/ AtomicClaim /\ row'[t] = Running(row[t])
  PROVE  IInv'
<1>1. TypeOK
  BY DEF IInv
<1>2. /\ job' \in [Workers -> [Tasks -> Job \union {NoJob}]]
      /\ \A v \in Workers : v # w => job'[v] = job[v]
      /\ \A t \in Tasks \ S : job'[w][t] = NoJob
      /\ \A t \in S : /\ job'[w][t] # NoJob
                      /\ job'[w][t].stage = s
                      /\ job'[w][t].copy = Running(row[t])
      /\ \A t \in S : row[t].status = "pending"
      /\ Held(w) = {}
  BY <1>1, PickEffect
<1>3. UNCHANGED <<op, userOps, database, onDisk, procVars>>
  BY DEF Pick
<1>4. AtomicClaim' <=> AtomicClaim
  BY <1>3 DEF AtomicClaim
<1>5. \A t \in Tasks : /\ row[t] \in Row
                       /\ Running(row[t]).status = "running"
                       /\ Running(row[t]).fin = row[t].fin
                       /\ Running(row[t]).retry = row[t].retry
  BY <1>1, RunningType DEF TypeOK, TableTypeOK
<1>6. TypeOK'
  BY <1>1, <1>2, <1>3 DEF TypeOK, TableTypeOK, procVars
<1>7. FinishedIffClosed'
  <2> SUFFICES ASSUME AtomicClaim, NEW t \in Tasks
               PROVE  row'[t].fin <=> row'[t].status \in ClosedStatus
    BY <1>4 DEF FinishedIffClosed
  <2>1. row[t].fin <=> row[t].status \in ClosedStatus
    BY DEF IInv, FinishedIffClosed
  <2>2. CASE row'[t] = row[t]
    BY <2>1, <2>2
  <2>3. CASE t \in S /\ row'[t] = Running(row[t])
    BY <1>2, <1>5, <2>1, <2>3 DEF ClosedStatus
  <2> QED
    BY <2>2, <2>3
<1>8. \A t \in Held(w)' : t \in S
  BY <1>2 DEF Held
<1>9. \A v \in Workers : v # w => Held(v)' = Held(v) /\ \A x : AtStage(v, x)' = AtStage(v, x)
  BY <1>2 DEF Held, AtStage
<1>10. CopiesAreOpen'
  <2> SUFFICES ASSUME AtomicClaim, NEW v \in Workers, NEW t \in Held(v)'
               PROVE  /\ job'[v][t].copy.status = "running"
                      /\ ~job'[v][t].copy.fin
                      /\ job'[v][t].copy.retry <= MaxRetry
    BY <1>4 DEF CopiesAreOpen
  <2>1. CASE v # w
    BY <1>2, <1>9, <2>1 DEF IInv, CopiesAreOpen
  <2>2. CASE v = w
    <3>1. t \in S /\ job'[w][t].copy = Running(row[t])
      BY <1>2, <1>8, <2>2
    <3>2. ~row[t].fin
      BY <1>2, <3>1 DEF IInv, FinishedIffClosed, ClosedStatus
    <3>3. row[t].retry \in 0..MaxRetry /\ MaxRetry \in Nat
      BY <1>5, <3>1, RowFields, TableAssumption
    <3>4. row[t].retry <= MaxRetry
      BY <3>3
    <3> QED
      BY <1>5, <2>2, <3>1, <3>2, <3>4
  <2> QED
    BY <2>1, <2>2
<1>11. PickedIsPostgres'
  BY <1>2, <1>4, <1>8, <1>9 DEF IInv, PickedIsPostgres, AtStage
<1>12. BatchIsUniform'
  <2> SUFFICES ASSUME NEW v \in Workers, AtStage(v, {"picked"})' # {}
               PROVE  AtStage(v, {"picked"})' = Held(v)'
    BY DEF BatchIsUniform
  <2>1. CASE v # w
    BY <1>9, <2>1 DEF IInv, BatchIsUniform
  <2>2. CASE v = w
    BY <1>2, <1>8, <2>2 DEF AtStage
  <2> QED
    BY <2>1, <2>2
<1>13. \A t \in Tasks : row'[t].status = "unborn" => row[t].status = "unborn"
  BY <1>5
<1>14. HeldIsBorn'
  <2> SUFFICES ASSUME NEW v \in Workers, NEW t \in Held(v)'
               PROVE  row'[t].status # "unborn" /\ job'[v][t].copy.status = "running"
    BY DEF HeldIsBorn
  <2>1. t \in Tasks
    BY DEF Held
  <2>2. CASE v # w
    BY <1>2, <1>9, <1>13, <2>1, <2>2 DEF IInv, HeldIsBorn
  <2>3. CASE v = w
    BY <1>2, <1>5, <1>8, <1>13, <2>1, <2>3
  <2> QED
    BY <2>2, <2>3
<1>15. SavedIsOnDisk'
  <2> SUFFICES ASSUME NEW v \in Workers
               PROVE  AtStage(v, {"saved"})' \subseteq onDisk
    BY <1>3 DEF SavedIsOnDisk
  <2>1. CASE v # w
    BY <1>9, <2>1 DEF IInv, SavedIsOnDisk
  <2>2. CASE v = w
    BY <1>2, <1>8, <2>2 DEF AtStage
  <2> QED
    BY <2>1, <2>2
<1>16. RunningHasWorker'
  <2> SUFFICES ASSUME NEW t \in Tasks, row'[t].status = "running", phase # "down", ~resetDue, t \notin stuck
               PROVE  \E v \in Workers : t \in Held(v)' \ AtStage(v, {"picked"})'
    BY <1>3 DEF RunningHasWorker, With, procVars
  <2>1. CASE row'[t] = row[t]
    <3>1. PICK v \in Workers : t \in Held(v) \ AtStage(v, {"picked"})
      BY <2>1 DEF IInv, RunningHasWorker, With
    <3>2. v # w
      BY <1>2, <3>1
    <3> QED
      BY <1>9, <3>1, <3>2
  <2>2. CASE row'[t] # row[t]
    <3>1. t \in S /\ s = "claimed"
      BY <2>2
    <3>2. t \in Held(w)' \ AtStage(w, {"picked"})'
      BY <1>2, <3>1 DEF Held, AtStage
    <3> QED
      BY <3>2
  <2> QED
    BY <2>1, <2>2
<1> QED
  BY <1>6, <1>7, <1>10, <1>11, <1>12, <1>14, <1>15, <1>16 DEF IInv

LEMMA ClaimStep ==
  ASSUME IInv, NEW w \in Workers, NEW S \in SUBSET Tasks, Claim(w, S) \/ ClaimSelect(w, S)
  PROVE  IInv'
<1>1. row \in [Tasks -> Row]
  BY DEF IInv, TypeOK, TableTypeOK
<1>2. CASE Claim(w, S)
  <2>1. /\ row' \in [Tasks -> Row]
        /\ \A t \in Tasks : row'[t] = IF t \in S /\ row[t].status \in StoredStatus
                                      THEN Running(row[t]) ELSE row[t]
    BY <1>1, <1>2, MarkRunningEffect DEF Claim
  <2>2. AtomicClaim /\ Pick(w, S, "claimed")
    BY <1>2 DEF Claim
  <2>3. \A t \in S : row'[t] = row[t] \/ (AtomicClaim /\ row'[t] = Running(row[t]))
    BY <2>1, <2>2
  <2>4. \A t \in Tasks \ S : row'[t] = row[t]
    BY <2>1
  <2> QED
    BY <2>1, <2>2, <2>3, <2>4, PickKeeps
<1>3. CASE ClaimSelect(w, S)
  BY <1>1, <1>3, PickKeeps DEF ClaimSelect
<1> QED
  BY <1>2, <1>3

\* The rows of a batch go on together: a transaction that commits, links resolved.
LEMMA AdvanceKeeps ==
  ASSUME IInv, NEW w \in Workers,
         NEW from \in {"picked", "cleared"}, NEW to \in {"claimed", "waiting"},
         job' = [job EXCEPT ![w] = Advance(w, from, to)],
         UNCHANGED <<op, userOps, database, onDisk, phase, resetDue, starts, faults, dead, stuck>>,
         cooling' \in BOOLEAN,
         row' \in [Tasks -> Row],
         \A t \in Tasks : \/ row'[t] = row[t]
                          \/ /\ t \in AtStage(w, {from}) /\ ~AtomicClaim
                             /\ row'[t].status = "running"
  PROVE  IInv'
<1>1. TypeOK
  BY DEF IInv
<1>2. /\ job' \in [Workers -> [Tasks -> Job \union {NoJob}]]
      /\ \A v \in Workers : \A u \in Tasks :
           v # w \/ u \notin AtStage(w, {from}) => job'[v][u] = job[v][u]
      /\ \A u \in AtStage(w, {from}) : /\ job'[w][u] # NoJob
                                       /\ job'[w][u].stage = to
                                       /\ job'[w][u].copy = job[w][u].copy
  <2>1. from \in JobStage /\ to \in JobStage
    BY DEF JobStage
  <2>2. Advanced(w, from, to)
    BY <1>1, <2>1, AdvanceEffect
  <2> QED
    BY <2>2 DEF Advanced
<1>3. TypeOK'
  BY <1>1, <1>2 DEF TypeOK, TableTypeOK
<1>4. JobsContinue
  <2> SUFFICES ASSUME NEW v \in Workers, NEW u \in Tasks, job'[v][u] # NoJob
               PROVE  /\ job[v][u] # NoJob
                      /\ job'[v][u].copy = job[v][u].copy
                      /\ job'[v][u].stage = "picked" => job[v][u].stage = "picked"
    BY DEF JobsContinue
  <2>1. CASE v = w /\ u \in AtStage(w, {from})
    BY <1>2, <2>1 DEF AtStage, Held
  <2>2. CASE v # w \/ u \notin AtStage(w, {from})
    BY <1>2, <2>2
  <2> QED
    BY <2>1, <2>2
<1>5. \A t \in Tasks : row'[t].status = "unborn" => row[t].status = "unborn"
  OBVIOUS
<1>6. CopiesAreOpen' /\ PickedIsPostgres' /\ HeldIsBorn'
  BY <1>4, <1>5, ContinueKeeps
<1>7. FinishedIffClosed'
  BY DEF IInv, FinishedIffClosed, AtomicClaim
<1>8. \A v \in Workers : v # w => Held(v)' = Held(v) /\ \A x : AtStage(v, x)' = AtStage(v, x)
  BY <1>2 DEF Held, AtStage
<1>9. \A u \in Held(w) \ AtStage(w, {from}) : job'[w][u] = job[w][u]
  BY <1>2 DEF Held
<1>10. Held(w)' = Held(w)
  BY <1>2 DEF Held, AtStage
<1>11. BatchIsUniform'
  <2> SUFFICES ASSUME NEW v \in Workers, AtStage(v, {"picked"})' # {}
               PROVE  AtStage(v, {"picked"})' = Held(v)'
    BY DEF BatchIsUniform
  <2>1. CASE v # w
    BY <1>8, <2>1 DEF IInv, BatchIsUniform
  <2>2. CASE v = w
    <3>1. PICK u \in Held(w) : job'[w][u].stage = "picked"
      BY <1>10, <2>2 DEF AtStage
    <3>2. u \notin AtStage(w, {from})
      BY <1>2, <3>1
    <3>3. job[w][u].stage = "picked"
      BY <1>9, <3>1, <3>2
    <3>4. AtStage(w, {"picked"}) = Held(w)
      BY <3>1, <3>3 DEF IInv, BatchIsUniform, AtStage
    <3>5. from # "picked"
      BY <3>1, <3>2, <3>3 DEF AtStage
    <3>6. AtStage(w, {from}) = {}
      BY <3>4, <3>5 DEF AtStage
    <3> QED
      BY <1>9, <1>10, <2>2, <3>4, <3>6 DEF AtStage
  <2> QED
    BY <2>1, <2>2
<1>12. SavedIsOnDisk'
  <2> SUFFICES ASSUME NEW v \in Workers
               PROVE  AtStage(v, {"saved"})' \subseteq onDisk
    BY DEF SavedIsOnDisk
  <2>1. CASE v # w
    BY <1>8, <2>1 DEF IInv, SavedIsOnDisk
  <2>2. CASE v = w
    BY <1>2, <1>9, <1>10, <2>2 DEF IInv, SavedIsOnDisk, AtStage
  <2> QED
    BY <2>1, <2>2
<1>13. RunningHasWorker'
  <2> SUFFICES ASSUME NEW t \in Tasks, row'[t].status = "running", phase # "down", ~resetDue, t \notin stuck
               PROVE  \E v \in Workers : t \in Held(v)' \ AtStage(v, {"picked"})'
    BY DEF RunningHasWorker, With
  <2>1. CASE t \in AtStage(w, {from})
    <3>1. t \in Held(w)' \ AtStage(w, {"picked"})'
      BY <1>2, <2>1 DEF AtStage, Held
    <3> QED
      BY <3>1
  <2>2. CASE t \notin AtStage(w, {from})
    <3>1. PICK v \in Workers : t \in Held(v) \ AtStage(v, {"picked"})
      BY <2>2 DEF IInv, RunningHasWorker, With
    <3>2. job'[v][t] = job[v][t]
      BY <1>2, <2>2
    <3> QED
      BY <3>1, <3>2 DEF Held, AtStage
  <2> QED
    BY <2>1, <2>2
<1> QED
  BY <1>3, <1>6, <1>7, <1>11, <1>12, <1>13 DEF IInv

LEMMA ClaimMarkStep ==
  ASSUME IInv, NEW w \in Workers, ClaimMark(w)
  PROVE  IInv'
<1>1. row \in [Tasks -> Row] /\ cooling \in BOOLEAN
  BY DEF IInv, TypeOK, TableTypeOK
<1>2. ~AtomicClaim
  BY DEF IInv, PickedIsPostgres, ClaimMark
<1>3. /\ row' \in [Tasks -> Row]
      /\ \A t \in Tasks : row'[t] = IF t \in AtStage(w, {"picked"}) /\ row[t].status \in StoredStatus
                                    THEN Running(row[t]) ELSE row[t]
  BY <1>1, MarkRunningEffect DEF ClaimMark
<1>4. \A t \in Tasks : Running(row[t]).status = "running"
  BY <1>1, RunningType
<1>5. \A t \in Tasks : \/ row'[t] = row[t]
                       \/ /\ t \in AtStage(w, {"picked"}) /\ ~AtomicClaim
                          /\ row'[t].status = "running"
  BY <1>2, <1>3, <1>4
<1> QED
  BY <1>1, <1>3, <1>5, AdvanceKeeps DEF ClaimMark, procVars

LEMMA BatchResolveStep ==
  ASSUME IInv, NEW w \in Workers, NEW blocked \in BOOLEAN, BatchResolve(w, blocked)
  PROVE  IInv'
<1>1. row \in [Tasks -> Row] /\ cooling \in BOOLEAN
  BY DEF IInv, TypeOK, TableTypeOK
<1>2. cooling' \in BOOLEAN /\ row' = row
  BY <1>1 DEF BatchResolve, tableVars
<1> QED
  BY <1>1, <1>2, AdvanceKeeps DEF BatchResolve, tableVars

\* Jobs of some workers vanish: a transaction that is rolled back, the end of the process.
LEMMA DropKeeps ==
  ASSUME IInv,
         job' \in [Workers -> [Tasks -> Job \union {NoJob}]],
         \A w \in Workers : \/ job'[w] = job[w]
                            \/ \A t \in Tasks : job'[w][t] = NoJob,
         UNCHANGED <<row, userOps, database, onDisk>>,
         dead' \subseteq Workers, stuck' \subseteq Tasks,
         op' \in [Users -> Op \union {NoOp}],
         cooling' \in BOOLEAN, phase' \in {"down", "up", "stopping"}, resetDue' \in BOOLEAN,
         starts' \in 0..MaxStarts, faults' \in 0..MaxFaults,
         RunningHasWorker'
  PROVE  IInv'
<1>1. TypeOK'
  BY DEF IInv, TypeOK, TableTypeOK
<1>2. JobsContinue
  BY DEF JobsContinue
<1>3. CopiesAreOpen' /\ PickedIsPostgres' /\ HeldIsBorn'
  BY <1>2, ContinueKeeps
<1>4. FinishedIffClosed'
  BY DEF IInv, FinishedIffClosed, AtomicClaim
<1>5. \A w \in Workers : \/ Held(w)' = Held(w) /\ \A x : AtStage(w, x)' = AtStage(w, x)
                         \/ Held(w)' = {} /\ \A x : AtStage(w, x)' = {}
  <2> TAKE w \in Workers
  <2>1. CASE job'[w] = job[w]
    BY <2>1 DEF Held, AtStage
  <2>2. CASE \A t \in Tasks : job'[w][t] = NoJob
    BY <2>2 DEF Held, AtStage
  <2> QED
    BY <2>1, <2>2
<1>6. BatchIsUniform'
  BY <1>5 DEF IInv, BatchIsUniform
<1>7. SavedIsOnDisk'
  <2> SUFFICES ASSUME NEW w \in Workers
               PROVE  AtStage(w, {"saved"})' \subseteq onDisk
    BY DEF SavedIsOnDisk
  <2> QED
    BY <1>5 DEF IInv, SavedIsOnDisk
<1> QED
  BY <1>1, <1>3, <1>4, <1>6, <1>7 DEF IInv

LEMMA ClaimAbortsStep ==
  ASSUME IInv, NEW w \in Workers, ClaimAborts(w)
  PROVE  IInv'
<1>1. TypeOK /\ MaxFaults \in Nat
  BY DownloadAssumption DEF IInv
<1>2. /\ job' \in [Workers -> [Tasks -> Job \union {NoJob}]]
      /\ \A v \in Workers : v # w => job'[v] = job[v]
      /\ \A t \in Tasks : job'[w][t] = NoJob
  BY <1>1 DEF TypeOK, ClaimAborts
<1>3. faults' \in 0..MaxFaults
  BY <1>1 DEF TypeOK, ClaimAborts
<1>4. RunningHasWorker'
  <2> SUFFICES ASSUME NEW t \in Tasks, row[t].status = "running", phase # "down", ~resetDue, t \notin stuck
               PROVE  \E v \in Workers : t \in Held(v)' \ AtStage(v, {"picked"})'
    BY DEF RunningHasWorker, With, ClaimAborts, tableVars
  <2>1. PICK v \in Workers : t \in Held(v) \ AtStage(v, {"picked"})
    BY DEF IInv, RunningHasWorker, With
  <2>2. v # w
    BY <2>1 DEF ClaimAborts, IInv, BatchIsUniform
  <2> QED
    BY <1>2, <2>1, <2>2 DEF Held, AtStage
<1> QED
  BY <1>1, <1>2, <1>3, <1>4, DropKeeps DEF ClaimAborts, TypeOK, TableTypeOK, tableVars

\* The rows a dying worker leaves running are marked as left.
LEMMA WorkerPanicsStep ==
  ASSUME IInv, NEW w \in Workers, WorkerPanics(w)
  PROVE  IInv'
<1>1. TypeOK /\ MaxFaults \in Nat
  BY DownloadAssumption DEF IInv
<1>2. /\ job' \in [Workers -> [Tasks -> Job \union {NoJob}]]
      /\ \A v \in Workers : v # w => job'[v] = job[v]
      /\ \A t \in Tasks : job'[w][t] = NoJob
  BY <1>1 DEF TypeOK, WorkerPanics
<1>3. faults' \in 0..MaxFaults /\ dead' \subseteq Workers /\ stuck' \subseteq Tasks
  BY <1>1 DEF TypeOK, WorkerPanics, With
<1>4. RunningHasWorker'
  <2> SUFFICES ASSUME NEW t \in Tasks, row[t].status = "running", phase # "down", ~resetDue, t \notin stuck'
               PROVE  \E v \in Workers : t \in Held(v)' \ AtStage(v, {"picked"})'
    BY DEF RunningHasWorker, With, WorkerPanics, tableVars
  <2>1. t \notin stuck /\ t \notin Held(w)
    BY DEF WorkerPanics, With
  <2>2. PICK v \in Workers : t \in Held(v) \ AtStage(v, {"picked"})
    BY <2>1 DEF IInv, RunningHasWorker, With
  <2>3. v # w
    BY <2>1, <2>2
  <2> QED
    BY <1>2, <2>2, <2>3 DEF Held, AtStage
<1> QED
  BY <1>1, <1>2, <1>3, <1>4, DropKeeps DEF WorkerPanics, TypeOK, TableTypeOK, tableVars

-----------------------------------------------------------------------------
\* The process and the table.

\* The jobs stay as they are.
LEMMA JobsStay ==
  ASSUME IInv, UNCHANGED <<job, onDisk, database>>,
         TypeOK', FinishedIffClosed', RunningHasWorker',
         \A t \in Tasks : row'[t].status = "unborn" => row[t].status = "unborn"
  PROVE  IInv'
<1>1. JobsContinue
  BY DEF JobsContinue
<1>2. CopiesAreOpen' /\ PickedIsPostgres' /\ HeldIsBorn'
  BY <1>1, ContinueKeeps
<1>3. BatchIsUniform' /\ SavedIsOnDisk'
  BY DEF IInv, BatchIsUniform, SavedIsOnDisk, AtStage, Held
<1> QED
  BY <1>2, <1>3 DEF IInv

LEMMA ProcessStep ==
  ASSUME IInv, ProcessNext
  PROVE  IInv'
<1>t. /\ TypeOK /\ row \in [Tasks -> Row] /\ MaxFaults \in Nat /\ MaxStarts \in Nat
      /\ starts \in 0..MaxStarts /\ faults \in 0..MaxFaults
  BY DownloadAssumption DEF IInv, TypeOK, TableTypeOK
<1>1. CASE Start
  <2>1. starts' \in 0..MaxStarts
    BY <1>t, <1>1 DEF Start
  <2>2. RunningHasWorker'
    BY <1>1 DEF Start, RunningHasWorker
  <2> QED
    BY <1>t, <1>1, <2>1, <2>2, DropKeeps DEF Start, TypeOK, TableTypeOK, tableVars
<1>2. CASE Stop
  <2>1. RunningHasWorker'
    <3> SUFFICES ASSUME NEW t \in Tasks, row[t].status = "running", ~resetDue, t \notin stuck
                 PROVE  \E v \in Workers : t \in Held(v)' \ AtStage(v, {"picked"})'
      BY <1>2 DEF RunningHasWorker, With, Stop, tableVars
    <3>1. phase # "down"
      BY <1>2 DEF Stop
    <3>2. PICK v \in Workers : t \in Held(v) \ AtStage(v, {"picked"})
      BY <3>1 DEF IInv, RunningHasWorker, With
    <3> QED
      BY <1>2, <3>2 DEF Stop, Held, AtStage
  <2> QED
    BY <1>t, <1>2, <2>1, DropKeeps DEF Stop, TypeOK, TableTypeOK, tableVars
<1>3. CASE Die
  <2>1. RunningHasWorker'
    BY <1>3 DEF Die, RunningHasWorker
  <2>2. job' \in [Workers -> [Tasks -> Job \union {NoJob}]]
    BY <1>3 DEF Die
  <2>3. op' \in [Users -> Op \union {NoOp}]
    BY <1>3 DEF Die
  <2> QED
    BY <1>t, <1>3, <2>1, <2>2, <2>3, DropKeeps DEF Die, TypeOK, TableTypeOK
<1>4. CASE CooldownEnds
  <2>1. RunningHasWorker'
    BY <1>4 DEF CooldownEnds, IInv, RunningHasWorker, With, Held, AtStage, tableVars
  <2> QED
    BY <1>t, <1>4, <2>1, DropKeeps DEF CooldownEnds, TypeOK, TableTypeOK, tableVars
<1>5. CASE ResetRunning
  <2>1. /\ row' \in [Tasks -> Row]
        /\ \A t \in Tasks : row'[t] = IF row[t].status = "running"
                                      THEN BackToPending(row[t]) ELSE row[t]
    BY <1>t, <1>5, ResetEffect DEF ResetRunning
  <2>2. \A t \in Tasks : /\ BackToPending(row[t]).status = "pending"
                         /\ BackToPending(row[t]).fin = row[t].fin
    BY <1>t, BackToPendingType
  <2>3. TypeOK'
    BY <1>t, <1>5, <2>1 DEF ResetRunning, TypeOK, TableTypeOK
  <2>4. FinishedIffClosed'
    <3> SUFFICES ASSUME AtomicClaim, NEW t \in Tasks
                 PROVE  row'[t].fin <=> row'[t].status \in ClosedStatus
      BY <1>5 DEF FinishedIffClosed, AtomicClaim, ResetRunning
    <3>1. row[t].fin <=> row[t].status \in ClosedStatus
      BY DEF IInv, FinishedIffClosed
    <3>2. CASE row[t].status = "running"
      BY <2>1, <2>2, <3>1, <3>2 DEF ClosedStatus
    <3>3. CASE row[t].status # "running"
      BY <2>1, <3>1, <3>3
    <3> QED
      BY <3>2, <3>3
  <2>5. \A t \in Tasks : row'[t].status # "running"
    BY <2>1, <2>2
  <2>6. RunningHasWorker'
    BY <2>5 DEF RunningHasWorker, With
  <2>7. \A t \in Tasks : row'[t].status = "unborn" => row[t].status = "unborn"
    BY <2>1, <2>2
  <2> QED
    BY <1>5, <2>3, <2>4, <2>6, <2>7, JobsStay DEF ResetRunning
<1>6. CASE ResetFails
  <2>1. faults' \in 0..MaxFaults
    BY <1>t, <1>6 DEF ResetFails
  <2>2. stuck' \subseteq Tasks
    BY <1>t, <1>6 DEF ResetFails, TypeOK, With
  <2>3. TypeOK'
    BY <1>t, <1>6, <2>1, <2>2 DEF ResetFails, TypeOK, TableTypeOK, tableVars
  <2>4. FinishedIffClosed'
    BY <1>6 DEF IInv, FinishedIffClosed, AtomicClaim, ResetFails, tableVars
  <2>5. RunningHasWorker'
    BY <1>6 DEF RunningHasWorker, With, ResetFails, tableVars
  <2> QED
    BY <1>6, <2>3, <2>4, <2>5, JobsStay DEF ResetFails, tableVars
<1> QED
  BY <1>1, <1>2, <1>3, <1>4, <1>5, <1>6 DEF ProcessNext

LEMMA TableNextIsStep ==
  ASSUME TableNext
  PROVE  TableStep /\ UNCHANGED <<job, onDisk, procVars>>
<1>1. \A t \in Tasks : Birth[t] \in Nat
  BY TableAssumption
<1> QED
  BY <1>1 DEF TableNext, TableStep

LEMMA TableNextKeeps ==
  ASSUME IInv, TableNext
  PROVE  IInv'
<1>1. TypeOK /\ TableTypeOK
  BY DEF IInv, TypeOK
<1>2. TableStep /\ UNCHANGED <<job, onDisk, procVars>>
  BY TableNextIsStep
<1>3. TableTypeOK' /\ \A t \in Tasks : Rewritten(row[t], row'[t])
  BY <1>1, <1>2, TableStepTypes
<1>4. database' = database
  BY <1>2 DEF TableStep, UserNext, ReadForCancel, ReadForRetry, WriteCancel, WriteRetry,
     AbandonOp, CancelBatch, RetryBatch, DeleteBatch, RetryAllFailed, Clear, BackoffElapses,
     Enqueue, DeleteFinishedOlderThan
<1>5. TypeOK'
  BY <1>1, <1>2, <1>3 DEF TypeOK, procVars
<1>6. FinishedIffClosed'
  <2> SUFFICES ASSUME AtomicClaim, NEW t \in Tasks
               PROVE  row'[t].fin <=> row'[t].status \in ClosedStatus
    BY <1>4 DEF FinishedIffClosed, AtomicClaim
  <2>1. row[t].fin <=> row[t].status \in ClosedStatus
    BY DEF IInv, FinishedIffClosed
  <2>2. Rewritten(row[t], row'[t])
    BY <1>3
  <2> QED
    BY <2>1, <2>2 DEF Rewritten, ClosedStatus
<1>7. RunningHasWorker'
  <2> SUFFICES ASSUME NEW t \in Tasks, row'[t].status = "running", phase # "down", ~resetDue, t \notin stuck
               PROVE  \E v \in Workers : t \in Held(v)' \ AtStage(v, {"picked"})'
    BY <1>2 DEF RunningHasWorker, With, procVars
  <2>1. row[t].status = "running"
    BY <1>3 DEF Rewritten
  <2>2. PICK v \in Workers : t \in Held(v) \ AtStage(v, {"picked"})
    BY <2>1 DEF IInv, RunningHasWorker, With
  <2> QED
    BY <1>2, <2>2 DEF Held, AtStage
<1>8. \A t \in Tasks : row'[t].status = "unborn" => row[t].status = "unborn"
  BY <1>3 DEF Rewritten
<1> QED
  BY <1>2, <1>4, <1>5, <1>6, <1>7, <1>8, JobsStay

-----------------------------------------------------------------------------
\* IInv is inductive.

LEMMA InitInv == Init => IInv
<1> SUFFICES ASSUME Init PROVE IInv
  OBVIOUS
<1>1. Blank("unborn") \in Row /\ Blank("unborn").status = "unborn" /\ Blank("unborn").fin = FALSE
  BY BlankType DEF GoneStatus
<1>2. \A t \in Tasks : row[t].status = "unborn" /\ ~row[t].fin
  BY <1>1 DEF Init, TableInit
<1>3. 0 \in 0..MaxUserOps /\ 0 \in 0..MaxStarts /\ 0 \in 0..MaxFaults
  BY TableAssumption, DownloadAssumption
<1>4. TypeOK
  BY <1>1, <1>3 DEF Init, TableInit, TypeOK, TableTypeOK
<1>5. \A w \in Workers : Held(w) = {} /\ \A x : AtStage(w, x) = {}
  BY DEF Init, Held, AtStage
<1> QED
  BY <1>2, <1>4, <1>5 DEF Init, IInv, FinishedIffClosed, CopiesAreOpen, PickedIsPostgres, BatchIsUniform,
     HeldIsBorn, SavedIsOnDisk, RunningHasWorker, ClosedStatus

LEMMA StepInv == IInv /\ [Next]_vars => IInv'
<1> SUFFICES ASSUME IInv, [Next]_vars PROVE IInv'
  OBVIOUS
<1>1. ASSUME NEW w \in Workers, WorkerNext(w) PROVE IInv'
  BY <1>1, ClaimStep, ClaimMarkStep, ClaimAbortsStep, WorkerPanicsStep, BatchResolveStep, JobStep DEF WorkerNext
<1>2. CASE UNCHANGED vars
  BY <1>2 DEF vars, tableVars, procVars, IInv, TypeOK, TableTypeOK, FinishedIffClosed, AtomicClaim,
     CopiesAreOpen, PickedIsPostgres, BatchIsUniform, HeldIsBorn, SavedIsOnDisk, RunningHasWorker,
     With, Held, AtStage
<1> QED
  BY <1>1, <1>2, ProcessStep, TableNextKeeps DEF Next

\* The strengthening of the invariants below that is inductive.  The conjuncts about open
\* transactions and about copies are what stale writes and roll-backs need.
THEOREM Inductive == Spec => []IInv
BY InitInv, StepInv, PTL DEF Spec

\* Rows, copies and counters keep their types, however often a row is claimed, retried and
\* written back from a stale copy: no row carries more retries than strmMaxTaskRetry.
THEOREM TypeCorrect == Spec => []TypeOK
<1>1. IInv => TypeOK
  BY DEF IInv
<1> QED
  BY <1>1, Inductive, PTL

\* With a claim that is one transaction, finished_at is set exactly on the closed rows.
THEOREM FinishedExactly == Spec => []FinishedIffClosed
<1>1. IInv => FinishedIffClosed
  BY DEF IInv
<1> QED
  BY <1>1, Inductive, PTL

\* With a claim that is one transaction, no goroutine ever holds a closed copy.
THEOREM CopiesOpen == Spec => []CopiesAreOpen
<1>1. IInv => CopiesAreOpen
  BY DEF IInv
<1> QED
  BY <1>1, Inductive, PTL

\* No row is lost in running unseen: a goroutine has it, the reset of Start is still to
\* come, or it is one of the recorded losses, a failed write (strm_queue.go:201, 446) or
\* a worker that a panic ended before its batch had goroutines (strm_queue.go:70).
THEOREM RunningHeld == Spec => []RunningIsHeld
<1>1. IInv => RunningIsHeld
  <2> SUFFICES ASSUME IInv, NEW t \in With({"running"}), phase # "down", ~resetDue, t \notin stuck
               PROVE  Holders(t) # {}
    BY DEF RunningIsHeld
  <2>1. PICK w \in Workers : t \in Held(w)
    BY DEF IInv, RunningHasWorker
  <2> QED
    BY <2>1 DEF Holders, Held
<1> QED
  BY <1>1, Inductive, PTL

-----------------------------------------------------------------------------
\* The refinement of TaskLedger.

LEMMA LedgerValue ==
  /\ \A t \in Tasks : LedgerState[t] = Shown(row[t])
  /\ \A S, st : Ledger!Move(S, st) <=> LedgerState' = [t \in Tasks |-> IF t \in S THEN st ELSE LedgerState[t]]
  /\ \A s : Ledger!In(s) = {t \in Tasks : LedgerState[t] \in s}
BY DEF LedgerState, Shown, Ledger!Move, Ledger!In

\* What the table does of itself, and a stale write, is a move of the ledger.
LEMMA MoveIsLedger ==
  ASSUME LedgerMove, UNCHANGED onDisk
  PROVE  [Ledger!Next]_<<LedgerState, onDisk>>
<1>1. CASE LedgerState' = LedgerState
  BY <1>1
<1>2. ASSUME NEW S \in SUBSET Tasks, NEW from, NEW to, Moves(S, from, to)
      PROVE  S \subseteq Ledger!In(from) /\ Ledger!Move(S, to)
  BY <1>2, LedgerValue DEF Moves
<1>3. ASSUME NEW S \in SUBSET Tasks, Moves(S, {"unborn"}, "open")
      PROVE  Ledger!Next
  <2>1. Ledger!Submit(S)
    BY <1>2, <1>3 DEF Ledger!Submit
  <2> QED
    BY <2>1 DEF Ledger!Next
<1>4. ASSUME NEW S \in SUBSET Tasks, Moves(S, {"open"} \union ClosedStatus, "canceled")
      PROVE  Ledger!Next
  <2>1. Ledger!Cancel(S)
    BY <1>2, <1>4 DEF Ledger!Cancel, Ledger!Closed, ClosedStatus
  <2> QED
    BY <2>1 DEF Ledger!Next
<1>5. ASSUME NEW S \in SUBSET Tasks, Moves(S, ClosedStatus, "open")
      PROVE  Ledger!Next
  <2>1. Ledger!Reopen(S)
    BY <1>2, <1>5 DEF Ledger!Reopen, Ledger!Closed, ClosedStatus
  <2> QED
    BY <2>1 DEF Ledger!Next
<1>6. ASSUME NEW S \in SUBSET Tasks, Moves(S, {"open"} \union ClosedStatus, "deleted")
      PROVE  Ledger!Next
  <2>1. Ledger!Remove(S)
    BY <1>2, <1>6 DEF Ledger!Remove, Ledger!Closed, ClosedStatus
  <2> QED
    BY <2>1 DEF Ledger!Next
<1> QED
  BY <1>1, <1>3, <1>4, <1>5, <1>6 DEF LedgerMove

\* A job writes its copy, as pending or running, over whatever the row has become.
LEMMA StaleWriteMoves ==
  ASSUME row \in [Tasks -> Row], NEW t \in Tasks, NEW new \in Row,
         new.status \in {"pending", "running"}, row' = UpdateRow(t, new)
  PROVE  LedgerMove
<1>1. /\ \A u \in Tasks : u # t => row'[u] = row[u]
      /\ row'[t] = IF row[t].status \in StoredStatus THEN new ELSE row[t]
  BY UpdateRowEffect
<1> QED
  BY <1>1, OneRowMoves

\* Rows of a set that are set to running, or back to pending.
LEMMA ReopenMoves ==
  ASSUME NEW S \in SUBSET Tasks,
         \A t \in Tasks \ S : row'[t] = row[t],
         \A t \in S : \/ row'[t] = row[t]
                      \/ /\ row[t].status \in StoredStatus
                         /\ row'[t].status \in {"pending", "running"}
  PROVE  LedgerMove
<1> DEFINE R == {t \in S : row'[t] # row[t] /\ row[t].status \in ClosedStatus}
<1>1. \A t \in R : Shown(row[t]) \in ClosedStatus /\ Shown(row'[t]) = "open"
  BY DEF Shown, ActiveStatus, ClosedStatus
<1>2. \A t \in Tasks \ R : Shown(row'[t]) = Shown(row[t])
  BY DEF Shown, ActiveStatus, StoredStatus
<1>3. R \in SUBSET Tasks
  OBVIOUS
<1> HIDE DEF R
<1>4. Moves(R, ClosedStatus, "open")
  BY <1>1, <1>2, <1>3, MovesByRows
<1> QED
  BY <1>3, <1>4 DEF LedgerMove

\* A row that is still running is closed, or goes back to pending.
LEMMA CloseMoves ==
  ASSUME row \in [Tasks -> Row], NEW t \in Tasks, NEW new \in Row,
         new.status \in {"pending", "done", "failed"},
         new.status = "done" => t \in onDisk,
         row' = UpdateIfRunning(t, new), UNCHANGED onDisk
  PROVE  [Ledger!Next]_<<LedgerState, onDisk>>
<1>1. /\ \A u \in Tasks : u # t => row'[u] = row[u]
      /\ row'[t] = IF row[t].status = "running" THEN new ELSE row[t]
  BY UpdateIfRunningEffect
<1>2. CASE row[t].status # "running" \/ new.status = "pending"
  <2>1. \/ row'[t] = row[t]
        \/ row[t].status \in StoredStatus /\ row'[t].status \in {"pending", "running", "canceled"}
    BY <1>1, <1>2 DEF StoredStatus, ActiveStatus
  <2>2. LedgerMove
    BY <1>1, <2>1, OneRowMoves
  <2> QED
    BY <2>2, MoveIsLedger
<1>3. CASE row[t].status = "running" /\ new.status \in {"done", "failed"}
  <2>1. Shown(row[t]) \in {"open"} /\ Shown(row'[t]) = new.status
    BY <1>1, <1>3 DEF Shown, ActiveStatus
  <2>2. \A u \in Tasks \ {t} : Shown(row'[u]) = Shown(row[u])
    BY <1>1
  <2>3. Moves({t}, {"open"}, new.status)
    BY <2>1, <2>2, MovesByRows
  <2>4. t \in Ledger!In({"open"}) /\ Ledger!Move({t}, new.status)
    BY <2>3, LedgerValue DEF Moves
  <2>5. Ledger!CloseDone(t) \/ Ledger!CloseFailed(t)
    BY <1>3, <2>4 DEF Ledger!CloseDone, Ledger!CloseFailed
  <2> QED
    BY <2>5 DEF Ledger!Next
<1> QED
  BY <1>2, <1>3

LEMMA JobLedger ==
  ASSUME IInv, NEW w \in Workers, NEW t \in Tasks, JobNext(w, t)
  PROVE  [Ledger!Next]_<<LedgerState, onDisk>>
<1>t. TypeOK /\ row \in [Tasks -> Row]
  BY DEF IInv, TypeOK, TableTypeOK
<1>1. ASSUME t \in Held(w), Requeue(w, t)
      PROVE  [Ledger!Next]_<<LedgerState, onDisk>>
  <2> DEFINE new == [job[w][t].copy EXCEPT !.status = "pending",
                                           !.backoff = t \in Tasks115 /\ cooling]
  <2>1. job[w][t].copy \in Row
    BY <1>t, <1>1, HeldJob
  <2>2. new \in Row /\ new.status = "pending"
    BY <2>1 DEF Row, StoredStatus, ActiveStatus
  <2>3. row' = UpdateRow(t, new) /\ UNCHANGED onDisk
    BY <1>1 DEF Requeue, RequeueWrite
  <2> HIDE DEF new
  <2>4. LedgerMove
    BY <1>t, <2>2, <2>3, StaleWriteMoves
  <2> QED
    BY <2>3, <2>4, MoveIsLedger
<1>2. CASE RequeueCooling(w, t)
  BY <1>1, <1>2, AtStageHeld DEF RequeueCooling
<1>3. CASE GiveUpSlot(w, t)
  BY <1>1, <1>3, AtStageHeld DEF GiveUpSlot
<1>4. CASE Keep(w, t) \/ AcquireSlot(w, t) \/ LoseWrite(w, t)
  <2>1. UNCHANGED <<row, onDisk>>
    BY <1>4 DEF Keep, AcquireSlot, LoseWrite, tableVars
  <2> QED
    BY <2>1 DEF LedgerState
<1>5. CASE SanitizePath(w, t)
  <2>1. t \in Held(w) /\ UNCHANGED onDisk
    BY <1>5, AtStageHeld DEF SanitizePath
  <2>2. job[w][t].copy \in Row /\ job[w][t].copy.status = "running"
    BY <1>t, <2>1, HeldJob DEF IInv, HeldIsBorn
  <2>3. CASE row' = row
    BY <2>1, <2>3 DEF LedgerState
  <2>4. CASE row' = UpdateRow(t, job[w][t].copy)
    BY <1>t, <2>1, <2>2, <2>4, StaleWriteMoves, MoveIsLedger
  <2> QED
    BY <1>5, <2>3, <2>4 DEF SanitizePath
<1>6. CASE Download(w, t)
  <2>1. t \in Held(w) /\ row' = row /\ onDisk' = onDisk \union {t}
    BY <1>6, AtStageHeld DEF Download, tableVars
  <2>2. row[t].status # "unborn"
    BY <2>1 DEF IInv, HeldIsBorn
  <2>3. t \notin Ledger!In({"unborn"})
    BY <2>2, LedgerValue DEF Shown
  <2>4. Ledger!Produce(t)
    BY <2>1, <2>3 DEF Ledger!Produce, LedgerState
  <2> QED
    BY <2>4 DEF Ledger!Next
<1>7. CASE FinishDone(w, t)
  <2>1. t \in onDisk
    BY <1>7 DEF FinishDone, IInv, SavedIsOnDisk
  <2>2. Finished(t, "done") \in Row /\ Finished(t, "done").status = "done"
    BY <1>t, FinishedType DEF ClosedStatus
  <2> QED
    BY <1>t, <1>7, <2>1, <2>2, CloseMoves DEF FinishDone
<1>8. CASE FinishFailed(w, t)
  <2>1. Finished(t, "failed") \in Row /\ Finished(t, "failed").status = "failed"
    BY <1>t, FinishedType DEF ClosedStatus
  <2> QED
    BY <1>t, <1>8, <2>1, CloseMoves DEF FinishFailed
<1>9. ASSUME NEW blocked \in BOOLEAN, FailWithRetry(w, t, blocked)
      PROVE  [Ledger!Next]_<<LedgerState, onDisk>>
  <2>1. job[w][t].copy \in Row
    BY <1>t, <1>9, AtStageHeld, HeldJob DEF FailWithRetry
  <2>2. /\ AfterFailure(job[w][t].copy) \in Row
        /\ AfterFailure(job[w][t].copy).status \in {"pending", "failed"}
    BY <2>1, AfterFailureType
  <2> QED
    BY <1>t, <1>9, <2>2, CloseMoves DEF FailWithRetry
<1> QED
  BY <1>2, <1>3, <1>4, <1>5, <1>6, <1>7, <1>8, <1>9 DEF JobNext

LEMMA WorkerLedger ==
  ASSUME IInv, NEW w \in Workers, WorkerNext(w)
  PROVE  [Ledger!Next]_<<LedgerState, onDisk>>
<1>t. TypeOK /\ row \in [Tasks -> Row]
  BY DEF IInv, TypeOK, TableTypeOK
<1>1. ASSUME NEW S, S \subseteq Tasks, row' = MarkRunning(S), UNCHANGED onDisk
      PROVE  [Ledger!Next]_<<LedgerState, onDisk>>
  <2>1. \A t \in Tasks : row'[t] = IF t \in S /\ row[t].status \in StoredStatus
                                   THEN Running(row[t]) ELSE row[t]
    BY <1>t, <1>1, MarkRunningEffect
  <2>2. \A t \in Tasks : Running(row[t]).status = "running"
    BY <1>t, RunningType
  <2>3. \A t \in Tasks \ S : row'[t] = row[t]
    BY <2>1
  <2>4. \A t \in S : \/ row'[t] = row[t]
                     \/ /\ row[t].status \in StoredStatus
                        /\ row'[t].status \in {"pending", "running"}
    BY <1>1, <2>1, <2>2
  <2>5. LedgerMove
    BY <1>1, <2>3, <2>4, ReopenMoves
  <2> QED
    BY <1>1, <2>5, MoveIsLedger
<1>2. ASSUME NEW S \in SUBSET Tasks, Claim(w, S)
      PROVE  [Ledger!Next]_<<LedgerState, onDisk>>
  BY <1>1, <1>2 DEF Claim, Pick
<1>3. CASE ClaimMark(w)
  <2>1. AtStage(w, {"picked"}) \subseteq Tasks
    BY DEF AtStage, Held
  <2> QED
    BY <1>1, <1>3, <2>1 DEF ClaimMark
<1>4. CASE \/ \E S \in SUBSET Tasks : ClaimSelect(w, S)
           \/ ClaimAborts(w) \/ WorkerPanics(w)
           \/ \E blocked \in BOOLEAN : BatchResolve(w, blocked)
  <2>1. UNCHANGED <<row, onDisk>>
    BY <1>4 DEF ClaimSelect, Pick, ClaimAborts, WorkerPanics, BatchResolve, tableVars
  <2> QED
    BY <2>1 DEF LedgerState
<1> QED
  BY <1>2, <1>3, <1>4, JobLedger DEF WorkerNext

LEMMA LedgerStep ==
  ASSUME IInv, [Next]_vars
  PROVE  [Ledger!Next]_<<LedgerState, onDisk>>
<1>t. TypeOK /\ TableTypeOK /\ row \in [Tasks -> Row]
  BY DEF IInv, TypeOK, TableTypeOK
<1>1. CASE ResetRunning
  <2>1. \A t \in Tasks : row'[t] = IF row[t].status = "running"
                                   THEN BackToPending(row[t]) ELSE row[t]
    BY <1>t, <1>1, ResetEffect DEF ResetRunning
  <2>2. \A t \in Tasks : BackToPending(row[t]).status = "pending"
    BY <1>t, BackToPendingType
  <2>3. \A t \in Tasks : Shown(row'[t]) = Shown(row[t])
    BY <2>1, <2>2 DEF Shown, ActiveStatus
  <2>4. LedgerState' = LedgerState /\ UNCHANGED onDisk
    BY <1>1, <2>3, SameShown DEF ResetRunning
  <2> QED
    BY <2>4
<1>2. CASE Start \/ ResetFails \/ Stop \/ Die \/ CooldownEnds \/ UNCHANGED vars
  <2>1. UNCHANGED <<row, onDisk>>
    BY <1>2 DEF Start, ResetFails, Stop, Die, CooldownEnds, vars, tableVars
  <2> QED
    BY <2>1 DEF LedgerState
<1>3. CASE TableNext
  <2>1. TableStep /\ UNCHANGED onDisk
    BY <1>3, TableNextIsStep
  <2> QED
    BY <1>t, <2>1, TableStepMoves, MoveIsLedger
<1> QED
  BY <1>1, <1>2, <1>3, WorkerLedger DEF Next, ProcessNext

\* The queue implements TaskLedger: through claims, stale writes, retries, crashes and the
\* requests of the UI, done is reported only of a row whose file is in place, and a row
\* that was removed never comes back.
THEOREM KeepsLedger == Spec => LedgerSpec
<1>1. Init => Ledger!Init
  <2> SUFFICES ASSUME Init PROVE Ledger!Init
    OBVIOUS
  <2>1. Blank("unborn").status = "unborn"
    BY BlankType DEF GoneStatus
  <2>2. \A t \in Tasks : row[t].status = "unborn"
    BY <2>1 DEF Init, TableInit
  <2>3. LedgerState = [t \in Tasks |-> "unborn"]
    BY <2>2 DEF LedgerState, ActiveStatus
  <2> QED
    BY <2>3 DEF Ledger!Init, Init
<1>2. IInv /\ [Next]_vars => [Ledger!Next]_<<LedgerState, onDisk>>
  BY LedgerStep
<1> QED
  BY <1>1, <1>2, Inductive, PTL DEF Spec, LedgerSpec, Ledger!Spec, Ledger!vars

-----------------------------------------------------------------------------
\* What the ledger means for the rows.

\* A row that is reported done has its file in place.
DoneIsOnDisk == \A t \in With({"done"}) : t \in onDisk

\* A row that was removed stays removed, whatever copies of it are written afterwards.
RemovedForGood ==
  [][\A t \in Tasks : row[t].status = "deleted" => row'[t].status = "deleted"]_vars

LedgerDone == \A t \in Tasks : LedgerState[t] = "done" => t \in onDisk

LEMMA LedgerStays ==
  ASSUME [Ledger!Next]_<<LedgerState, onDisk>>, NEW t \in Tasks
  PROVE  /\ LedgerState[t] = "deleted" => LedgerState'[t] = "deleted"
         /\ LedgerState'[t] = "done" => LedgerState[t] = "done" \/ t \in onDisk
         /\ onDisk \subseteq onDisk'
<1>1. \A S, st : Ledger!Move(S, st) => LedgerState'[t] = IF t \in S THEN st ELSE LedgerState[t]
  BY LedgerValue
<1>2. \A s : Ledger!In(s) = {u \in Tasks : LedgerState[u] \in s}
  BY LedgerValue
<1>3. ASSUME NEW S \in SUBSET Tasks,
             Ledger!Submit(S) \/ Ledger!Cancel(S) \/ Ledger!Reopen(S) \/ Ledger!Remove(S)
      PROVE  /\ LedgerState[t] = "deleted" => LedgerState'[t] = "deleted"
             /\ LedgerState'[t] = "done" => LedgerState[t] = "done"
             /\ onDisk' = onDisk
  BY <1>1, <1>2, <1>3 DEF Ledger!Submit, Ledger!Cancel, Ledger!Reopen, Ledger!Remove, Ledger!Closed
<1>4. ASSUME NEW u \in Tasks, Ledger!CloseDone(u) \/ Ledger!CloseFailed(u)
      PROVE  /\ LedgerState[t] = "deleted" => LedgerState'[t] = "deleted"
             /\ LedgerState'[t] = "done" => LedgerState[t] = "done" \/ t \in onDisk
             /\ onDisk' = onDisk
  BY <1>1, <1>2, <1>4 DEF Ledger!CloseDone, Ledger!CloseFailed
<1>5. ASSUME NEW u \in Tasks, Ledger!Produce(u)
      PROVE  LedgerState' = LedgerState /\ onDisk \subseteq onDisk'
  BY <1>5 DEF Ledger!Produce
<1> QED
  BY <1>3, <1>4, <1>5 DEF Ledger!Next

LEMMA ShownStatus ==
  ASSUME NEW t \in Tasks, NEW s \in {"done", "deleted"}
  PROVE  LedgerState[t] = s <=> row[t].status = s
BY LedgerValue DEF Shown, ActiveStatus

\* Done means that the file is there (processDownloadTask), however often the row was
\* claimed, handed back, cancelled or written from an older copy: a consequence of the
\* ledger.
THEOREM DoneOnDisk == Spec => []DoneIsOnDisk
<1>1. Ledger!Init => LedgerDone
  BY DEF Ledger!Init, LedgerDone
<1>2. LedgerDone /\ [Ledger!Next]_(Ledger!vars) => LedgerDone'
  BY LedgerStays DEF LedgerDone, Ledger!vars
<1>3. LedgerDone => DoneIsOnDisk
  BY ShownStatus DEF LedgerDone, DoneIsOnDisk, With
<1> QED
  BY <1>1, <1>2, <1>3, KeepsLedger, PTL DEF LedgerSpec, Ledger!Spec

\* A deleted row is not brought back by a goroutine or a request that still has a copy of
\* it (Delete, DeleteBatch, the cleanup; every UPDATE selects by id).
THEOREM RemovedStays == Spec => RemovedForGood
<1>s. \A t \in Tasks : LedgerState[t] = "deleted" <=> row[t].status = "deleted"
  BY ShownStatus
<1>p. (\A t \in Tasks : LedgerState[t] = "deleted" <=> row[t].status = "deleted")'
  BY <1>s, PTL
<1>1. ASSUME IInv, [Next]_vars, NEW t \in Tasks, row[t].status = "deleted"
      PROVE  row'[t].status = "deleted"
  <2>1. LedgerState[t] = "deleted"
    BY <1>1, <1>s
  <2>2. LedgerState'[t] = "deleted"
    BY <1>1, <2>1, LedgerStep, LedgerStays
  <2> QED
    BY <1>p, <2>2
<1>2. IInv /\ [Next]_vars =>
        [\A t \in Tasks : row[t].status = "deleted" => row'[t].status = "deleted"]_vars
  BY <1>1
<1> QED
  BY <1>2, Inductive, PTL DEF Spec, RemovedForGood

\* A closed row is changed by the queue page, the cleanup, or a goroutine that has not
\* begun to work on it: one that hands its row back or sanitizes its path, and on
\* PostgreSQL the second half of a claim.
OnlyHandBacksReopen ==
  [][\A t \in Tasks : row[t].status \in ClosedStatus /\ row'[t] # row[t] =>
       \/ TableNext
       \/ \E w \in Workers :
            \/ RequeueCooling(w, t) \/ GiveUpSlot(w, t)
            \/ t \in DirtyPaths /\ SanitizePath(w, t)
            \/ ~AtomicClaim /\ t \in AtStage(w, {"picked"}) /\ ClaimMark(w)]_vars

LEMMA JobLeavesClosed ==
  ASSUME IInv, NEW w \in Workers, NEW u \in Tasks, JobNext(w, u),
         NEW t \in Tasks, row[t].status \in ClosedStatus, row'[t] # row[t]
  PROVE  u = t /\ (RequeueCooling(w, t) \/ GiveUpSlot(w, t) \/ (t \in DirtyPaths /\ SanitizePath(w, t)))
<1>t. TypeOK /\ row \in [Tasks -> Row]
  BY DEF IInv, TypeOK, TableTypeOK
<1>1. ASSUME NEW new, row' = UpdateIfRunning(u, new)
      PROVE  row'[t] = row[t]
  <2>1. CASE u = t
    BY <1>1, <2>1 DEF UpdateIfRunning, ClosedStatus
  <2>2. CASE u # t
    BY <1>1, <1>t, <2>2 DEF UpdateIfRunning
  <2> QED
    BY <2>1, <2>2
<1>2. ASSUME NEW new, row' = UpdateRow(u, new)
      PROVE  u = t
  BY <1>2, <1>t DEF UpdateRow
<1>3. ~ (FinishDone(w, u) \/ FinishFailed(w, u) \/ \E blocked \in BOOLEAN : FailWithRetry(w, u, blocked))
  BY <1>1 DEF FinishDone, FinishFailed, FailWithRetry
<1>4. ~ (Keep(w, u) \/ AcquireSlot(w, u) \/ Download(w, u) \/ LoseWrite(w, u))
  BY DEF Keep, AcquireSlot, Download, LoseWrite, tableVars
<1>5. CASE RequeueCooling(w, u)
  BY <1>2, <1>5 DEF RequeueCooling, Requeue, RequeueWrite
<1>6. CASE GiveUpSlot(w, u)
  BY <1>2, <1>6 DEF GiveUpSlot, Requeue, RequeueWrite
<1>7. CASE SanitizePath(w, u)
  <2>1. u \in DirtyPaths /\ row' = UpdateRow(u, job[w][u].copy)
    BY <1>7 DEF SanitizePath
  <2> QED
    BY <1>2, <1>7, <2>1
<1> QED
  BY <1>3, <1>4, <1>5, <1>6, <1>7 DEF JobNext

\* The writes of the workers that can undo a cancellation are exactly the unconditional
\* ones before the download begins; what ends an execution (finish, retryTask) never does.
THEOREM HandBacksReopen == Spec => OnlyHandBacksReopen
<1>1. ASSUME IInv, [Next]_vars, NEW t \in Tasks, row[t].status \in ClosedStatus, row'[t] # row[t]
      PROVE  \/ TableNext
             \/ \E w \in Workers :
                  \/ RequeueCooling(w, t) \/ GiveUpSlot(w, t)
                  \/ t \in DirtyPaths /\ SanitizePath(w, t)
                  \/ ~AtomicClaim /\ t \in AtStage(w, {"picked"}) /\ ClaimMark(w)
  <2>t. TypeOK /\ row \in [Tasks -> Row]
    BY <1>1 DEF IInv, TypeOK, TableTypeOK
  <2>1. ASSUME NEW w \in Workers, NEW S \in SUBSET Tasks, Claim(w, S) PROVE FALSE
    <3>1. row[t].status = "pending" \/ t \notin S
      BY <2>t, <2>1, PickEffect DEF Claim
    <3>2. t \notin S
      BY <1>1, <3>1 DEF ClosedStatus
    <3>3. row'[t] = row[t]
      BY <2>t, <2>1, <3>2, MarkRunningEffect DEF Claim
    <3> QED
      BY <1>1, <3>3
  <2>2. ASSUME NEW w \in Workers, ClaimMark(w)
        PROVE  ~AtomicClaim /\ t \in AtStage(w, {"picked"})
    <3>1. ~AtomicClaim
      BY <1>1, <2>2 DEF ClaimMark, IInv, PickedIsPostgres
    <3>2. row' = MarkRunning(AtStage(w, {"picked"}))
      BY <2>2 DEF ClaimMark
    <3>3. t \in AtStage(w, {"picked"})
      BY <1>1, <2>t, <3>2, MarkRunningEffect
    <3> QED
      BY <3>1, <3>3
  <2>3. ASSUME NEW w \in Workers,
               \/ \E S \in SUBSET Tasks : ClaimSelect(w, S)
               \/ ClaimAborts(w) \/ WorkerPanics(w) \/ \E blocked \in BOOLEAN : BatchResolve(w, blocked)
        PROVE  FALSE
    BY <1>1, <2>3 DEF ClaimSelect, ClaimAborts, WorkerPanics, BatchResolve, tableVars
  <2>4. CASE ResetRunning
    <3>1. row'[t] = row[t]
      BY <1>1, <2>t, <2>4, ResetEffect DEF ResetRunning, ClosedStatus
    <3> QED
      BY <1>1, <3>1
  <2>5. CASE Start \/ ResetFails \/ Stop \/ Die \/ CooldownEnds \/ UNCHANGED vars
    BY <1>1, <2>5 DEF Start, ResetFails, Stop, Die, CooldownEnds, vars, tableVars
  <2> QED
    BY <1>1, <2>1, <2>2, <2>3, <2>4, <2>5, JobLeavesClosed DEF Next, WorkerNext, ProcessNext
<1>2. IInv /\ [Next]_vars =>
        [\A t \in Tasks : row[t].status \in ClosedStatus /\ row'[t] # row[t] =>
           \/ TableNext
           \/ \E w \in Workers :
                \/ RequeueCooling(w, t) \/ GiveUpSlot(w, t)
                \/ t \in DirtyPaths /\ SanitizePath(w, t)
                \/ ~AtomicClaim /\ t \in AtStage(w, {"picked"}) /\ ClaimMark(w)]_vars
  BY <1>1
<1> QED
  BY <1>2, Inductive, PTL DEF Spec, OnlyHandBacksReopen

-----------------------------------------------------------------------------
\* The slots.

\* The goroutines between acquireDownloadSlot and releaseDownloadSlot never exceed the
\* capacity of the semaphore of their provider, however they end.
SlotsWithinCap ==
  \A t \in Tasks : IsFiniteSet(SlotsTaken(t)) /\ Cardinality(SlotsTaken(t)) <= Cap(t)

LEMMA SlotHolder ==
  ASSUME NEW t \in Tasks, NEW h
  PROVE  h \in SlotsTaken(t) <=>
           /\ h \in Workers \X Class(t)
           /\ job[h[1]][h[2]] # NoJob /\ job[h[1]][h[2]].stage \in SlotStage
  <1>1. Class(t) \subseteq Tasks
    BY DownloadAssumption DEF Class
  <1>2. QED
    BY <1>1 DEF SlotsTaken, AtStage, Held

\* Only AcquireSlot brings a goroutine into the part that holds a slot.
LEMMA NobodyEnters ==
  ASSUME TypeOK, [Next]_vars, NEW v \in Workers, NEW u \in Tasks,
         job'[v][u] # NoJob, job'[v][u].stage \in SlotStage,
         ~(job[v][u] # NoJob /\ job[v][u].stage \in SlotStage)
  PROVE  AcquireSlot(v, u)
  <1> USE DEF SlotStage
  <1>1. job'[v][u] # job[v][u]
    OBVIOUS
  <1>2. ASSUME NEW w \in Workers, NEW t \in Tasks, JobNext(w, t), ~AcquireSlot(w, t) PROVE FALSE
    <2>1. CASE EndJob(w, t)
      BY <1>1, <2>1, EndJobEffect
    <2>2. ASSUME NEW from, t \in AtStage(w, {from}),
                 \/ from = "claimed" /\ SetStage(w, t, "cleared")
                 \/ from = "entered" /\ SetStage(w, t, "working")
                 \/ from = "working" /\ SetStage(w, t, "saved")
          PROVE  FALSE
      <3>1. t \in Held(w) /\ job[w][t].stage = from /\ job[w][t] # NoJob
        BY <2>2 DEF AtStage, Held
      <3>2. CASE v = w /\ u = t
        <4>1. CASE from = "claimed"
          <5>1. job'[w][t].stage = "cleared"
            BY <2>2, <3>1, <4>1, SetStageEffect DEF JobStage
          <5>2. QED
            BY <3>2, <5>1
        <4>2. QED
          BY <2>2, <3>1, <3>2, <4>1
      <3>3. CASE v # w \/ u # t
        <4>1. job'[v][u] = job[v][u]
          BY <2>2, <3>1, <3>3, SetStageEffect DEF JobStage
        <4>2. QED
          BY <1>1, <4>1
      <3>4. QED
        BY <3>2, <3>3
    <2>3. QED
      BY <1>2, <2>1, <2>2 DEF JobNext, RequeueCooling, GiveUpSlot, Requeue, Keep, SanitizePath, Download,
         FinishDone, FinishFailed, FailWithRetry, LoseWrite
  <1>3. ASSUME NEW w \in Workers, NEW S \in SUBSET Tasks, Claim(w, S) \/ ClaimSelect(w, S) PROVE FALSE
    <2>1. PICK s \in {"picked", "claimed"} : Pick(w, S, s)
      BY <1>3 DEF Claim, ClaimSelect
    <2>2. /\ v # w => job'[v] = job[v]
          /\ job'[w][u] = NoJob \/ job'[w][u].stage = s
      BY <2>1, PickEffect
    <2>3. QED
      BY <1>1, <2>2
  <1>4. ASSUME NEW w \in Workers, NEW from \in JobStage, NEW to \in {"claimed", "waiting"},
               job' = [job EXCEPT ![w] = Advance(w, from, to)]
        PROVE  FALSE
    <2>1. Advanced(w, from, to)
      BY <1>4, AdvanceEffect DEF JobStage
    <2>2. QED
      BY <1>1, <2>1 DEF Advanced
  <1>5. ASSUME NEW w \in Workers,
               ClaimMark(w) \/ \E blocked \in BOOLEAN : BatchResolve(w, blocked)
        PROVE  FALSE
    BY <1>4, <1>5 DEF ClaimMark, BatchResolve, JobStage
  <1>6. ASSUME NEW w \in Workers, ClaimAborts(w) \/ WorkerPanics(w) PROVE FALSE
    BY <1>6 DEF ClaimAborts, WorkerPanics, TypeOK
  <1>7. CASE Die
    BY <1>7 DEF Die
  <1>8. CASE ResetRunning \/ Start \/ ResetFails \/ Stop \/ CooldownEnds \/ TableNext \/ UNCHANGED vars
    BY <1>1, <1>8 DEF ResetRunning, Start, ResetFails, Stop, CooldownEnds, TableNext, vars
  <1>9. ASSUME NEW w \in Workers, NEW t \in Tasks, AcquireSlot(w, t) PROVE w = v /\ t = u
    <2>1. t \in Held(w)
      BY <1>9, AtStageHeld DEF AcquireSlot
    <2>2. QED
      BY <1>1, <1>9, <2>1, SetStageEffect DEF AcquireSlot, JobStage
  <1>10. QED
    BY <1>2, <1>3, <1>5, <1>6, <1>7, <1>8, <1>9 DEF Next, WorkerNext, ProcessNext

\* One goroutine at most enters in a step.
LEMMA SlotsStep ==
  ASSUME TypeOK, SlotsWithinCap, [Next]_vars
  PROVE  SlotsWithinCap'
  <1> SUFFICES ASSUME NEW t \in Tasks
               PROVE  IsFiniteSet(SlotsTaken(t)') /\ Cardinality(SlotsTaken(t)') <= Cap(t)
    BY DEF SlotsWithinCap, Cap
  <1>0. Cap(t) \in Nat /\ IsFiniteSet(SlotsTaken(t)) /\ Cardinality(SlotsTaken(t)) <= Cap(t)
        /\ Cardinality(SlotsTaken(t)) \in Nat
    BY DownloadAssumption, FS_CardinalityType DEF SlotsWithinCap, Cap
  <1>1. Class(t) \subseteq Tasks
    BY DownloadAssumption DEF Class
  <1>2. \A h \in SlotsTaken(t)' :
          /\ h \in Workers \X Class(t)
          /\ job'[h[1]][h[2]] # NoJob /\ job'[h[1]][h[2]].stage \in SlotStage
    BY <1>1 DEF SlotsTaken, AtStage, Held, Class
  <1>3. CASE SlotsTaken(t)' \subseteq SlotsTaken(t)
    <2>1. IsFiniteSet(SlotsTaken(t)') /\ Cardinality(SlotsTaken(t)') <= Cardinality(SlotsTaken(t))
      BY <1>0, <1>3, FS_Subset
    <2>2. Cardinality(SlotsTaken(t)') \in Nat
      BY <2>1, FS_CardinalityType
    <2>3. QED
      BY <1>0, <2>1, <2>2
  <1>4. CASE ~(SlotsTaken(t)' \subseteq SlotsTaken(t))
    <2>1. PICK g \in SlotsTaken(t)' : g \notin SlotsTaken(t)
      BY <1>4
    <2>2. PICK v \in Workers, u \in Class(t) : g = <<v, u>>
      BY <1>2, <2>1
    <2>3. AcquireSlot(v, u)
      BY <1>1, <1>2, <2>1, <2>2, SlotHolder, NobodyEnters
    <2>4. Class(u) = Class(t) /\ Cap(u) = Cap(t) /\ u \in Tasks
      BY <2>2, DownloadAssumption DEF Class, Cap
    <2>5. SlotsTaken(u) = SlotsTaken(t)
      BY <2>4 DEF SlotsTaken
    <2>6. Cardinality(SlotsTaken(t)) < Cap(t)
      BY <2>3, <2>4, <2>5 DEF AcquireSlot
    <2>7. u \in Held(v)
      BY <2>3, AtStageHeld DEF AcquireSlot
    <2>8. \A w \in Workers : \A x \in Tasks : w # v \/ x # u => job'[w][x] = job[w][x]
      BY <2>3, <2>7, SetStageEffect DEF AcquireSlot, JobStage, SlotStage
    <2>9. SlotsTaken(t)' \subseteq SlotsTaken(t) \union {g}
      <3>1. ASSUME NEW h \in SlotsTaken(t)', h # g PROVE h \in SlotsTaken(t)
        <4>1. PICK w \in Workers, x \in Class(t) : h = <<w, x>>
          BY <1>2, <3>1
        <4>2. w # v \/ x # u
          BY <2>2, <3>1, <4>1
        <4>3. job'[w][x] = job[w][x]
          BY <1>1, <2>8, <4>2
        <4>4. QED
          BY <1>2, <3>1, <4>1, <4>3, SlotHolder
      <3>2. QED
        BY <3>1
    <2>10. IsFiniteSet(SlotsTaken(t) \union {g})
           /\ Cardinality(SlotsTaken(t) \union {g}) = Cardinality(SlotsTaken(t)) + 1
      BY <1>0, <2>1, FS_AddElement
    <2>11. IsFiniteSet(SlotsTaken(t)')
           /\ Cardinality(SlotsTaken(t)') <= Cardinality(SlotsTaken(t)) + 1
      BY <2>9, <2>10, FS_Subset
    <2>12. Cardinality(SlotsTaken(t)') \in Nat
      BY <2>11, FS_CardinalityType
    <2>13. QED
      BY <1>0, <2>6, <2>11, <2>12
  <1>5. QED
    BY <1>3, <1>4

\* However many workers and batches share the two semaphores, no more executions of one
\* kind of provider are under way than acquireDownloadSlot has slots; for any number of
\* workers, finite or not.
THEOREM SlotsKept == Spec => []SlotsWithinCap
  <1>1. Init => SlotsWithinCap
    <2> SUFFICES ASSUME Init, NEW t \in Tasks
                 PROVE  IsFiniteSet(SlotsTaken(t)) /\ Cardinality(SlotsTaken(t)) <= Cap(t)
      BY DEF SlotsWithinCap
    <2>1. SlotsTaken(t) = {}
      BY DEF Init, SlotsTaken, AtStage, Held
    <2>2. QED
      BY <2>1, FS_EmptySet, DownloadAssumption DEF Cap
  <1>2. TypeOK /\ SlotsWithinCap /\ [Next]_vars => SlotsWithinCap'
    BY SlotsStep
  <1>3. QED
    BY <1>1, <1>2, TypeCorrect, PTL DEF Spec

-----------------------------------------------------------------------------
\* The files (DownloadToFile).

\* The two names never stand for one inode, and an inode that has a name was allocated.
NamesApart ==
  /\ tmp # None => tmp \in used \ {target}
  /\ target # None => target \in used

\* A descriptor is open during the copy, and then only.
OpenWhileCopying ==
  \A w \in Writers : fd[w] # None => fd[w] \in used /\ pc[w] = "copying"

\* A temporary file that is not contended belongs to one execution at most.
OneRenamer ==
  tmp \notin contended \union {None} => \A v, w \in Renamers : v = w

\* What that execution has written so far is what the file holds.
CopyInTmp ==
  tmp \notin contended \union {None} =>
    \A w \in Writers :
      /\ pc[w] = "copying" => fd[w] = tmp /\ content[tmp] = 1..pos[w]
      /\ pc[w] = "rename" => content[tmp] = Body

\* Nobody writes into a target that is not contended.
TargetIsClosed ==
  target \notin contended \union {None} => \A w \in Writers : fd[w] # target

ReturnedMeansTarget == returned # {} => target # None

FileInv ==
  /\ FileTypeOK
  /\ NamesApart
  /\ OpenWhileCopying
  /\ OneRenamer
  /\ CopyInTmp
  /\ TargetIsClosed
  /\ TargetIsWhole
  /\ ReturnedMeansTarget

LEMMA FileInitIsGood == FileInit => FileInv
  <1> USE FileAssumption
  <1> SUFFICES ASSUME FileInit PROVE FileInv
    OBVIOUS
  <1>1. FileTypeOK
    BY DEF FileInit, FileTypeOK, PCs
  <1>2. NamesApart /\ OpenWhileCopying /\ ReturnedMeansTarget
    BY DEF FileInit, NamesApart, OpenWhileCopying, ReturnedMeansTarget
  <1>3. OneRenamer /\ CopyInTmp /\ TargetIsClosed /\ TargetIsWhole
    BY DEF FileInit, OneRenamer, CopyInTmp, TargetIsClosed, TargetIsWhole
  <1>4. QED
    BY <1>1, <1>2, <1>3 DEF FileInv

\* A step after which the files are as before, and in which executions only leave the
\* copy or the rename, or end a whole copy.
LEMMA FilesKept ==
  ASSUME FileInv, FileTypeOK',
         UNCHANGED <<tmp, target, content, used, contended>>,
         returned' \subseteq returned,
         \A v \in Writers :
           /\ fd'[v] \in {fd[v], None}
           /\ pc'[v] = "copying" => pc[v] = "copying" /\ fd'[v] = fd[v] /\ pos'[v] = pos[v]
           /\ fd'[v] # None => pc'[v] = pc[v]
           /\ pc'[v] = "rename" =>
                pc[v] = "rename" \/ (pc[v] = "copying" /\ pos[v] = Blocks)
  PROVE  FileInv'
  <1> USE FileAssumption DEF FileInv
  <1>1. Renamers' \subseteq Renamers
    BY DEF Renamers, FileTypeOK, PCs
  <1>2. NamesApart' /\ OpenWhileCopying' /\ ReturnedMeansTarget'
    BY DEF NamesApart, OpenWhileCopying, ReturnedMeansTarget
  <1>3. OneRenamer'
    BY <1>1 DEF OneRenamer
  <1>4. CopyInTmp'
    BY DEF CopyInTmp, Body
  <1>5. TargetIsClosed' /\ TargetIsWhole'
    BY DEF TargetIsClosed, TargetIsWhole
  <1>6. QED
    BY <1>2, <1>3, <1>4, <1>5

LEMMA FileTypeStep == FileTypeOK /\ [FileNext]_fileVars => FileTypeOK'
  <1> USE FileAssumption DEF FileTypeOK, PCs
  <1> SUFFICES ASSUME FileTypeOK, [FileNext]_fileVars PROVE FileTypeOK'
    OBVIOUS
  <1>1. CASE UNCHANGED fileVars
    BY <1>1 DEF fileVars
  <1>2. ASSUME NEW w \in Writers, Create(w) PROVE FileTypeOK'
    <2>1. PICK i \in Inodes :
            /\ tmp' = i /\ used' = used \union {i}
            /\ fd' = [fd EXCEPT ![w] = i] /\ content' = [content EXCEPT ![i] = {}]
            /\ contended' = IF Renamers = {} THEN contended \ {i} ELSE contended \union {i}
      BY <1>2 DEF Create
    <2>2. content' \in [Inodes -> SUBSET Body]
      BY <2>1
    <2>3. pc' \in [Writers -> PCs] /\ fd' \in [Writers -> Inodes \union {None}]
      BY <1>2, <2>1 DEF Create, Goto
    <2>4. contended' \subseteq used' /\ used' \subseteq Inodes
      BY <2>1
    <2>5. pos' \in [Writers -> 0..Blocks] /\ returned' \subseteq Writers
      BY <1>2 DEF Create
    <2>6. tmp' \in Inodes /\ target' = target /\ failures' = failures
      BY <1>2, <2>1 DEF Create
    <2>7. QED
      BY <2>2, <2>3, <2>4, <2>5, <2>6
  <1>3. ASSUME NEW w \in Writers, WriteBlock(w) PROVE FileTypeOK'
    <2>1. pos[w] + 1 \in Body /\ pos'[w] \in 0..Blocks
      BY <1>3 DEF WriteBlock, Body
    <2>2. pos' \in [Writers -> 0..Blocks]
      BY <1>3, <2>1 DEF WriteBlock
    <2>3. content' \in [Inodes -> SUBSET Body]
      BY <1>3, <2>1 DEF WriteBlock
    <2>4. QED
      BY <1>3, <2>2, <2>3 DEF WriteBlock
  <1>4. ASSUME NEW w \in Writers, CopyEnds(w) PROVE FileTypeOK'
    BY <1>4 DEF CopyEnds, Goto
  <1>5. ASSUME NEW w \in Writers, CopyFails(w) PROVE FileTypeOK'
    BY <1>5 DEF CopyFails, Goto, Failure
  <1>6. ASSUME NEW w \in Writers, Discard(w) PROVE FileTypeOK'
    BY <1>6 DEF Discard, Goto
  <1>7. ASSUME NEW w \in Writers, Rename(w) PROVE FileTypeOK'
    BY <1>7 DEF Rename, Goto
  <1>8. ASSUME NEW w \in Writers, RenameFails(w) PROVE FileTypeOK'
    BY <1>8 DEF RenameFails, Goto, Failure
  <1>9. CASE Crash
    BY <1>9 DEF Crash, Failure
  <1>10. QED
    BY <1>1, <1>2, <1>3, <1>4, <1>5, <1>6, <1>7, <1>8, <1>9 DEF FileNext, WriterNext

\* An execution that finds no other one yet to rename has a temporary file of its own; any
\* other one marks the file it shares.
LEMMA CreateKeeps ==
  ASSUME FileInv, FileTypeOK', NEW w \in Writers, Create(w)
  PROVE  FileInv'
  <1> USE FileAssumption DEF FileInv
  <1>1. PICK i \in Inodes :
          /\ i = tmp \/ (tmp = None /\ i \notin used)
          /\ tmp' = i /\ used' = used \union {i}
          /\ fd' = [fd EXCEPT ![w] = i] /\ content' = [content EXCEPT ![i] = {}]
          /\ contended' = IF Renamers = {} THEN contended \ {i} ELSE contended \union {i}
    BY DEF Create
  <1>2. pc[w] = "idle" /\ pc' = [pc EXCEPT ![w] = "copying"] /\ pos' = [pos EXCEPT ![w] = 0]
        /\ target' = target /\ returned' = returned \ {w}
    BY DEF Create, Goto
  <1>3. i # target /\ i # None
    BY <1>1 DEF NamesApart
  <1>4. target \notin contended' \union {None} => target \notin contended \union {None}
    BY <1>1, <1>3
  <1>5. NamesApart'
    BY <1>1, <1>2, <1>3 DEF NamesApart
  <1>6. OpenWhileCopying'
    BY <1>1, <1>2 DEF OpenWhileCopying, FileTypeOK
  <1>7. ASSUME Renamers # {} PROVE OneRenamer' /\ CopyInTmp'
    <2>1. tmp' \in contended'
      BY <1>1, <1>7
    <2>2. QED
      BY <2>1 DEF OneRenamer, CopyInTmp
  <1>8. ASSUME Renamers = {} PROVE OneRenamer' /\ CopyInTmp'
    <2>1. \A v \in Writers : v # w => pc'[v] \notin {"copying", "rename"}
      BY <1>2, <1>8 DEF Renamers, FileTypeOK
    <2>2. Renamers' \subseteq {w}
      BY <2>1 DEF Renamers
    <2>3. pc'[w] = "copying" /\ fd'[w] = tmp' /\ content'[tmp'] = {} /\ pos'[w] = 0
      BY <1>1, <1>2 DEF FileTypeOK
    <2>4. 1..0 = {}
      OBVIOUS
    <2>5. OneRenamer'
      BY <2>2 DEF OneRenamer
    <2>6. CopyInTmp'
      BY <2>1, <2>3, <2>4 DEF CopyInTmp
    <2>7. QED
      BY <2>5, <2>6
  <1>9. OneRenamer' /\ CopyInTmp'
    BY <1>7, <1>8
  <1>10. TargetIsClosed'
    BY <1>1, <1>2, <1>3, <1>4 DEF TargetIsClosed, FileTypeOK
  <1>11. TargetIsWhole'
    BY <1>1, <1>2, <1>3, <1>4 DEF TargetIsWhole, FileTypeOK
  <1>12. ReturnedMeansTarget'
    BY <1>2 DEF ReturnedMeansTarget
  <1>13. QED
    BY <1>5, <1>6, <1>9, <1>10, <1>11, <1>12

LEMMA WriteBlockKeeps ==
  ASSUME FileInv, FileTypeOK', NEW w \in Writers, WriteBlock(w)
  PROVE  FileInv'
  <1> USE FileAssumption DEF FileInv
  <1>1. /\ pc[w] = "copying" /\ pos[w] \in 0..Blocks
        /\ pos' = [pos EXCEPT ![w] = pos[w] + 1]
        /\ content' = [content EXCEPT ![fd[w]] = content[fd[w]] \union {pos[w] + 1}]
        /\ UNCHANGED <<tmp, target, used, pc, fd, returned, failures, contended>>
    BY DEF WriteBlock, FileTypeOK
  <1>2. Renamers' = Renamers
    BY <1>1 DEF Renamers
  <1>3. NamesApart' /\ OpenWhileCopying' /\ ReturnedMeansTarget' /\ TargetIsClosed'
    BY <1>1 DEF NamesApart, OpenWhileCopying, ReturnedMeansTarget, TargetIsClosed
  <1>4. OneRenamer'
    BY <1>1, <1>2 DEF OneRenamer
  <1>5. CopyInTmp'
    <2> SUFFICES ASSUME tmp \notin contended \union {None} PROVE CopyInTmp'
      BY <1>1 DEF CopyInTmp
    <2>1. fd[w] = tmp /\ content[tmp] = 1..pos[w]
      BY <1>1 DEF CopyInTmp
    <2>2. \A v \in Writers : v # w => pc[v] \notin {"copying", "rename"}
      BY <1>1 DEF OneRenamer, Renamers
    <2>3. content'[tmp] = 1..pos[w] \union {pos[w] + 1}
      BY <1>1, <2>1 DEF FileTypeOK
    <2>4. pos'[w] = pos[w] + 1 /\ 1..pos[w] \union {pos[w] + 1} = 1..(pos[w] + 1)
      BY <1>1 DEF FileTypeOK
    <2>5. fd'[w] = tmp' /\ content'[tmp'] = 1..pos'[w]
      BY <1>1, <2>1, <2>3, <2>4
    <2>6. \A v \in Writers : v # w => pc'[v] \notin {"copying", "rename"}
      BY <1>1, <2>2
    <2>7. pc'[w] = "copying"
      BY <1>1
    <2>8. QED
      BY <2>5, <2>6, <2>7 DEF CopyInTmp
  <1>6. TargetIsWhole'
    BY <1>1 DEF TargetIsWhole, TargetIsClosed, FileTypeOK
  <1>7. QED
    BY <1>3, <1>4, <1>5, <1>6

LEMMA RenameKeeps ==
  ASSUME FileInv, FileTypeOK', NEW w \in Writers, Rename(w)
  PROVE  FileInv'
  <1> USE FileAssumption DEF FileInv
  <1>1. /\ pc[w] = "rename" /\ tmp # None /\ target' = tmp /\ tmp' = None
        /\ pc' = [pc EXCEPT ![w] = "idle"]
        /\ UNCHANGED <<content, used, fd, pos, failures, contended>>
    BY DEF Rename, Goto
  <1>2. NamesApart' /\ ReturnedMeansTarget'
    BY <1>1 DEF NamesApart, ReturnedMeansTarget
  <1>3. OpenWhileCopying'
    BY <1>1 DEF OpenWhileCopying, FileTypeOK
  <1>4. OneRenamer' /\ CopyInTmp'
    BY <1>1 DEF OneRenamer, CopyInTmp
  <1>5. TargetIsWhole'
    BY <1>1 DEF TargetIsWhole, CopyInTmp
  <1>6. TargetIsClosed'
    <2> SUFFICES ASSUME tmp \notin contended, NEW v \in Writers, fd[v] = tmp PROVE FALSE
      BY <1>1 DEF TargetIsClosed
    <2>1. pc[v] = "copying"
      BY <1>1 DEF OpenWhileCopying
    <2>2. v \in Renamers /\ w \in Renamers /\ v # w
      BY <1>1, <2>1 DEF Renamers
    <2>3. QED
      BY <1>1, <2>2 DEF OneRenamer
  <1>7. QED
    BY <1>2, <1>3, <1>4, <1>5, <1>6

LEMMA DiscardKeeps ==
  ASSUME FileInv, FileTypeOK', NEW w \in Writers, Discard(w)
  PROVE  FileInv'
  <1> USE DEF FileInv
  <1>1. /\ tmp' = None /\ pc[w] = "discard" /\ pc' = [pc EXCEPT ![w] = "idle"]
        /\ UNCHANGED <<target, content, used, fd, pos, returned, failures, contended>>
    BY DEF Discard, Goto
  <1>2. NamesApart' /\ ReturnedMeansTarget' /\ TargetIsWhole' /\ TargetIsClosed'
    BY <1>1 DEF NamesApart, ReturnedMeansTarget, TargetIsWhole, TargetIsClosed
  <1>3. OpenWhileCopying'
    BY <1>1 DEF OpenWhileCopying, FileTypeOK
  <1>4. OneRenamer' /\ CopyInTmp'
    BY <1>1 DEF OneRenamer, CopyInTmp
  <1>5. QED
    BY <1>2, <1>3, <1>4

LEMMA FileStepKeeps == FileInv /\ [FileNext]_fileVars => FileInv'
  <1> SUFFICES ASSUME FileInv, [FileNext]_fileVars PROVE FileInv'
    OBVIOUS
  <1>0. FileTypeOK /\ FileTypeOK'
    BY FileTypeStep DEF FileInv
  <1>1. CASE UNCHANGED fileVars
    BY <1>0, <1>1, FilesKept DEF fileVars
  <1>2. ASSUME NEW w \in Writers, Create(w) PROVE FileInv'
    BY <1>0, <1>2, CreateKeeps
  <1>3. ASSUME NEW w \in Writers, WriteBlock(w) PROVE FileInv'
    BY <1>0, <1>3, WriteBlockKeeps
  <1>4. ASSUME NEW w \in Writers, CopyEnds(w) PROVE FileInv'
    BY <1>0, <1>4, FilesKept DEF CopyEnds, Goto, FileTypeOK
  <1>5. ASSUME NEW w \in Writers, CopyFails(w) PROVE FileInv'
    BY <1>0, <1>5, FilesKept DEF CopyFails, Goto, FileTypeOK
  <1>6. ASSUME NEW w \in Writers, Discard(w) PROVE FileInv'
    BY <1>0, <1>6, DiscardKeeps
  <1>7. ASSUME NEW w \in Writers, Rename(w) PROVE FileInv'
    BY <1>0, <1>7, RenameKeeps
  <1>8. ASSUME NEW w \in Writers, RenameFails(w) PROVE FileInv'
    <2>1. fd[w] = None
      BY <1>8 DEF RenameFails, FileInv, OpenWhileCopying
    <2>2. QED
      BY <1>0, <1>8, <2>1, FilesKept DEF RenameFails, Goto, FileTypeOK
  <1>9. CASE Crash
    BY <1>0, <1>9, FilesKept DEF Crash, FileTypeOK
  <1>10. QED
    BY <1>1, <1>2, <1>3, <1>4, <1>5, <1>6, <1>7, <1>8, <1>9 DEF FileNext, WriterNext

LEMMA FileInvHolds == FileSpec => []FileInv
  BY FileInitIsGood, FileStepKeeps, PTL DEF FileSpec

\* The directory, the inodes and the writers of downloadToFile are well formed, for any
\* number of executions of one target and any size of the body.
THEOREM FileTypeCorrect == FileSpec => []FileTypeOK
  <1>1. FileInv => FileTypeOK
    BY DEF FileInv
  <1>2. QED
    BY <1>1, FileInvHolds, PTL

\* The target is absent or whole, whatever fails or dies and however many executions
\* there are, unless it was written by executions that overlapped.
THEOREM TargetWhole == FileSpec => []TargetIsWhole
  <1>1. FileInv => TargetIsWhole
    BY DEF FileInv
  <1>2. QED
    BY <1>1, FileInvHolds, PTL

\* downloadToFile returns no error without a target, and none without a whole one unless
\* another execution was in its way.
THEOREM ReturnedWhole == FileSpec => []ReturnedMeansWhole
  <1>1. FileInv => ReturnedMeansWhole
    BY DEF FileInv, ReturnedMeansTarget, TargetIsWhole, ReturnedMeansWhole
  <1>2. QED
    BY <1>1, FileInvHolds, PTL

\* What a reader of the target sees: a target is replaced by a rename only, and the file
\* it names is never written in place, unless executions have shared that file.
NeverWrittenInPlace ==
  [][/\ target' # target => target' = tmp /\ target' # None
     /\ target' = target /\ target \notin contended \union {None} =>
          content'[target] = content[target]]_fileVars

LEMMA WritesInPlaceNot ==
  ASSUME FileInv, [FileNext]_fileVars, target' = target, target \notin contended \union {None}
  PROVE  content'[target] = content[target]
  <1> USE FileAssumption DEF FileInv
  <1>1. target \in Inodes
    BY DEF FileTypeOK
  <1>2. ASSUME NEW w \in Writers, Create(w) PROVE content'[target] = content[target]
    <2>1. PICK i \in Inodes :
            /\ i = tmp \/ (tmp = None /\ i \notin used)
            /\ content' = [content EXCEPT ![i] = {}]
      BY <1>2 DEF Create
    <2>2. i # target
      BY <2>1 DEF NamesApart
    <2>3. QED
      BY <1>1, <2>1, <2>2 DEF FileTypeOK
  <1>3. ASSUME NEW w \in Writers, WriteBlock(w) PROVE content'[target] = content[target]
    BY <1>1, <1>3 DEF WriteBlock, TargetIsClosed, FileTypeOK
  <1>4. ASSUME NEW w \in Writers, ~Create(w), ~WriteBlock(w), WriterNext(w) PROVE content' = content
    BY <1>4 DEF WriterNext, CopyEnds, CopyFails, Discard, Rename, RenameFails
  <1>5. CASE Crash \/ UNCHANGED fileVars
    BY <1>5 DEF Crash, fileVars
  <1>6. QED
    BY <1>2, <1>3, <1>4, <1>5 DEF FileNext

LEMMA ReplacedByRename ==
  ASSUME [FileNext]_fileVars, target' # target
  PROVE  target' = tmp /\ target' # None
  BY DEF FileNext, WriterNext, Create, WriteBlock, CopyEnds, CopyFails, Discard, Rename,
         RenameFails, Crash, fileVars

\* Readers of the target (the media server among them) never see it change under them.
THEOREM NeverInPlace == FileSpec => NeverWrittenInPlace
  <1>1. FileInv /\ [FileNext]_fileVars =>
          [/\ target' # target => target' = tmp /\ target' # None
           /\ target' = target /\ target \notin contended \union {None} =>
                content'[target] = content[target]]_fileVars
    BY WritesInPlaceNot, ReplacedByRename
  <1>2. QED
    BY <1>1, FileInvHolds, PTL DEF FileSpec, NeverWrittenInPlace

=============================================================================
