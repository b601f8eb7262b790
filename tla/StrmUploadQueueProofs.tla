----------------------- MODULE StrmUploadQueueProofs -----------------------
(***************************************************************************)
(* Proofs about StrmUploadQueue, for any set of rows, workers and users,   *)
(* any retry limit, and any number of restarts and failed writes: what     *)
(* "done" means on the remote drive, and what the queue promises.          *)
(***************************************************************************)
EXTENDS StrmUploadQueue, StrmTaskTableProofs

\* A transaction that is open between its SELECT and its UPDATE exists only where the
\* database lets other statements in between.
PickedIsPostgres == AtomicClaim => \A w \in Workers : ~AtStage(w, "picked")

\* Only rows that were inserted are ever claimed.
ClaimedIsBorn == \A w \in Workers : ~Idle(w) => row[job[w].task].status # "unborn"

\* What an execution has already done to the drive stays done, whatever other executions
\* of the same row do meanwhile.
StagesAreReached ==
  \A w \in Workers :
    /\ AtStage(w, "cleaned") \/ AtStage(w, "sent") => job[w].task \notin oldCopy
    /\ AtStage(w, "sent") => job[w].task \in uploaded

IInv ==
  /\ TypeOK
  /\ PickedIsPostgres
  /\ ClaimedIsBorn
  /\ StagesAreReached
  /\ DoneIsReplaced

-----------------------------------------------------------------------------
\* Jobs.

LEMMA BusyJob ==
  ASSUME TypeOK, NEW w \in Workers, job[w].stage # "none"
  PROVE  /\ job[w] \in Job
         /\ job[w].stage \in JobStage
         /\ job[w].task \in Tasks
         /\ job[w].copy \in Row
         /\ ~Idle(w)
<1>1. job[w] \in Job
  BY DEF TypeOK, NoJob
<1> QED
  BY <1>1 DEF Job, Idle, NoJob

LEMMA EndJobEffect ==
  ASSUME TypeOK, NEW w \in Workers, EndJob(w)
  PROVE  /\ job' \in [Workers -> Job \union {NoJob}]
         /\ \A v \in Workers : job'[v] = IF v = w THEN NoJob ELSE job[v]
BY DEF TypeOK, EndJob

LEMMA SetStageEffect ==
  ASSUME TypeOK, NEW w \in Workers, job[w].stage # "none", NEW s \in JobStage, SetStage(w, s)
  PROVE  /\ job' \in [Workers -> Job \union {NoJob}]
         /\ \A v \in Workers : v # w => job'[v] = job[v]
         /\ job'[w].stage = s
         /\ job'[w].task = job[w].task
<1>1. job[w] \in Job
  BY BusyJob
<1> DEFINE new == [job[w] EXCEPT !.stage = s]
<1>2. new \in Job /\ new.stage = s /\ new.task = job[w].task
  BY <1>1 DEF Job
<1>3. job' = [job EXCEPT ![w] = new]
  BY DEF SetStage
<1> HIDE DEF new
<1> QED
  BY <1>2, <1>3 DEF TypeOK

-----------------------------------------------------------------------------
\* The shapes of the steps.

\* Jobs stay or end, the drive only gains, and no row becomes done without its file.
LEMMA EndKeeps ==
  ASSUME IInv, TypeOK', UNCHANGED database,
         \A w \in Workers : job'[w] = job[w] \/ job'[w] = NoJob,
         UNCHANGED remoteVars,
         \A t \in Tasks : row'[t].status = "unborn" => row[t].status = "unborn",
         \A t \in Tasks : row'[t].status = "done" =>
           row[t].status = "done" \/ (t \in uploaded /\ t \notin oldCopy)
  PROVE  IInv'
<1>1. PickedIsPostgres'
  BY DEF IInv, PickedIsPostgres, AtStage, AtomicClaim, NoJob
<1>2. \A w \in Workers : job'[w] # NoJob => job[w] # NoJob /\ job[w].stage # "none" /\ job[w].task \in Tasks
  BY DEF IInv, TypeOK, NoJob, Job, JobStage
<1>3. ClaimedIsBorn'
  BY <1>2 DEF IInv, ClaimedIsBorn, Idle
<1>4. StagesAreReached'
  BY DEF IInv, StagesAreReached, AtStage, NoJob, remoteVars
<1>5. DoneIsReplaced'
  BY DEF IInv, DoneIsReplaced, With, remoteVars
<1> QED
  BY <1>1, <1>3, <1>4, <1>5 DEF IInv

\* One job goes on: it has reached what its new stage says, the drive only gains.
LEMMA StageKeeps ==
  ASSUME IInv, TypeOK', UNCHANGED database,
         NEW w \in Workers, NEW s \in JobStage \ {"picked"},
         \A v \in Workers : v # w => job'[v] = job[v],
         job'[w].stage = s, job'[w].task \in Tasks,
         row[job'[w].task].status # "unborn",
         oldCopy' \subseteq oldCopy, uploaded \subseteq uploaded',
         s \in {"cleaned", "sent"} => job'[w].task \notin oldCopy',
         s = "sent" => job'[w].task \in uploaded',
         \A t \in Tasks : row'[t].status = "unborn" => row[t].status = "unborn",
         \A t \in Tasks : row'[t].status = "done" => row[t].status = "done"
  PROVE  IInv'
<1>1. PickedIsPostgres'
  BY DEF IInv, PickedIsPostgres, AtStage, AtomicClaim
<1>2. \A v \in Workers : job[v] # NoJob => job[v].task \in Tasks
  BY DEF IInv, TypeOK, NoJob, Job
<1>3. ClaimedIsBorn'
  <2> SUFFICES ASSUME NEW v \in Workers, job'[v] # NoJob
               PROVE  row'[job'[v].task].status # "unborn"
    BY DEF ClaimedIsBorn, Idle
  <2>1. CASE v = w
    BY <2>1
  <2>2. CASE v # w
    BY <1>2, <2>2 DEF IInv, ClaimedIsBorn, Idle
  <2> QED
    BY <2>1, <2>2
<1>4. StagesAreReached'
  <2> SUFFICES ASSUME NEW v \in Workers
               PROVE  /\ job'[v].stage \in {"cleaned", "sent"} => job'[v].task \notin oldCopy'
                      /\ job'[v].stage = "sent" => job'[v].task \in uploaded'
    BY DEF StagesAreReached, AtStage
  <2>1. CASE v = w
    BY <2>1
  <2>2. CASE v # w
    BY <2>2 DEF IInv, StagesAreReached, AtStage
  <2> QED
    BY <2>1, <2>2
<1>5. DoneIsReplaced'
  BY DEF IInv, DoneIsReplaced, With
<1> QED
  BY <1>1, <1>3, <1>4, <1>5 DEF IInv

-----------------------------------------------------------------------------
\* The worker.

LEMMA PickEffect ==
  ASSUME TypeOK, NEW w \in Workers, NEW t \in Tasks, NEW s \in {"picked", "claimed"}, Pick(w, t, s)
  PROVE  /\ job' \in [Workers -> Job \union {NoJob}]
         /\ \A v \in Workers : v # w => job'[v] = job[v]
         /\ job'[w].stage = s
         /\ job'[w].task = t
         /\ row[t].status = "pending"
<1> DEFINE new == [stage |-> s, task |-> t, copy |-> Running(row[t])]
<1>1. Running(row[t]) \in Row
  BY RunningType DEF TypeOK, TableTypeOK
<1>2. new \in Job /\ new.stage = s /\ new.task = t
  BY <1>1 DEF Job, JobStage
<1>3. job' = [job EXCEPT ![w] = new]
  BY DEF Pick
<1>4. row[t].status = "pending"
  BY DEF Pick, OldestClaimable, Claimable, With
<1> HIDE DEF new
<1> QED
  BY <1>2, <1>3, <1>4 DEF TypeOK

LEMMA MarkOne ==
  ASSUME TypeOK, NEW t \in Tasks, row' = MarkRunning({t})
  PROVE  /\ row' \in [Tasks -> Row]
         /\ \A u \in Tasks : u # t => row'[u] = row[u]
         /\ \/ row'[t] = row[t]
            \/ row[t].status \in StoredStatus /\ row'[t].status = "running"
<1>1. row \in [Tasks -> Row]
  BY DEF TypeOK, TableTypeOK
<1>2. /\ row' \in [Tasks -> Row]
      /\ \A u \in Tasks : row'[u] = IF u \in {t} /\ row[u].status \in StoredStatus
                                    THEN Running(row[u]) ELSE row[u]
  BY <1>1, MarkRunningEffect
<1>3. Running(row[t]).status = "running"
  BY <1>1, RunningType
<1> QED
  BY <1>2, <1>3

LEMMA ClaimStep ==
  ASSUME IInv, NEW w \in Workers, NEW t \in Tasks, Claim(w, t) \/ ClaimSelect(w, t)
  PROVE  IInv'
<1>t. TypeOK
  BY DEF IInv
<1>1. CASE Claim(w, t)
  <2>1. Pick(w, t, "claimed") /\ row' = MarkRunning({t})
    BY <1>1 DEF Claim
  <2>2. UNCHANGED <<op, userOps, database, remoteVars, procVars>>
    BY <2>1 DEF Pick
  <2>3. /\ job' \in [Workers -> Job \union {NoJob}]
        /\ \A v \in Workers : v # w => job'[v] = job[v]
        /\ job'[w].stage = "claimed"
        /\ job'[w].task = t
        /\ row[t].status = "pending"
    BY <1>t, <2>1, PickEffect
  <2>4. /\ row' \in [Tasks -> Row]
        /\ \A u \in Tasks : u # t => row'[u] = row[u]
        /\ \/ row'[t] = row[t]
           \/ row[t].status \in StoredStatus /\ row'[t].status = "running"
    BY <1>t, <2>1, MarkOne
  <2>5. TypeOK'
    BY <1>t, <2>2, <2>3, <2>4 DEF TypeOK, TableTypeOK, remoteVars, procVars
  <2>6. "claimed" \in JobStage \ {"picked"}
    BY DEF JobStage
  <2>7. row[job'[w].task].status # "unborn" /\ job'[w].task \in Tasks
    BY <2>3
  <2> QED
    BY <2>2, <2>3, <2>4, <2>5, <2>6, <2>7, StageKeeps DEF remoteVars
<1>2. CASE ClaimSelect(w, t)
  <2>1. Pick(w, t, "picked") /\ row' = row /\ ~AtomicClaim
    BY <1>2 DEF ClaimSelect
  <2>2. UNCHANGED <<op, userOps, database, remoteVars, procVars>>
    BY <2>1 DEF Pick
  <2>3. /\ job' \in [Workers -> Job \union {NoJob}]
        /\ \A v \in Workers : v # w => job'[v] = job[v]
        /\ job'[w].stage = "picked"
        /\ job'[w].task = t
        /\ row[t].status = "pending"
    BY <1>t, <2>1, PickEffect
  <2>4. TypeOK'
    BY <1>t, <2>1, <2>2, <2>3 DEF TypeOK, TableTypeOK, remoteVars, procVars
  <2>5. PickedIsPostgres'
    BY <2>1, <2>2 DEF PickedIsPostgres, AtomicClaim
  <2>6. ClaimedIsBorn'
    <3> SUFFICES ASSUME NEW v \in Workers, job'[v] # NoJob
                 PROVE  row[job'[v].task].status # "unborn"
      BY <2>1 DEF ClaimedIsBorn, Idle
    <3>1. CASE v = w
      BY <2>3, <3>1
    <3>2. CASE v # w
      BY <2>3, <3>2 DEF IInv, ClaimedIsBorn, Idle
    <3> QED
      BY <3>1, <3>2
  <2>7. StagesAreReached'
    <3> SUFFICES ASSUME NEW v \in Workers
                 PROVE  /\ job'[v].stage \in {"cleaned", "sent"} => job'[v].task \notin oldCopy
                        /\ job'[v].stage = "sent" => job'[v].task \in uploaded
      BY <2>2 DEF StagesAreReached, AtStage, remoteVars
    <3>1. CASE v = w
      BY <2>3, <3>1
    <3>2. CASE v # w
      BY <2>3, <3>2 DEF IInv, StagesAreReached, AtStage
    <3> QED
      BY <3>1, <3>2
  <2>8. DoneIsReplaced'
    BY <2>1, <2>2 DEF IInv, DoneIsReplaced, With, remoteVars
  <2> QED
    BY <2>4, <2>5, <2>6, <2>7, <2>8 DEF IInv
<1> QED
  BY <1>1, <1>2

LEMMA StageStep ==
  ASSUME IInv, NEW w \in Workers, ClaimMark(w) \/ DeleteOldCopies(w) \/ Put(w)
  PROVE  IInv'
<1>1. TypeOK /\ job[w].stage # "none"
  BY DEF IInv, ClaimMark, DeleteOldCopies, Put, AtStage
<1>2. job[w].task \in Tasks /\ row[job[w].task].status # "unborn"
  BY <1>1, BusyJob DEF IInv, ClaimedIsBorn
<1>3. ASSUME NEW s \in JobStage, SetStage(w, s)
      PROVE  /\ job' \in [Workers -> Job \union {NoJob}]
             /\ \A v \in Workers : v # w => job'[v] = job[v]
             /\ job'[w].stage = s
             /\ job'[w].task = job[w].task
  BY <1>1, <1>3, SetStageEffect
<1>s. {"claimed", "cleaned", "sent"} \subseteq JobStage \ {"picked"}
  BY DEF JobStage
<1>4. CASE ClaimMark(w)
  <2>1. SetStage(w, "claimed") /\ row' = MarkRunning({job[w].task})
    BY <1>4 DEF ClaimMark
  <2>2. /\ row' \in [Tasks -> Row]
        /\ \A u \in Tasks : u # job[w].task => row'[u] = row[u]
        /\ \/ row'[job[w].task] = row[job[w].task]
           \/ /\ row[job[w].task].status \in StoredStatus
              /\ row'[job[w].task].status = "running"
    BY <1>1, <1>2, <2>1, MarkOne
  <2>3. /\ job' \in [Workers -> Job \union {NoJob}]
        /\ \A v \in Workers : v # w => job'[v] = job[v]
        /\ job'[w].stage = "claimed"
        /\ job'[w].task = job[w].task
    BY <1>3, <1>s, <2>1
  <2>4. TypeOK'
    BY <1>1, <1>4, <2>2, <2>3 DEF ClaimMark, TypeOK, TableTypeOK, remoteVars, procVars
  <2>5. /\ \A t \in Tasks : row'[t].status = "unborn" => row[t].status = "unborn"
        /\ \A t \in Tasks : row'[t].status = "done" => row[t].status = "done"
    BY <2>2
  <2> QED
    BY <1>2, <1>4, <1>s, <2>3, <2>4, <2>5, StageKeeps DEF ClaimMark, remoteVars
<1>5. CASE DeleteOldCopies(w)
  <2>1. SetStage(w, "cleaned") /\ oldCopy' = oldCopy \ ({job[w].task} \intersect Replacing)
        /\ UNCHANGED <<tableVars, uploaded, procVars>>
    BY <1>5 DEF DeleteOldCopies
  <2>2. /\ job' \in [Workers -> Job \union {NoJob}]
        /\ \A v \in Workers : v # w => job'[v] = job[v]
        /\ job'[w].stage = "cleaned"
        /\ job'[w].task = job[w].task
    BY <1>3, <1>s, <2>1
  <2>3. TypeOK'
    BY <1>1, <2>1, <2>2 DEF TypeOK, TableTypeOK, tableVars, procVars
  <2>4. oldCopy \subseteq Replacing
    BY <1>1 DEF TypeOK
  <2>5. job'[w].task \notin oldCopy' /\ oldCopy' \subseteq oldCopy
    BY <2>1, <2>2, <2>4
  <2> QED
    BY <1>2, <1>s, <2>1, <2>2, <2>3, <2>5, StageKeeps DEF tableVars
<1>6. CASE Put(w)
  <2>1. SetStage(w, "sent") /\ uploaded' = uploaded \union {job[w].task} /\ job[w].stage = "cleaned"
        /\ UNCHANGED <<tableVars, oldCopy, procVars>>
    BY <1>6 DEF Put, AtStage
  <2>2. /\ job' \in [Workers -> Job \union {NoJob}]
        /\ \A v \in Workers : v # w => job'[v] = job[v]
        /\ job'[w].stage = "sent"
        /\ job'[w].task = job[w].task
    BY <1>3, <1>s, <2>1
  <2>3. TypeOK'
    BY <1>1, <1>2, <2>1, <2>2 DEF TypeOK, TableTypeOK, tableVars, procVars
  <2>4. job[w].task \notin oldCopy
    BY <2>1 DEF IInv, StagesAreReached, AtStage
  <2> QED
    BY <1>2, <1>s, <2>1, <2>2, <2>3, <2>4, StageKeeps DEF tableVars
<1> QED
  BY <1>4, <1>5, <1>6

\* A job closes its row, conditionally; done only after the file was sent.
LEMMA CloseStep ==
  ASSUME IInv, NEW w \in Workers, FinishDone(w) \/ FinishFailed(w) \/ FailWithRetry(w)
  PROVE  IInv'
<1>1. TypeOK /\ job[w].stage # "none" /\ row \in [Tasks -> Row]
  BY DEF IInv, TypeOK, TableTypeOK, FinishDone, FinishFailed, FailWithRetry, AtStage, Executing, Idle, NoJob, Job, JobStage
<1>2. job[w].task \in Tasks /\ job[w].copy \in Row
  BY <1>1, BusyJob
<1>3. /\ EndJob(w) /\ UNCHANGED <<op, userOps, database, remoteVars, procVars>>
      /\ \E new \in Row :
           /\ row' = UpdateIfRunning(job[w].task, new)
           /\ new.status \in {"pending", "failed", "done"}
           /\ new.status = "done" => AtStage(w, "sent")
  <2>1. CASE FinishDone(w)
    <3>1. Finished(job[w].task, "done") \in Row /\ Finished(job[w].task, "done").status = "done"
      BY <1>1, <1>2, FinishedType DEF ClosedStatus
    <3> QED
      BY <2>1, <3>1 DEF FinishDone
  <2>2. CASE FinishFailed(w)
    <3>1. Finished(job[w].task, "failed") \in Row /\ Finished(job[w].task, "failed").status = "failed"
      BY <1>1, <1>2, FinishedType DEF ClosedStatus
    <3> QED
      BY <2>2, <3>1 DEF FinishFailed
  <2>3. CASE FailWithRetry(w)
    <3>1. /\ AfterFailure(job[w].copy) \in Row
          /\ AfterFailure(job[w].copy).status \in {"pending", "failed"}
      BY <1>2, AfterFailureType
    <3> QED
      BY <2>3, <3>1 DEF FailWithRetry
  <2> QED
    BY <2>1, <2>2, <2>3
<1>4. PICK new \in Row :
        /\ row' = UpdateIfRunning(job[w].task, new)
        /\ new.status \in {"pending", "failed", "done"}
        /\ new.status = "done" => AtStage(w, "sent")
  BY <1>3
<1>5. /\ row' \in [Tasks -> Row]
      /\ \A u \in Tasks : u # job[w].task => row'[u] = row[u]
      /\ row'[job[w].task] = IF row[job[w].task].status = "running" THEN new ELSE row[job[w].task]
  BY <1>1, <1>2, <1>4, UpdateIfRunningEffect
<1>6. /\ job' \in [Workers -> Job \union {NoJob}]
      /\ \A v \in Workers : job'[v] = job[v] \/ job'[v] = NoJob
  BY <1>1, <1>3, EndJobEffect
<1>7. TypeOK'
  BY <1>1, <1>3, <1>5, <1>6 DEF TypeOK, TableTypeOK, remoteVars, procVars
<1>8. AtStage(w, "sent") => job[w].task \in uploaded /\ job[w].task \notin oldCopy
  BY DEF IInv, StagesAreReached
<1>9. /\ \A t \in Tasks : row'[t].status = "unborn" => row[t].status = "unborn"
      /\ \A t \in Tasks : row'[t].status = "done" =>
           row[t].status = "done" \/ (t \in uploaded /\ t \notin oldCopy)
  BY <1>4, <1>5, <1>8
<1> QED
  BY <1>3, <1>6, <1>7, <1>9, EndKeeps

LEMMA WorkerStep ==
  ASSUME IInv, NEW w \in Workers, WorkerNext(w)
  PROVE  IInv'
<1>t. TypeOK /\ MaxFaults \in Nat /\ faults \in 0..MaxFaults
  BY UploadAssumption DEF IInv, TypeOK
<1>1. CASE ClaimAborts(w)
  <2>1. faults' \in 0..MaxFaults
    BY <1>t, <1>1 DEF ClaimAborts
  <2>2. /\ job' \in [Workers -> Job \union {NoJob}]
        /\ \A v \in Workers : job'[v] = job[v] \/ job'[v] = NoJob
    BY <1>t, <1>1, EndJobEffect DEF ClaimAborts
  <2>3. TypeOK'
    BY <1>t, <1>1, <2>1, <2>2 DEF ClaimAborts, TypeOK, TableTypeOK, tableVars, remoteVars
  <2> QED
    BY <1>1, <2>2, <2>3, EndKeeps DEF ClaimAborts, tableVars
<1>2. CASE LoseWrite(w)
  <2>1. faults' \in 0..MaxFaults
    BY <1>t, <1>2 DEF LoseWrite
  <2>2. /\ job' \in [Workers -> Job \union {NoJob}]
        /\ \A v \in Workers : job'[v] = job[v] \/ job'[v] = NoJob
    BY <1>t, <1>2, EndJobEffect DEF LoseWrite
  <2>3. stuck' \subseteq Tasks
    BY <1>t, <1>2 DEF LoseWrite, TypeOK, With
  <2>4. TypeOK'
    BY <1>t, <1>2, <2>1, <2>2, <2>3 DEF LoseWrite, TypeOK, TableTypeOK, tableVars, remoteVars
  <2> QED
    BY <1>2, <2>2, <2>4, EndKeeps DEF LoseWrite, tableVars
<1> QED
  BY <1>1, <1>2, ClaimStep, StageStep, CloseStep DEF WorkerNext, JobNext

-----------------------------------------------------------------------------
\* The process and the table.

LEMMA ProcessStep ==
  ASSUME IInv, ProcessNext
  PROVE  IInv'
<1>t. /\ TypeOK /\ row \in [Tasks -> Row] /\ MaxFaults \in Nat /\ MaxStarts \in Nat
      /\ starts \in 0..MaxStarts /\ faults \in 0..MaxFaults
  BY UploadAssumption DEF IInv, TypeOK, TableTypeOK
<1>1. CASE Start
  <2>1. starts' \in 0..MaxStarts
    BY <1>t, <1>1 DEF Start
  <2>2. TypeOK'
    BY <1>t, <1>1, <2>1 DEF Start, TypeOK, TableTypeOK, tableVars, remoteVars
  <2> QED
    BY <1>1, <2>2, EndKeeps DEF Start, tableVars
<1>2. CASE Stop
  <2>1. TypeOK'
    BY <1>t, <1>2 DEF Stop, TypeOK, TableTypeOK, tableVars, remoteVars
  <2> QED
    BY <1>2, <2>1, EndKeeps DEF Stop, tableVars
<1>3. CASE Die
  <2>1. job' \in [Workers -> Job \union {NoJob}] /\ op' \in [Users -> Op \union {NoOp}]
    BY <1>3 DEF Die
  <2>2. TypeOK'
    BY <1>t, <1>3, <2>1 DEF Die, TypeOK, TableTypeOK, remoteVars
  <2>3. \A w \in Workers : job'[w] = job[w] \/ job'[w] = NoJob
    BY <1>3 DEF Die
  <2> QED
    BY <1>3, <2>2, <2>3, EndKeeps DEF Die
<1>4. CASE ResetRunning
  <2>1. /\ row' \in [Tasks -> Row]
        /\ \A t \in Tasks : row'[t] = IF row[t].status = "running"
                                      THEN BackToPending(row[t]) ELSE row[t]
    BY <1>t, <1>4, ResetEffect DEF ResetRunning
  <2>2. \A t \in Tasks : BackToPending(row[t]).status = "pending"
    BY <1>t, BackToPendingType
  <2>3. TypeOK'
    BY <1>t, <1>4, <2>1 DEF ResetRunning, TypeOK, TableTypeOK, remoteVars
  <2>4. /\ \A t \in Tasks : row'[t].status = "unborn" => row[t].status = "unborn"
        /\ \A t \in Tasks : row'[t].status = "done" => row[t].status = "done"
    BY <2>1, <2>2
  <2> QED
    BY <1>4, <2>3, <2>4, EndKeeps DEF ResetRunning
<1>5. CASE ResetFails
  <2>1. faults' \in 0..MaxFaults
    BY <1>t, <1>5 DEF ResetFails
  <2>2. stuck' \subseteq Tasks
    BY <1>t, <1>5 DEF ResetFails, TypeOK, With
  <2>3. TypeOK'
    BY <1>t, <1>5, <2>1, <2>2 DEF ResetFails, TypeOK, TableTypeOK, tableVars, remoteVars
  <2> QED
    BY <1>5, <2>3, EndKeeps DEF ResetFails, tableVars
<1> QED
  BY <1>1, <1>2, <1>3, <1>4, <1>5 DEF ProcessNext

LEMMA TableNextIsStep ==
  ASSUME TableNext
  PROVE  TableStep /\ UNCHANGED <<job, remoteVars, procVars>>
<1>1. \A t \in Tasks : Birth[t] \in Nat
  BY TableAssumption
<1> QED
  BY <1>1 DEF TableNext, TableStep

LEMMA TableNextKeeps ==
  ASSUME IInv, TableNext
  PROVE  IInv'
<1>1. TypeOK /\ TableTypeOK
  BY DEF IInv, TypeOK
<1>2. TableStep /\ UNCHANGED <<job, remoteVars, procVars>>
  BY TableNextIsStep
<1>3. TableTypeOK' /\ \A t \in Tasks : Rewritten(row[t], row'[t])
  BY <1>1, <1>2, TableStepTypes
<1>4. database' = database
  BY <1>2 DEF TableStep, UserNext, ReadForCancel, ReadForRetry, WriteCancel, WriteRetry,
     AbandonOp, CancelBatch, RetryBatch, DeleteBatch, RetryAllFailed, Clear, BackoffElapses,
     Enqueue, DeleteFinishedOlderThan
<1>5. TypeOK'
  BY <1>1, <1>2, <1>3 DEF TypeOK, remoteVars, procVars
<1>6. /\ \A t \in Tasks : row'[t].status = "unborn" => row[t].status = "unborn"
      /\ \A t \in Tasks : row'[t].status = "done" => row[t].status = "done"
  BY <1>3 DEF Rewritten
<1> QED
  BY <1>2, <1>4, <1>5, <1>6, EndKeeps

-----------------------------------------------------------------------------
\* IInv is inductive.

LEMMA InitInv == Init => IInv
<1> SUFFICES ASSUME Init PROVE IInv
  OBVIOUS
<1>1. Blank("unborn") \in Row /\ Blank("unborn").status = "unborn"
  BY BlankType DEF GoneStatus
<1>2. \A t \in Tasks : row[t].status = "unborn"
  BY <1>1 DEF Init, TableInit
<1>3. 0 \in 0..MaxUserOps /\ 0 \in 0..MaxStarts /\ 0 \in 0..MaxFaults
  BY TableAssumption, UploadAssumption
<1>4. TypeOK
  BY <1>1, <1>3 DEF Init, TableInit, TypeOK, TableTypeOK
<1>5. \A w \in Workers : Idle(w) /\ job[w].stage = "none"
  BY DEF Init, Idle, NoJob
<1> QED
  BY <1>2, <1>4, <1>5 DEF IInv, PickedIsPostgres, ClaimedIsBorn, StagesAreReached, DoneIsReplaced,
     AtStage, With

LEMMA StepInv == IInv /\ [Next]_vars => IInv'
<1> SUFFICES ASSUME IInv, [Next]_vars PROVE IInv'
  OBVIOUS
<1>1. CASE UNCHANGED vars
  BY <1>1 DEF vars, tableVars, remoteVars, procVars, IInv, TypeOK, TableTypeOK, AtomicClaim,
     PickedIsPostgres, ClaimedIsBorn, StagesAreReached, DoneIsReplaced, With, Idle, AtStage
<1> QED
  BY <1>1, WorkerStep, ProcessStep, TableNextKeeps DEF Next

\* The strengthening of the invariants below that is inductive: what an execution has done
\* to the drive is remembered by its stage until it closes the row.
THEOREM Inductive == Spec => []IInv
BY InitInv, StepInv, PTL DEF Spec

\* Rows, copies and counters keep their types: no row carries more than MaxRetry retries.
THEOREM TypeCorrect == Spec => []TypeOK
<1>1. IInv => TypeOK
  BY DEF IInv
<1> QED
  BY <1>1, Inductive, PTL

\* A row that is reported done has its file on the drive and none of the copies the upload
\* had to replace, however its executions overlapped, were cancelled or were interrupted.
THEOREM DoneReplaced == Spec => []DoneIsReplaced
<1>1. IInv => DoneIsReplaced
  BY DEF IInv
<1> QED
  BY <1>1, Inductive, PTL

\* With a claim that is one transaction, no step of a worker touches a cancelled row.
LEMMA CanceledStep ==
  ASSUME IInv, [Next]_vars, NEW t \in Tasks, AtomicClaim, row[t].status = "canceled", job' # job
  PROVE  row'[t] = row[t]
<1>t. TypeOK /\ row \in [Tasks -> Row]
  BY DEF IInv, TypeOK, TableTypeOK
<1>0. ASSUME NEW u, NEW new, row' = UpdateIfRunning(u, new)
      PROVE  row'[t] = row[t]
  <2>1. CASE u = t
    BY <1>0, <2>1 DEF UpdateIfRunning
  <2>2. CASE u # t
    BY <1>0, <1>t, <2>2 DEF UpdateIfRunning
  <2> QED
    BY <2>1, <2>2
<1>1. ASSUME NEW w \in Workers, FinishDone(w) \/ FinishFailed(w) \/ FailWithRetry(w)
      PROVE  row'[t] = row[t]
  BY <1>0, <1>1 DEF FinishDone, FinishFailed, FailWithRetry
<1>2. ASSUME NEW w \in Workers, NEW u \in Tasks, Claim(w, u)
      PROVE  row'[t] = row[t]
  <2>1. Pick(w, u, "claimed") /\ row' = MarkRunning({u})
    BY <1>2 DEF Claim
  <2>2. u # t
    BY <1>t, <2>1, PickEffect
  <2> QED
    BY <1>t, <2>1, <2>2, MarkOne
<1>3. ASSUME NEW w \in Workers, ClaimMark(w)
      PROVE  FALSE
  BY <1>3 DEF ClaimMark, IInv, PickedIsPostgres
<1>4. ASSUME NEW w \in Workers, DeleteOldCopies(w) \/ Put(w) \/ ClaimAborts(w) \/ LoseWrite(w)
      PROVE  row'[t] = row[t]
  BY <1>4 DEF DeleteOldCopies, Put, ClaimAborts, LoseWrite, tableVars
<1>5. ASSUME NEW w \in Workers, NEW u \in Tasks, ClaimSelect(w, u)
      PROVE  row'[t] = row[t]
  BY <1>5 DEF ClaimSelect
<1>6. ASSUME NEW w \in Workers, WorkerNext(w)
      PROVE  row'[t] = row[t]
  BY <1>1, <1>2, <1>3, <1>4, <1>5, <1>6 DEF WorkerNext, JobNext
<1>7. CASE Die
  BY <1>7 DEF Die
<1>8. CASE Start \/ ResetRunning \/ ResetFails \/ Stop \/ TableNext \/ UNCHANGED vars
  BY <1>8 DEF Start, ResetRunning, ResetFails, Stop, TableNext, vars
<1> QED
  BY <1>6, <1>7, <1>8 DEF Next, ProcessNext

\* On SQLite, whose claim is one transaction, a worker never overwrites a row the user has
\* cancelled, whatever copy of it the worker holds.
THEOREM CanceledStays == Spec => OnSQLiteWorkersLeaveCanceledRows
<1>1. IInv /\ [Next]_vars => [\A t \in Tasks : AtomicClaim /\ row[t].status = "canceled" /\ job' # job
                                => row'[t] = row[t]]_vars
  BY CanceledStep
<1> QED
  BY <1>1, Inductive, PTL DEF Spec, OnSQLiteWorkersLeaveCanceledRows

-----------------------------------------------------------------------------
\* The refinement of TaskLedger.

LEMMA LedgerValue ==
  /\ \A t \in Tasks : LedgerState[t] = Shown(row[t])
  /\ \A S, st : Ledger!Move(S, st) <=> LedgerState' = [t \in Tasks |-> IF t \in S THEN st ELSE LedgerState[t]]
  /\ \A s : Ledger!In(s) = {t \in Tasks : LedgerState[t] \in s}
BY DEF LedgerState, Shown, Ledger!Move, Ledger!In

\* What the table does of itself is a move of the ledger.
LEMMA MoveIsLedger ==
  ASSUME LedgerMove, UNCHANGED uploaded
  PROVE  [Ledger!Next]_<<LedgerState, uploaded>>
<1>1. CASE LedgerState' = LedgerState
  BY <1>1
<1>2. ASSUME NEW S \in SUBSET Tasks, NEW from, NEW to, Moves(S, from, to)
      PROVE  S \subseteq Ledger!In(from) /\ Ledger!Move(S, to)
  BY <1>2, LedgerValue DEF Moves
<1>3. ASSUME NEW S \in SUBSET Tasks, Moves(S, {"unborn"}, "open")
      PROVE  Ledger!Next
  <2>1. Ledger!Submit(S)
    BY <1>2, <1>3 DEF Ledger!Submit
  <2> QED
    BY <2>1 DEF Ledger!Next
<1>4. ASSUME NEW S \in SUBSET Tasks, Moves(S, {"open"} \union ClosedStatus, "canceled")
      PROVE  Ledger!Next
  <2>1. Ledger!Cancel(S)
    BY <1>2, <1>4 DEF Ledger!Cancel, Ledger!Closed, ClosedStatus
  <2> QED
    BY <2>1 DEF Ledger!Next
<1>5. ASSUME NEW S \in SUBSET Tasks, Moves(S, ClosedStatus, "open")
      PROVE  Ledger!Next
  <2>1. Ledger!Reopen(S)
    BY <1>2, <1>5 DEF Ledger!Reopen, Ledger!Closed, ClosedStatus
  <2> QED
    BY <2>1 DEF Ledger!Next
<1>6. ASSUME NEW S \in SUBSET Tasks, Moves(S, {"open"} \union ClosedStatus, "deleted")
      PROVE  Ledger!Next
  <2>1. Ledger!Remove(S)
    BY <1>2, <1>6 DEF Ledger!Remove, Ledger!Closed, ClosedStatus
  <2> QED
    BY <2>1 DEF Ledger!Next
<1> QED
  BY <1>1, <1>3, <1>4, <1>5, <1>6 DEF LedgerMove

\* A claim opens its row again if it was closed after the claim had selected it.
LEMMA ClaimLedger ==
  ASSUME TypeOK, NEW t \in Tasks, row' = MarkRunning({t}), UNCHANGED uploaded
  PROVE  [Ledger!Next]_<<LedgerState, uploaded>>
<1>1. row \in [Tasks -> Row]
  BY DEF TypeOK, TableTypeOK
<1>2. LedgerMove
  BY <1>1, MarkOne, OneRowMoves
<1> QED
  BY <1>2, MoveIsLedger

\* A row that is still running is closed, or goes back to pending.
LEMMA CloseMoves ==
  ASSUME row \in [Tasks -> Row], NEW t \in Tasks, NEW new \in Row,
         new.status \in {"pending", "done", "failed"},
         new.status = "done" => t \in uploaded,
         row' = UpdateIfRunning(t, new), UNCHANGED uploaded
  PROVE  [Ledger!Next]_<<LedgerState, uploaded>>
<1>1. /\ \A u \in Tasks : u # t => row'[u] = row[u]
      /\ row'[t] = IF row[t].status = "running" THEN new ELSE row[t]
  BY UpdateIfRunningEffect
<1>2. CASE row[t].status # "running" \/ new.status = "pending"
  <2>1. \/ row'[t] = row[t]
        \/ row[t].status \in StoredStatus /\ row'[t].status \in {"pending", "running", "canceled"}
    BY <1>1, <1>2 DEF StoredStatus, ActiveStatus
  <2>2. LedgerMove
    BY <1>1, <2>1, OneRowMoves
  <2> QED
    BY <2>2, MoveIsLedger
<1>3. CASE row[t].status = "running" /\ new.status \in {"done", "failed"}
  <2>1. Shown(row[t]) \in {"open"} /\ Shown(row'[t]) = new.status
    BY <1>1, <1>3 DEF Shown, ActiveStatus
  <2>2. \A u \in Tasks \ {t} : Shown(row'[u]) = Shown(row[u])
    BY <1>1
  <2>3. Moves({t}, {"open"}, new.status)
    BY <2>1, <2>2, MovesByRows
  <2>4. t \in Ledger!In({"open"}) /\ Ledger!Move({t}, new.status)
    BY <2>3, LedgerValue DEF Moves
  <2>5. Ledger!CloseDone(t) \/ Ledger!CloseFailed(t)
    BY <1>3, <2>4 DEF Ledger!CloseDone, Ledger!CloseFailed
  <2> QED
    BY <2>5 DEF Ledger!Next
<1> QED
  BY <1>2, <1>3

LEMMA WorkerLedger ==
  ASSUME IInv, NEW w \in Workers, WorkerNext(w)
  PROVE  [Ledger!Next]_<<LedgerState, uploaded>>
<1>t. TypeOK /\ row \in [Tasks -> Row]
  BY DEF IInv, TypeOK, TableTypeOK
<1>1. ASSUME job[w].stage # "none" PROVE job[w].task \in Tasks /\ job[w].copy \in Row
  BY <1>t, <1>1, BusyJob
<1>2. ASSUME NEW t \in Tasks, Claim(w, t) PROVE [Ledger!Next]_<<LedgerState, uploaded>>
  BY <1>t, <1>2, ClaimLedger DEF Claim, Pick, remoteVars
<1>3. CASE ClaimMark(w)
  BY <1>t, <1>1, <1>3, ClaimLedger DEF ClaimMark, AtStage, remoteVars
<1>4. CASE Put(w)
  <2>1. /\ row' = row /\ uploaded' = uploaded \union {job[w].task}
        /\ job[w].task \in Tasks /\ row[job[w].task].status # "unborn"
    BY <1>t, <1>4, BusyJob DEF Put, AtStage, tableVars, IInv, ClaimedIsBorn
  <2>2. job[w].task \notin Ledger!In({"unborn"})
    BY <2>1, LedgerValue DEF Shown
  <2>3. Ledger!Produce(job[w].task)
    BY <2>1, <2>2 DEF Ledger!Produce, LedgerState
  <2> QED
    BY <2>1, <2>3 DEF Ledger!Next
<1>5. CASE FinishDone(w)
  <2>1. job[w].task \in Tasks /\ job[w].task \in uploaded
    BY <1>1, <1>5 DEF FinishDone, AtStage, IInv, StagesAreReached
  <2>2. Finished(job[w].task, "done") \in Row /\ Finished(job[w].task, "done").status = "done"
    BY <1>t, <2>1, FinishedType DEF ClosedStatus
  <2> QED
    BY <1>t, <1>5, <2>1, <2>2, CloseMoves DEF FinishDone, remoteVars
<1>6. CASE FinishFailed(w)
  <2>1. job[w].task \in Tasks
    BY <1>1, <1>6 DEF FinishFailed, AtStage
  <2>2. Finished(job[w].task, "failed") \in Row /\ Finished(job[w].task, "failed").status = "failed"
    BY <1>t, <2>1, FinishedType DEF ClosedStatus
  <2> QED
    BY <1>t, <1>6, <2>1, <2>2, CloseMoves DEF FinishFailed, remoteVars
<1>7. CASE FailWithRetry(w)
  <2>1. job[w].stage # "none"
    BY <1>t, <1>7 DEF FailWithRetry, Executing, Idle, NoJob, TypeOK, Job, JobStage
  <2>2. job[w].task \in Tasks /\ job[w].copy \in Row
    BY <1>1, <2>1
  <2>3. /\ AfterFailure(job[w].copy) \in Row
        /\ AfterFailure(job[w].copy).status \in {"pending", "failed"}
    BY <2>2, AfterFailureType
  <2> QED
    BY <1>t, <1>7, <2>2, <2>3, CloseMoves DEF FailWithRetry, remoteVars
<1>8. CASE \/ \E t \in Tasks : ClaimSelect(w, t)
           \/ DeleteOldCopies(w) \/ ClaimAborts(w) \/ LoseWrite(w)
  <2>1. UNCHANGED <<row, uploaded>>
    BY <1>8 DEF ClaimSelect, Pick, DeleteOldCopies, ClaimAborts, LoseWrite, tableVars, remoteVars
  <2> QED
    BY <2>1 DEF LedgerState
<1> QED
  BY <1>2, <1>3, <1>4, <1>5, <1>6, <1>7, <1>8 DEF WorkerNext, JobNext

LEMMA LedgerStep ==
  ASSUME IInv, [Next]_vars
  PROVE  [Ledger!Next]_<<LedgerState, uploaded>>
<1>t. TypeOK /\ TableTypeOK /\ row \in [Tasks -> Row]
  BY DEF IInv, TypeOK, TableTypeOK
<1>1. CASE ResetRunning
  <2>1. \A t \in Tasks : row'[t] = IF row[t].status = "running"
                                   THEN BackToPending(row[t]) ELSE row[t]
    BY <1>t, <1>1, ResetEffect DEF ResetRunning
  <2>2. \A t \in Tasks : BackToPending(row[t]).status = "pending"
    BY <1>t, BackToPendingType
  <2>3. \A t \in Tasks : Shown(row'[t]) = Shown(row[t])
    BY <2>1, <2>2 DEF Shown, ActiveStatus
  <2>4. LedgerState' = LedgerState /\ UNCHANGED uploaded
    BY <1>1, <2>3, SameShown DEF ResetRunning, remoteVars
  <2> QED
    BY <2>4
<1>2. CASE Start \/ ResetFails \/ Stop \/ Die \/ UNCHANGED vars
  <2>1. UNCHANGED <<row, uploaded>>
    BY <1>2 DEF Start, ResetFails, Stop, Die, vars, tableVars, remoteVars
  <2> QED
    BY <2>1 DEF LedgerState
<1>3. CASE TableNext
  <2>1. TableStep /\ UNCHANGED uploaded
    BY <1>3, TableNextIsStep DEF remoteVars
  <2> QED
    BY <1>t, <2>1, TableStepMoves, MoveIsLedger
<1> QED
  BY <1>1, <1>2, <1>3, WorkerLedger DEF Next, ProcessNext

\* The queue implements TaskLedger: done is reported only of a row whose file has reached
\* the drive, and a row that was removed never comes back.
THEOREM KeepsLedger == Spec => LedgerSpec
<1>1. Init => Ledger!Init
  <2> SUFFICES ASSUME Init PROVE Ledger!Init
    OBVIOUS
  <2>1. Blank("unborn").status = "unborn"
    BY BlankType DEF GoneStatus
  <2>2. \A t \in Tasks : row[t].status = "unborn"
    BY <2>1 DEF Init, TableInit
  <2>3. LedgerState = [t \in Tasks |-> "unborn"]
    BY <2>2 DEF LedgerState, ActiveStatus
  <2> QED
    BY <2>3 DEF Ledger!Init, Init
<1>2. IInv /\ [Next]_vars => [Ledger!Next]_<<LedgerState, uploaded>>
  BY LedgerStep
<1> QED
  BY <1>1, <1>2, Inductive, PTL DEF Spec, LedgerSpec, Ledger!Spec, Ledger!vars

-----------------------------------------------------------------------------
\* What follows for single rows.

\* A closed row, whatever its outcome, is changed by the queue page and the cleanup only,
\* and on PostgreSQL by the second half of a claim that had selected it before.
OnlyClaimsReopen ==
  [][\A t \in Tasks : row[t].status \in ClosedStatus /\ row'[t] # row[t] =>
       \/ TableNext
       \/ ~AtomicClaim /\ \E w \in Workers : ClaimMark(w) /\ job[w].task = t]_vars

\* Unlike the download queue, no goroutine writes its copy of a row without a condition:
\* apart from the claim on PostgreSQL, what is closed stays as it is under the workers.
THEOREM ClaimsReopen == Spec => OnlyClaimsReopen
<1>1. ASSUME IInv, [Next]_vars, NEW t \in Tasks, row[t].status \in ClosedStatus, row'[t] # row[t]
      PROVE  \/ TableNext
             \/ ~AtomicClaim /\ \E w \in Workers : ClaimMark(w) /\ job[w].task = t
  <2>t. TypeOK /\ row \in [Tasks -> Row]
    BY <1>1 DEF IInv, TypeOK, TableTypeOK
  <2>1. ASSUME NEW u, NEW new, row' = UpdateIfRunning(u, new)
        PROVE  FALSE
    <3>1. CASE u = t
      BY <1>1, <2>1, <3>1 DEF UpdateIfRunning, ClosedStatus
    <3>2. CASE u # t
      BY <1>1, <2>1, <2>t, <3>2 DEF UpdateIfRunning
    <3> QED
      BY <3>1, <3>2
  <2>2. ~ \E w \in Workers : FinishDone(w) \/ FinishFailed(w) \/ FailWithRetry(w)
    BY <2>1 DEF FinishDone, FinishFailed, FailWithRetry
  <2>3. ASSUME NEW w \in Workers, NEW u \in Tasks, Claim(w, u)
        PROVE  FALSE
    <3>1. row[u].status = "pending"
      BY <2>t, <2>3, PickEffect DEF Claim
    <3>2. u # t
      BY <1>1, <3>1 DEF ClosedStatus
    <3>3. row'[t] = row[t]
      BY <2>t, <2>3, <3>2, MarkOne DEF Claim
    <3> QED
      BY <1>1, <3>3
  <2>4. ASSUME NEW w \in Workers, ClaimMark(w)
        PROVE  ~AtomicClaim /\ job[w].task = t
    <3>1. ~AtomicClaim
      BY <1>1, <2>4 DEF ClaimMark, IInv, PickedIsPostgres
    <3>2. job[w].task \in Tasks /\ row' = MarkRunning({job[w].task})
      BY <2>t, <2>4, BusyJob DEF ClaimMark, AtStage
    <3>3. job[w].task = t
      BY <1>1, <2>t, <3>2, MarkOne
    <3> QED
      BY <3>1, <3>3
  <2>5. ASSUME NEW w \in Workers,
               \/ \E u \in Tasks : ClaimSelect(w, u)
               \/ DeleteOldCopies(w) \/ Put(w) \/ ClaimAborts(w) \/ LoseWrite(w)
        PROVE  FALSE
    BY <1>1, <2>5 DEF ClaimSelect, DeleteOldCopies, Put, ClaimAborts, LoseWrite, tableVars
  <2>6. CASE ResetRunning
    <3>1. row'[t] = row[t]
      BY <1>1, <2>t, <2>6, ResetEffect DEF ResetRunning, ClosedStatus
    <3> QED
      BY <1>1, <3>1
  <2>7. CASE Start \/ ResetFails \/ Stop \/ Die \/ UNCHANGED vars
    BY <1>1, <2>7 DEF Start, ResetFails, Stop, Die, vars, tableVars
  <2> QED
    BY <1>1, <2>2, <2>3, <2>4, <2>5, <2>6, <2>7 DEF Next, WorkerNext, JobNext, ProcessNext
<1>2. IInv /\ [Next]_vars =>
        [\A t \in Tasks : row[t].status \in ClosedStatus /\ row'[t] # row[t] =>
           \/ TableNext
           \/ ~AtomicClaim /\ \E w \in Workers : ClaimMark(w) /\ job[w].task = t]_vars
  BY <1>1
<1> QED
  BY <1>2, Inductive, PTL DEF Spec, OnlyClaimsReopen

\* A row that was removed stays removed, whatever copies of it are written afterwards.
RemovedForGood ==
  [][\A t \in Tasks : row[t].status = "deleted" => row'[t].status = "deleted"]_vars

LEMMA LedgerStays ==
  ASSUME [Ledger!Next]_<<LedgerState, uploaded>>, NEW t \in Tasks, LedgerState[t] = "deleted"
  PROVE  LedgerState'[t] = "deleted"
<1>1. \A S, st : Ledger!Move(S, st) => LedgerState'[t] = IF t \in S THEN st ELSE LedgerState[t]
  BY LedgerValue
<1>2. \A s : Ledger!In(s) = {u \in Tasks : LedgerState[u] \in s}
  BY LedgerValue
<1>3. ASSUME NEW S \in SUBSET Tasks,
             Ledger!Submit(S) \/ Ledger!Cancel(S) \/ Ledger!Reopen(S) \/ Ledger!Remove(S)
      PROVE  LedgerState'[t] = "deleted"
  BY <1>1, <1>2, <1>3 DEF Ledger!Submit, Ledger!Cancel, Ledger!Reopen, Ledger!Remove, Ledger!Closed
<1>4. ASSUME NEW u \in Tasks, Ledger!Produce(u) \/ Ledger!CloseDone(u) \/ Ledger!CloseFailed(u)
      PROVE  LedgerState'[t] = "deleted"
  BY <1>1, <1>2, <1>4 DEF Ledger!Produce, Ledger!CloseDone, Ledger!CloseFailed
<1> QED
  BY <1>3, <1>4 DEF Ledger!Next

\* A deleted row is not brought back by a worker or a request that still has a copy of it
\* (Delete, DeleteBatch, the cleanup; every UPDATE selects by id): a consequence of the
\* ledger.
THEOREM RemovedStays == Spec => RemovedForGood
<1>s. \A t \in Tasks : LedgerState[t] = "deleted" <=> row[t].status = "deleted"
  BY LedgerValue DEF Shown, ActiveStatus
<1>p. (\A t \in Tasks : LedgerState[t] = "deleted" <=> row[t].status = "deleted")'
  BY <1>s, PTL
<1>1. ASSUME IInv, [Next]_vars, NEW t \in Tasks, row[t].status = "deleted"
      PROVE  row'[t].status = "deleted"
  <2>1. LedgerState[t] = "deleted"
    BY <1>1, <1>s
  <2>2. LedgerState'[t] = "deleted"
    BY <1>1, <2>1, LedgerStep, LedgerStays
  <2> QED
    BY <1>p, <2>2
<1>2. IInv /\ [Next]_vars =>
        [\A t \in Tasks : row[t].status = "deleted" => row'[t].status = "deleted"]_vars
  BY <1>1
<1> QED
  BY <1>2, Inductive, PTL DEF Spec, RemovedForGood
=============================================================================
