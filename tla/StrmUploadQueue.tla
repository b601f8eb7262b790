-------------------------- MODULE StrmUploadQueue --------------------------
(***************************************************************************)
(* The STRM metadata upload queue (internal/service/strm_queue.go).  An    *)
(* upload worker claims one row at a time and executes it itself.  On 115  *)
(* a row may name old remote copies (RemoteRef): they are deleted first,   *)
(* because an upload does not replace a file of the same name.  The remote *)
(* drive is modelled by what it keeps of each row's file.                  *)
(***************************************************************************)
EXTENDS StrmTaskTable

CONSTANTS
  Workers,      \* upload workers (1 to 4)
  Tasks115,     \* rows of 115 accounts
  Replacing,    \* 115 rows whose RemoteRef names old copies
  MaxStarts,    \* bound on the starts of the process
  MaxFaults     \* bound on the table writes that fail

ASSUME UploadAssumption ==
  /\ Tasks115 \subseteq Tasks
  /\ Replacing \subseteq Tasks115
  /\ MaxStarts \in Nat
  /\ MaxFaults \in Nat

VARIABLES
  job,          \* worker -> the claimed row it executes, with its copy
  oldCopy,      \* rows whose old remote copies still exist
  uploaded,     \* rows whose local file has reached the remote drive
  phase,        \* the process: "down", "up", or "stopping"
  resetDue,     \* Start has launched the workers and not yet reset running rows
  stuck,        \* ghost: rows left as they were by a failed table write
  starts,       \* starts of the process (bound)
  faults        \* failed table writes (bound)

remoteVars == <<oldCopy, uploaded>>
procVars == <<phase, resetDue, stuck, starts, faults>>
vars == <<tableVars, job, remoteVars, procVars>>

-----------------------------------------------------------------------------
\* Jobs.
\*   picked    selected by a claim whose transaction is still open
\*   claimed   nothing done yet
\*   cleaned   the old remote copies, if any, have been deleted
\*   sent      the remote drive has acknowledged the file
JobStage == {"picked", "claimed", "cleaned", "sent"}

NoJob == [stage |-> "none"]
Job == [stage : JobStage, task : Tasks, copy : Row]

Idle(w) == job[w] = NoJob
AtStage(w, s) == job[w].stage = s
Executing(w) == ~Idle(w) /\ ~AtStage(w, "picked")
Holders(t) == {w \in Workers : ~Idle(w) /\ job[w].task = t}

SetStage(w, s) == job' = [job EXCEPT ![w].stage = s]
EndJob(w) == job' = [job EXCEPT ![w] = NoJob]

\* ClaimPendingUpload: select the oldest row that is due and mark it running.
Pick(w, t, stage) ==
  /\ phase = "up"
  /\ Idle(w)
  /\ \A v \in Workers : ~AtStage(v, "picked")    \* strmClaimMu
  /\ OldestClaimable({t}, 1)
  /\ job' = [job EXCEPT ![w] = [stage |-> stage, task |-> t, copy |-> Running(row[t])]]
  /\ UNCHANGED <<op, userOps, database, remoteVars, procVars>>

Claim(w, t) == AtomicClaim /\ Pick(w, t, "claimed") /\ row' = MarkRunning({t})

ClaimSelect(w, t) == ~AtomicClaim /\ Pick(w, t, "picked") /\ UNCHANGED row

ClaimMark(w) ==
  /\ AtStage(w, "picked")
  /\ row' = MarkRunning({job[w].task})
  /\ SetStage(w, "claimed")
  /\ UNCHANGED <<op, userOps, database, remoteVars, procVars>>

\* The transaction is rolled back.
ClaimAborts(w) ==
  /\ AtStage(w, "picked")
  /\ phase = "stopping" \/ faults < MaxFaults
  /\ faults' = IF phase = "stopping" THEN faults ELSE faults + 1
  /\ EndJob(w)
  /\ UNCHANGED <<tableVars, remoteVars, phase, resetDue, stuck, starts>>

\* DeleteFiles, for a 115 row with RemoteRef; other rows have nothing to delete.
DeleteOldCopies(w) ==
  /\ AtStage(w, "claimed")
  /\ oldCopy' = oldCopy \ ({job[w].task} \intersect Replacing)
  /\ SetStage(w, "cleaned")
  /\ UNCHANGED <<tableVars, uploaded, procVars>>

\* PutFile / PutFileNamed.
Put(w) ==
  /\ AtStage(w, "cleaned")
  /\ uploaded' = uploaded \union {job[w].task}
  /\ SetStage(w, "sent")
  /\ UNCHANGED <<tableVars, oldCopy, procVars>>

\* Mutant: the row is closed without the upload.
FinishDone_BeforePut(w) ==
  /\ AtStage(w, "cleaned")
  /\ row' = UpdateIfRunning(job[w].task, Finished(job[w].task, "done"))
  /\ EndJob(w)
  /\ UNCHANGED <<op, userOps, database, remoteVars, procVars>>

FinishDone(w) ==
  /\ AtStage(w, "sent")
  /\ row' = UpdateIfRunning(job[w].task, Finished(job[w].task, "done"))
  /\ EndJob(w)
  /\ UNCHANGED <<op, userOps, database, remoteVars, procVars>>

\* No account, no credentials, or a drive that takes no uploads: no retry.  The
\* checks all come before the first remote call.
FinishFailed(w) ==
  /\ AtStage(w, "claimed")
  /\ row' = UpdateIfRunning(job[w].task, Finished(job[w].task, "failed"))
  /\ EndJob(w)
  /\ UNCHANGED <<op, userOps, database, remoteVars, procVars>>

\* A remote call fails, the file cannot be opened, or the job panics.  A call that
\* took effect and whose answer was lost is its own step followed by this one.
FailWithRetry(w) ==
  /\ Executing(w)
  /\ row' = UpdateIfRunning(job[w].task, AfterFailure(job[w].copy))
  /\ EndJob(w)
  /\ UNCHANGED <<op, userOps, database, remoteVars, procVars>>

\* The write that would have closed the row fails: the error is logged only.
LoseWrite(w) ==
  /\ Executing(w)
  /\ faults < MaxFaults
  /\ faults' = faults + 1
  /\ stuck' = stuck \union ({job[w].task} \intersect With({"running"}))
  /\ EndJob(w)
  /\ UNCHANGED <<tableVars, remoteVars, phase, resetDue, starts>>

-----------------------------------------------------------------------------
\* The process: as for the download queue, the workers start before the reset.

Start ==
  /\ phase = "down"
  /\ starts < MaxStarts
  /\ phase' = "up"
  /\ resetDue' = TRUE
  /\ starts' = starts + 1
  /\ UNCHANGED <<tableVars, job, remoteVars, stuck, faults>>

ResetRunning ==
  /\ resetDue
  /\ row' = ResetRunningToPending
  /\ resetDue' = FALSE
  /\ stuck' = {}
  /\ UNCHANGED <<op, userOps, database, job, remoteVars, phase, starts, faults>>

ResetFails ==
  /\ resetDue
  /\ phase = "stopping" \/ faults < MaxFaults
  /\ faults' = IF phase = "stopping" THEN faults ELSE faults + 1
  /\ resetDue' = FALSE
  /\ stuck' = stuck \union With({"running"})
  /\ UNCHANGED <<tableVars, job, remoteVars, phase, starts>>

Stop ==
  /\ phase = "up"
  /\ phase' = "stopping"
  /\ UNCHANGED <<tableVars, job, remoteVars, resetDue, stuck, starts, faults>>

Die ==
  /\ phase # "down"
  /\ phase' = "down"
  /\ resetDue' = FALSE
  /\ job' = [w \in Workers |-> NoJob]
  /\ op' = [u \in Users |-> NoOp]
  /\ UNCHANGED <<row, userOps, database, remoteVars, stuck, starts, faults>>

-----------------------------------------------------------------------------
Init ==
  /\ TableInit
  /\ job = [w \in Workers |-> NoJob]
  /\ oldCopy = Replacing
  /\ uploaded = {}
  /\ phase = "down"
  /\ resetDue = FALSE
  /\ stuck = {}
  /\ starts = 0
  /\ faults = 0

JobNext(w) ==
  \/ ClaimMark(w)
  \/ DeleteOldCopies(w)
  \/ Put(w)
  \/ FinishDone(w)
  \/ FinishFailed(w)
  \/ FailWithRetry(w)

WorkerNext(w) ==
  \/ \E t \in Tasks : Claim(w, t) \/ ClaimSelect(w, t)
  \/ JobNext(w)
  \/ ClaimAborts(w)
  \/ LoseWrite(w)

ProcessNext == Start \/ ResetRunning \/ ResetFails \/ Stop \/ Die

TableNext ==
  /\ \/ UserNext
     \/ \E t \in Tasks : BackoffElapses(t)
     \/ \E t \in Tasks : phase # "stopping" /\ Enqueue(Birth[t])
     \/ \E S \in SUBSET Tasks : phase = "up" /\ ~resetDue /\ DeleteFinishedOlderThan(S)
  /\ UNCHANGED <<job, remoteVars, procVars>>

Next ==
  \/ \E w \in Workers : WorkerNext(w)
  \/ ProcessNext
  \/ TableNext

Spec == Init /\ [][Next]_vars

\* As for the download queue: remote calls have timeouts, timers fire.
Fairness ==
  /\ \A w \in Workers : /\ WF_vars(\E t \in Tasks : Claim(w, t) \/ ClaimSelect(w, t))
                        /\ WF_vars(JobNext(w))
  /\ \A t \in Tasks : WF_vars(BackoffElapses(t) /\ UNCHANGED <<job, remoteVars, procVars>>)
  /\ WF_vars(ResetRunning)

FairSpec == Spec /\ Fairness

-----------------------------------------------------------------------------
\* Rows, copies and the remote drive are well formed: in particular no row and no copy
\* carries more retries than strmMaxTaskRetry.
TypeOK ==
  /\ TableTypeOK
  /\ job \in [Workers -> Job \union {NoJob}]
  /\ oldCopy \subseteq Replacing
  /\ uploaded \subseteq Tasks
  /\ phase \in {"down", "up", "stopping"}
  /\ resetDue \in BOOLEAN
  /\ stuck \subseteq Tasks
  /\ starts \in 0..MaxStarts
  /\ faults \in 0..MaxFaults

\* A row that is reported done has its file on the drive and none of the old copies
\* the upload had to replace, however its executions were retried, interrupted,
\* cancelled and overlapped.
DoneIsReplaced ==
  \A t \in With({"done"}) : t \in uploaded /\ t \notin oldCopy

\* uploadTaskFailWithRetry and finish write conditionally so that a worker never
\* overwrites a row the user has cancelled, whatever copy of it the worker holds.  On
\* PostgreSQL a claim does: its UPDATE selects by id only.
OnSQLiteWorkersLeaveCanceledRows ==
  [][\A t \in Tasks : AtomicClaim /\ row[t].status = "canceled" /\ job' # job
       => row'[t] = row[t]]_vars

\* A drive never loses the old copies of a file for nothing to replace them, once
\* no execution and no retry of the row is to come: unless the row was cancelled,
\* deleted or gave up, the new file follows.
ReplacementFollows ==
  \A t \in Tasks :
    row[t].status \in ActiveStatus /\ t \in Replacing \ oldCopy
      ~> \/ t \in uploaded
         \/ row[t].status \in {"failed", "canceled", "deleted"}
         \/ phase # "up" \/ t \in stuck

Ledger == INSTANCE TaskLedger WITH state <- LedgerState, produced <- uploaded

\* The queue implements the ledger: done is only reported of a file that has reached
\* the drive, and a removed row never comes back.
LedgerSpec == Ledger!Spec
=============================================================================
