------------------------- MODULE StrmDownloadQueue -------------------------
(***************************************************************************)
(* The STRM metadata download queue (internal/service/strm_queue.go,       *)
(* StrmService.Start in strm_service.go).  Workers claim batches of rows,  *)
(* hand back the 115 rows while the 115 firewall cooldown lasts, resolve   *)
(* the remaining links in one call and run one goroutine per row, limited  *)
(* by a semaphore per kind of provider.  A claimed row lives twice: in the *)
(* table, and as the copy its goroutine writes from.  The process may stop *)
(* gracefully or die at any point and start again.                         *)
(***************************************************************************)
EXTENDS StrmTaskTable

CONSTANTS
  Workers,      \* download workers (strm.download_threads)
  ClaimBatch,   \* rows per claim; 12 in the code
  Tasks115,     \* rows of 115 accounts; the others are WebDAV-like
  DirtyPaths,   \* rows whose stored path sanitizeLocalPath changes
  Cap115,       \* strm115DownloadSemCap; 3 in the code
  CapDAV,       \* capacity of the WebDAV semaphore
  Signals,      \* signals considered: "stop" lets the context end, {} leaves that out
  MaxStarts,    \* bound on the starts of the process
  MaxFaults     \* bound on the table writes that fail and the workers that panic

ASSUME DownloadAssumption ==
  /\ Tasks115 \subseteq Tasks
  /\ DirtyPaths \subseteq Tasks
  /\ ClaimBatch \in Nat \ {0}
  /\ Cap115 \in Nat \ {0}
  /\ CapDAV \in Nat \ {0}
  /\ Signals \subseteq {"stop"}
  /\ MaxStarts \in Nat
  /\ MaxFaults \in Nat

VARIABLES
  job,          \* worker -> task -> what the worker holds of the claimed row
  cooling,      \* wafUntil lies in the future
  phase,        \* the process: "down", "up", or "stopping" (its context is done)
  resetDue,     \* Start has launched the workers and not yet reset running rows
  onDisk,       \* tasks whose target file has been downloaded
  dead,         \* workers that a panic has ended; only a restart replaces them
  stuck,        \* ghost: rows left running by a failed write or a worker that died
  starts,       \* starts of the process (bound)
  faults        \* failed table writes and panics of workers (bound)

procVars == <<cooling, phase, resetDue, starts, faults, dead, stuck>>
vars == <<tableVars, job, onDisk, procVars>>

-----------------------------------------------------------------------------
\* Jobs: the goroutine of a claimed row and its in-memory copy of that row.
\*   picked    selected by a claim whose transaction is still open
\*   claimed   in the batch, the cooldown not looked at yet
\*   cleared   to be run, the links of the batch not resolved yet
\*   waiting   for a slot of the semaphore
\*   entered   slot held, the stored path still to be sanitized
\*   working   looking up the account, resolving the link, downloading
\*   saved     file renamed into place, row not closed yet

SlotStage == {"entered", "working", "saved"}
JobStage == {"picked", "claimed", "cleared", "waiting"} \union SlotStage

NoJob == [stage |-> "none"]
Job == [stage : JobStage, copy : Row]

Held(w) == {t \in Tasks : job[w][t] # NoJob}
AtStage(w, s) == {t \in Held(w) : job[w][t].stage \in s}
Holders(t) == {w \in Workers : job[w][t] # NoJob}

Advance(w, from, to) ==
  [t \in Tasks |-> IF t \in AtStage(w, {from}) THEN [job[w][t] EXCEPT !.stage = to] ELSE job[w][t]]
SetStage(w, t, s) == job' = [job EXCEPT ![w][t].stage = s]
EndJob(w, t) == job' = [job EXCEPT ![w][t] = NoJob]

Class(t) == IF t \in Tasks115 THEN Tasks115 ELSE Tasks \ Tasks115
Cap(t) == IF t \in Tasks115 THEN Cap115 ELSE CapDAV

\* Goroutines that hold a slot of the semaphore of t's provider.
SlotsTaken(t) ==
  {h \in Workers \X Class(t) : h[2] \in AtStage(h[1], SlotStage)}

-----------------------------------------------------------------------------
\* The worker loop.

\* ClaimPendingDownload: select the oldest rows that are due and mark them running.
Pick(w, S, stage) ==
  /\ phase = "up"
  /\ w \notin dead
  /\ Held(w) = {}
  /\ \A v \in Workers : AtStage(v, {"picked"}) = {}    \* strmClaimMu
  /\ OldestClaimable(S, ClaimBatch)
  /\ job' = [job EXCEPT ![w] = [t \in Tasks |->
               IF t \in S THEN [stage |-> stage, copy |-> Running(row[t])] ELSE NoJob]]
  /\ UNCHANGED <<op, userOps, database, onDisk, procVars>>

Claim(w, S) == AtomicClaim /\ Pick(w, S, "claimed") /\ row' = MarkRunning(S)

ClaimSelect(w, S) == ~AtomicClaim /\ Pick(w, S, "picked") /\ UNCHANGED row

ClaimMark(w) ==
  /\ AtStage(w, {"picked"}) # {}
  /\ row' = MarkRunning(AtStage(w, {"picked"}))
  /\ job' = [job EXCEPT ![w] = Advance(w, "picked", "claimed")]
  /\ UNCHANGED <<op, userOps, database, onDisk, procVars>>

\* The transaction is rolled back.
ClaimAborts(w) ==
  /\ AtStage(w, {"picked"}) # {}
  /\ phase = "stopping" \/ faults < MaxFaults
  /\ faults' = IF phase = "stopping" THEN faults ELSE faults + 1
  /\ job' = [job EXCEPT ![w] = [t \in Tasks |-> NoJob]]
  /\ UNCHANGED <<tableVars, onDisk, cooling, phase, resetDue, starts, dead, stuck>>

\* Mutant: the status of the claim is written back.
RequeueWrite_KeepsRunning(w, t) == row' = UpdateRow(t, job[w][t].copy)

\* requeueDownloadTask writes the whole copy back, whatever the row has become.
RequeueWrite(w, t) ==
  row' = UpdateRow(t, [job[w][t].copy EXCEPT !.status = "pending",
                                             !.backoff = t \in Tasks115 /\ cooling])

Requeue(w, t) ==
  /\ RequeueWrite(w, t)
  /\ EndJob(w, t)
  /\ UNCHANGED <<op, userOps, database, onDisk, procVars>>

\* A 115 row of the batch goes back while the cooldown lasts.
RequeueCooling(w, t) ==
  /\ t \in AtStage(w, {"claimed"}) \intersect Tasks115
  /\ cooling
  /\ Requeue(w, t)

Keep(w, t) ==
  /\ t \in AtStage(w, {"claimed"})
  /\ ~(t \in Tasks115 /\ cooling)
  /\ SetStage(w, t, "cleared")
  /\ UNCHANGED <<tableVars, onDisk, procVars>>

\* batchResolve115Links, then one goroutine per row.  The batch call may be blocked
\* by the 115 firewall; rows it did not resolve are resolved one by one later.
BatchResolve(w, blocked) ==
  /\ AtStage(w, {"claimed"}) = {}
  /\ AtStage(w, {"cleared"}) # {}
  /\ blocked => AtStage(w, {"cleared"}) \intersect Tasks115 # {}
  /\ cooling' = (cooling \/ blocked)
  /\ job' = [job EXCEPT ![w] = Advance(w, "cleared", "waiting")]
  /\ UNCHANGED <<tableVars, onDisk, phase, resetDue, starts, faults, dead, stuck>>

\* A panic before the goroutines of the batch exist, as in batchResolve115Links when
\* the 115 client answers with neither a result nor an error: no deferred retry is in
\* place yet and helper.Go only logs.  The worker is gone, its rows stay running.
WorkerPanics(w) ==
  /\ AtStage(w, {"claimed", "cleared"}) # {}
  /\ faults < MaxFaults
  /\ faults' = faults + 1
  /\ dead' = dead \union {w}
  /\ stuck' = stuck \union (Held(w) \intersect With({"running"}))
  /\ job' = [job EXCEPT ![w] = [t \in Tasks |-> NoJob]]
  /\ UNCHANGED <<tableVars, onDisk, cooling, phase, resetDue, starts>>

\* acquireDownloadSlot: a slot, or the end of the context.  A path that is clean
\* already is not written.
AcquireSlot(w, t) ==
  /\ t \in AtStage(w, {"waiting"})
  /\ Cardinality(SlotsTaken(t)) < Cap(t)
  /\ SetStage(w, t, IF t \in DirtyPaths THEN "entered" ELSE "working")
  /\ UNCHANGED <<tableVars, onDisk, procVars>>

GiveUpSlot(w, t) ==
  /\ t \in AtStage(w, {"waiting"})
  /\ phase = "stopping"
  /\ Requeue(w, t)

-----------------------------------------------------------------------------
\* processDownloadTask.

\* A path that sanitizeLocalPath changes is written back with the whole copy; an
\* error of that write is ignored.
SanitizePath(w, t) ==
  /\ t \in AtStage(w, {"entered"}) \intersect DirtyPaths
  /\ row' \in {row, UpdateRow(t, job[w][t].copy)}
  /\ SetStage(w, t, "working")
  /\ UNCHANGED <<op, userOps, database, onDisk, procVars>>

\* downloadToFile succeeded.
Download(w, t) ==
  /\ t \in AtStage(w, {"working"})
  /\ onDisk' = onDisk \union {t}
  /\ SetStage(w, t, "saved")
  /\ UNCHANGED <<tableVars, procVars>>

\* Mutant: the row is closed before the file is in place.
FinishDone_BeforeDownload(w, t) ==
  /\ t \in AtStage(w, {"working"})
  /\ row' = UpdateIfRunning(t, Finished(t, "done"))
  /\ EndJob(w, t)
  /\ UNCHANGED <<op, userOps, database, onDisk, procVars>>

FinishDone(w, t) ==
  /\ t \in AtStage(w, {"saved"})
  /\ row' = UpdateIfRunning(t, Finished(t, "done"))
  /\ EndJob(w, t)
  /\ UNCHANGED <<op, userOps, database, onDisk, procVars>>

\* The account is gone: failed at once, without a retry.
FinishFailed(w, t) ==
  /\ t \in AtStage(w, {"working"})
  /\ row' = UpdateIfRunning(t, Finished(t, "failed"))
  /\ EndJob(w, t)
  /\ UNCHANGED <<op, userOps, database, onDisk, procVars>>

\* A step of the job failed or panicked: from the slot on, a panic ends in the deferred
\* retry too.  (One before the batch is resolved is WorkerPanics; one while waiting for
\* the slot is recovered by nobody and is Die.)  A blocked 115 call starts the cooldown.
FailWithRetry(w, t, blocked) ==
  /\ t \in AtStage(w, SlotStage)
  /\ blocked => t \in Tasks115 /\ job[w][t].stage = "working"
  /\ row' = UpdateIfRunning(t, AfterFailure(job[w][t].copy))
  /\ EndJob(w, t)
  /\ cooling' = (cooling \/ blocked)
  /\ UNCHANGED <<op, userOps, database, onDisk, phase, resetDue, starts, faults, dead, stuck>>

\* The write that would have closed or requeued the row fails: the error is logged
\* and the job ends, the row stays as it is.
LoseWrite(w, t) ==
  /\ faults < MaxFaults
  /\ \/ t \in AtStage(w, {"claimed"}) \intersect Tasks115 /\ cooling
     \/ t \in AtStage(w, {"waiting"}) /\ phase = "stopping"
     \/ t \in AtStage(w, SlotStage)
  /\ EndJob(w, t)
  /\ faults' = faults + 1
  /\ stuck' = stuck \union ({t} \intersect With({"running"}))
  /\ UNCHANGED <<tableVars, onDisk, cooling, phase, resetDue, starts, dead>>

CooldownEnds ==
  /\ cooling
  /\ cooling' = FALSE
  /\ UNCHANGED <<tableVars, job, onDisk, phase, resetDue, starts, faults, dead, stuck>>

-----------------------------------------------------------------------------
\* The process.

\* StrmService.Start launches the workers first ...
Start ==
  /\ phase = "down"
  /\ starts < MaxStarts
  /\ phase' = "up"
  /\ resetDue' = TRUE
  /\ starts' = starts + 1
  /\ UNCHANGED <<tableVars, job, onDisk, cooling, faults, dead, stuck>>

\* ... and then puts every running row back to pending.
ResetRunning ==
  /\ resetDue
  /\ row' = ResetRunningToPending
  /\ resetDue' = FALSE
  /\ stuck' = {}
  /\ UNCHANGED <<op, userOps, database, job, onDisk, cooling, phase, starts, faults, dead>>

\* The reset fails, or its context is already done: logged, nothing written.
ResetFails ==
  /\ resetDue
  /\ phase = "stopping" \/ faults < MaxFaults
  /\ faults' = IF phase = "stopping" THEN faults ELSE faults + 1
  /\ resetDue' = FALSE
  /\ stuck' = stuck \union With({"running"})
  /\ UNCHANGED <<tableVars, job, onDisk, cooling, phase, starts, dead>>

Stop ==
  /\ "stop" \in Signals
  /\ phase = "up"
  /\ phase' = "stopping"
  /\ UNCHANGED <<tableVars, job, onDisk, cooling, resetDue, starts, faults, dead, stuck>>

\* The process exits or crashes: everything in memory is gone.
Die ==
  /\ phase # "down"
  /\ phase' = "down"
  /\ resetDue' = FALSE
  /\ cooling' = FALSE
  /\ dead' = {}
  /\ job' = [w \in Workers |-> [t \in Tasks |-> NoJob]]
  /\ op' = [u \in Users |-> NoOp]
  /\ UNCHANGED <<row, userOps, database, onDisk, starts, faults, stuck>>

-----------------------------------------------------------------------------
Init ==
  /\ TableInit
  /\ job = [w \in Workers |-> [t \in Tasks |-> NoJob]]
  /\ cooling = FALSE
  /\ phase = "down"
  /\ resetDue = FALSE
  /\ onDisk = {}
  /\ dead = {}
  /\ stuck = {}
  /\ starts = 0
  /\ faults = 0

JobNext(w, t) ==
  \/ RequeueCooling(w, t)
  \/ Keep(w, t)
  \/ AcquireSlot(w, t)
  \/ GiveUpSlot(w, t)
  \/ SanitizePath(w, t)
  \/ Download(w, t)
  \/ FinishDone(w, t)
  \/ FinishFailed(w, t)
  \/ \E blocked \in BOOLEAN : FailWithRetry(w, t, blocked)
  \/ LoseWrite(w, t)

WorkerNext(w) ==
  \/ \E S \in SUBSET Tasks : Claim(w, S) \/ ClaimSelect(w, S)
  \/ ClaimMark(w)
  \/ ClaimAborts(w)
  \/ \E blocked \in BOOLEAN : BatchResolve(w, blocked)
  \/ WorkerPanics(w)
  \/ \E t \in Tasks : JobNext(w, t)

ProcessNext == Start \/ ResetRunning \/ ResetFails \/ Stop \/ Die \/ CooldownEnds

\* The HTTP server is up before Start and outlives the end of the context, so
\* requests come in every phase; inserts and the cleanup loop stop with the context.
TableNext ==
  /\ \/ UserNext
     \/ \E t \in Tasks : BackoffElapses(t)
     \/ \E t \in Tasks : phase # "stopping" /\ Enqueue(Birth[t])
     \/ \E S \in SUBSET Tasks : phase = "up" /\ ~resetDue /\ DeleteFinishedOlderThan(S)
  /\ UNCHANGED <<job, onDisk, procVars>>

Next ==
  \/ \E w \in Workers : WorkerNext(w)
  \/ ProcessNext
  \/ TableNext

Spec == Init /\ [][Next]_vars

\* A goroutine that can run does run; the blocking operations end (the HTTP client
\* has a timeout of 90 s, a blocked channel send is served in FIFO order); timers
\* fire; Start goes on to its reset.  Nothing obliges users, faults or restarts.  Each
\* disjunction is one sequential goroutine: at any time one kind of its steps is open.
WorkerMoves(w) ==
  \/ \E S \in SUBSET Tasks : Claim(w, S) \/ ClaimSelect(w, S)
  \/ ClaimMark(w)
  \/ \E blocked \in BOOLEAN : BatchResolve(w, blocked)

JobMoves(w, t) ==
  \/ RequeueCooling(w, t) \/ Keep(w, t)
  \/ GiveUpSlot(w, t)
  \/ SanitizePath(w, t)
  \/ Download(w, t) \/ FinishDone(w, t) \/ FinishFailed(w, t)
  \/ \E blocked \in BOOLEAN : FailWithRetry(w, t, blocked)

Fairness ==
  /\ \A w \in Workers :
       /\ WF_vars(WorkerMoves(w))
       /\ \A t \in Tasks : WF_vars(JobMoves(w, t)) /\ SF_vars(AcquireSlot(w, t))
  /\ \A t \in Tasks : WF_vars(BackoffElapses(t) /\ UNCHANGED <<job, onDisk, procVars>>)
  /\ WF_vars(CooldownEnds)
  /\ WF_vars(ResetRunning)

FairSpec == Spec /\ Fairness

-----------------------------------------------------------------------------
\* Rows, copies and the counters of the process are well formed: in particular no row
\* and no copy carries more retries than strmMaxTaskRetry.
TypeOK ==
  /\ TableTypeOK
  /\ job \in [Workers -> [Tasks -> Job \union {NoJob}]]
  /\ cooling \in BOOLEAN
  /\ phase \in {"down", "up", "stopping"}
  /\ resetDue \in BOOLEAN
  /\ onDisk \subseteq Tasks
  /\ dead \subseteq Workers
  /\ stuck \subseteq Tasks
  /\ starts \in 0..MaxStarts
  /\ faults \in 0..MaxFaults

\* No row is lost in "running": while the workers are up, a running row is held by
\* a goroutine that will close or requeue it, or Start's reset is still to come, or
\* it is one of the named losses: a failed write, or the death of its worker between
\* the claim and the goroutines of the batch.  Cancelling, retrying and deleting rows
\* under a worker, stale writes, restarts and panics of a job all have to keep this.
RunningIsHeld ==
  \A t \in With({"running"}) :
    phase = "down" \/ resetDue \/ t \in stuck \/ Holders(t) # {}

\* Automatic retries stay within strmMaxTaskRetry in the table and in every copy,
\* and a goroutine never holds a copy that is already closed: requeueing such a
\* copy would leave finished_at on a pending row.
CopiesAreOpen ==
  AtomicClaim => \A w \in Workers : \A t \in Held(w) :
    /\ job[w][t].copy.status = "running"
    /\ ~job[w][t].copy.fin
    /\ job[w][t].copy.retry <= MaxRetry

\* Every open row is eventually closed or removed while the process stays up: batches,
\* slots, retries, backoff and cooldown never starve a row, and the workers that are
\* left take over from one that died.  The exceptions are the rows left behind by a
\* failed write or by a dead worker, and a queue that has no worker left.
EveryTaskSettles ==
  \A t \in Tasks :
    row[t].status \in ActiveStatus
      ~> \/ row[t].status \notin ActiveStatus
         \/ phase # "up" \/ t \in stuck \/ dead = Workers

Ledger == INSTANCE TaskLedger WITH state <- LedgerState, produced <- onDisk

\* What the queue promises to the synchronisation and to the UI, see TaskLedger: done
\* is only reported of a file that is in place, and a removed row never comes back.
LedgerSpec == Ledger!Spec
=============================================================================
