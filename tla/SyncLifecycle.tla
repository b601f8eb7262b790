--------------------------- MODULE SyncLifecycle ---------------------------
(***************************************************************************)
(* The life of the synchronisation runs of STRM paths (StartSync,          *)
(* CancelSync, runSync, finishSync in internal/service/strm_sync.go) and   *)
(* of the rows they share with the requests that edit, delete and list     *)
(* paths (strm_service.go, handler/strm.go).  A run is reserved in the     *)
(* map "running" under a mutex; everything else it shares with requests is *)
(* one row per path, which all of them read and later write back whole.    *)
(* The requests come from handlers and from cronLoop.                      *)
(***************************************************************************)
EXTENDS Integers

CONSTANTS
  Paths,        \* ids of synchronisation paths
  Runs,         \* runs, numbered as they are reserved, each with its own history record
  Nobody,       \* no run
  Users,        \* concurrent requests, and the cron loop
  MaxRequests,  \* bound on the requests of a behaviour
  MaxEdits,     \* bound on the edits of a path's configuration
  MaxStarts,    \* bound on the starts of the process
  MaxFaults     \* bound on the writes that fail

ASSUME SyncAssumption ==
  /\ Runs \subseteq Nat
  /\ Nobody \notin Runs
  /\ MaxRequests \in Nat
  /\ MaxEdits \in Nat
  /\ MaxStarts \in Nat
  /\ MaxFaults \in Nat

VARIABLES
  row,          \* path -> its row in the database
  record,       \* run -> the status of its history record in the database
  running,      \* StrmService.running: path -> the run that holds it
  run,          \* run -> the goroutine, its copy of the row, its context
  req,          \* user -> the request between two of its steps
  heal,         \* path -> its row as recoverInterruptedSyncs has listed it
  phase,        \* "down", "serving" before Start, "up", "stopping"
  broken,       \* ghost: runs that could not close their record
  requests, starts, faults   \* counters (bounds)

database == <<row, record>>
bounds == <<requests, starts, faults>>
vars == <<row, record, running, run, req, heal, phase, broken, bounds>>

-----------------------------------------------------------------------------
\* Rows.  The configuration is the number of the edit it comes from.

Outcomes == {"done", "failed", "canceled"}
Status == {"none", "running"} \union Outcomes
Row == [here : {"unborn", "stored", "deleted"}, cfg : 0..MaxEdits, status : Status]
Blank(h) == [here |-> h, cfg |-> 0, status |-> "none"]
Stored(p) == row[p].here = "stored"
Known(p) == row[p].here # "unborn"

NoCopy == [here |-> "none"]
As(copy, s) == [copy EXCEPT !.status = s]

\* StrmSyncPathRepository.Update writes every column of the row with that id.
WriteRow(p, copy) == IF Stored(p) THEN [row EXCEPT ![p] = copy] ELSE row

\* StrmSyncRecordRepository.Update, of a record the user may have deleted.
WriteRecord(r, s) ==
  IF record[r] = "deleted" THEN record ELSE [record EXCEPT ![r] = s]

-----------------------------------------------------------------------------
\* Runs: the steps of StartSync after its reservation, then runSync.
\*   reserved   in the map, no record yet
\*   recorded   record created, row not marked yet
\*   walking    the goroutine runs
\*   closing    record closed, row not closed yet
\*   leaving    only the deferred cancel and clearRunning are left

LiveStage == {"reserved", "recorded", "walking", "closing", "leaving"}
LiveRun == [stage : LiveStage, path : Paths, copy : Row, canceled : BOOLEAN, bound : BOOLEAN]
Unused == [stage |-> "unused"]
Over(p) == [stage |-> "over", path |-> p]
Run == LiveRun \union {Unused} \union {Over(p) : p \in Paths}
Live(r) == run[r].stage \in LiveStage
IsNext(r) == run[r] = Unused /\ \A s \in Runs : s < r => run[s] # Unused

SetStage(r, s) == run' = [run EXCEPT ![r].stage = s]
End(r) == run' = [run EXCEPT ![r] = Over(run[r].path)]

\* clearRunning: its comparison of cancel functions compares code pointers, and is true.
ClearRunning(r) == running' = [running EXCEPT ![run[r].path] = Nobody]

\* Requests: those that will write a copy of the row back, and those that will not.
NoReq == [kind |-> "none"]
CopyKind == {"start", "canceling", "update", "updating", "backfill"}
Req == [kind : CopyKind, path : Paths, seen : Row]
         \union [kind : {"cancel", "delete"}, path : Paths, seen : {NoCopy}]

Request(u, kind, p, seen) ==
  /\ req[u] = NoReq
  /\ phase # "down"
  /\ requests < MaxRequests
  /\ requests' = requests + 1
  /\ req' = [req EXCEPT ![u] = [kind |-> kind, path |-> p, seen |-> seen]]
Asks(u, kind) == req[u].kind = kind
GoesOn(u, kind, seen) == req' = [req EXCEPT ![u].kind = kind, ![u].seen = seen]
Answer(u) == req' = [req EXCEPT ![u] = NoReq]

\* A write goes through, or fails and is only logged.
WriteOrFault(write) ==
  \/ row' = write /\ UNCHANGED faults
  \/ faults < MaxFaults /\ faults' = faults + 1 /\ UNCHANGED row

-----------------------------------------------------------------------------
\* StartSync.

StartRead(u, p) ==
  /\ Stored(p)
  /\ Request(u, "start", p, row[p])
  /\ UNCHANGED <<database, running, run, heal, phase, broken, starts, faults>>

\* Mutant: a reservation that is already there is replaced.
Reserve_Replaces(u, r) ==
  /\ Asks(u, "start")
  /\ IsNext(r)
  /\ running' = [running EXCEPT ![req[u].path] = r]
  /\ run' = [run EXCEPT ![r] = [stage |-> "reserved", path |-> req[u].path, copy |-> req[u].seen,
                                canceled |-> phase = "stopping", bound |-> phase # "serving"]]
  /\ Answer(u)
  /\ UNCHANGED <<database, heal, phase, broken, bounds>>

\* Check and reservation under one lock.  The context of the run hangs on that of the
\* service once Start has set it, and is already done while the service stops.
Reserve(u, r) ==
  /\ Asks(u, "start")
  /\ IsNext(r)
  /\ running[req[u].path] = Nobody
  /\ running' = [running EXCEPT ![req[u].path] = r]
  /\ run' = [run EXCEPT ![r] = [stage |-> "reserved", path |-> req[u].path, copy |-> req[u].seen,
                                canceled |-> phase = "stopping", bound |-> phase # "serving"]]
  /\ Answer(u)
  /\ UNCHANGED <<database, heal, phase, broken, bounds>>

\* A run is under way.
Refuse(u) ==
  /\ Asks(u, "start") \/ Asks(u, "update")
  /\ running[req[u].path] # Nobody
  /\ Answer(u)
  /\ UNCHANGED <<database, running, run, heal, phase, broken, bounds>>

CreateRecord(r) ==
  /\ run[r].stage = "reserved"
  /\ record' = [record EXCEPT ![r] = "running"]
  /\ SetStage(r, "recorded")
  /\ UNCHANGED <<row, running, req, heal, phase, broken, bounds>>

\* The insert fails, or the client has gone.
CreateRecordFails(r) ==
  /\ run[r].stage = "reserved"
  /\ ClearRunning(r)
  /\ End(r)
  /\ UNCHANGED <<database, req, heal, phase, broken, bounds>>

\* Mutant: the copy keeps the status it was read with.
Mark_KeepsStatus(r) ==
  /\ run[r].stage = "recorded"
  /\ row' = WriteRow(run[r].path, As(run[r].copy, "running"))
  /\ SetStage(r, "walking")
  /\ UNCHANGED <<record, running, req, heal, phase, broken, bounds>>

\* The row is marked with the copy that was read before the reservation; an error of
\* that write, as when the client has gone, is ignored.
Mark(r) ==
  /\ run[r].stage = "recorded"
  /\ row' \in {row, WriteRow(run[r].path, As(run[r].copy, "running"))}
  /\ run' = [run EXCEPT ![r].stage = "walking", ![r].copy = As(@, "running")]
  /\ UNCHANGED <<record, running, req, heal, phase, broken, bounds>>

-----------------------------------------------------------------------------
\* runSync.

\* updateSyncMessage, flushProgress: record and row are written through the context
\* of the run.
Progress(r) ==
  /\ run[r].stage = "walking"
  /\ ~run[r].canceled
  /\ record' = WriteRecord(r, "running")
  /\ row' = WriteRow(run[r].path, run[r].copy)
  /\ UNCHANGED <<running, run, req, heal, phase, broken, bounds>>

\* Mutant: the row is closed, the record is not.
CloseRecord_RowOnly(r, outcome) ==
  /\ run[r].stage = "walking"
  /\ row' = WriteRow(run[r].path, As(run[r].copy, outcome))
  /\ run' = [run EXCEPT ![r].stage = "closing", ![r].copy = As(@, outcome)]
  /\ UNCHANGED <<record, running, req, heal, phase, broken, bounds>>

\* The walk is over and finishSync closes the record.  A cancelled run may still end
\* as done, when the signal comes after its last look at the context, or as failed; and
\* a run that nobody cancelled ends as canceled when a worker of its walk has panicked.
CloseRecord(r, outcome) ==
  /\ run[r].stage = "walking"
  /\ \/ record' = WriteRecord(r, outcome) /\ UNCHANGED <<faults, broken>>
     \/ faults < MaxFaults /\ faults' = faults + 1 /\ broken' = broken \union {r} /\ UNCHANGED record
  /\ run' = [run EXCEPT ![r].stage = "closing", ![r].copy = As(@, outcome)]
  /\ UNCHANGED <<row, running, req, heal, phase, requests, starts>>

CloseRow(r) ==
  /\ run[r].stage = "closing"
  /\ WriteOrFault(WriteRow(run[r].path, run[r].copy))
  /\ SetStage(r, "leaving")
  /\ UNCHANGED <<record, running, req, heal, phase, broken, requests, starts>>

\* A panic skips finishSync; the deferred calls of runSync still run.
Panic(r) ==
  /\ run[r].stage = "walking"
  /\ SetStage(r, "leaving")
  /\ broken' = broken \union {r}
  /\ UNCHANGED <<database, running, req, heal, phase, bounds>>

\* Mutant: the reservation is not given back.
Leave_KeepsEntry(r) ==
  /\ run[r].stage = "leaving"
  /\ End(r)
  /\ UNCHANGED <<database, running, req, heal, phase, broken, bounds>>

Leave(r) ==
  /\ run[r].stage = "leaving"
  /\ ClearRunning(r)
  /\ End(r)
  /\ UNCHANGED <<database, req, heal, phase, broken, bounds>>

-----------------------------------------------------------------------------
\* CancelSync: cancel the run's context, read the row, write it back as cancelled.

\* Mutant: the reservation is given back at once.
CancelSignal_Releases(u, p) ==
  /\ Request(u, "cancel", p, NoCopy)
  /\ run' = IF running[p] = Nobody THEN run ELSE [run EXCEPT ![running[p]].canceled = TRUE]
  /\ running' = [running EXCEPT ![p] = Nobody]
  /\ UNCHANGED <<database, heal, phase, broken, starts, faults>>

CancelSignal(u, p) ==
  /\ Known(p)
  /\ Request(u, "cancel", p, NoCopy)
  /\ run' = IF running[p] = Nobody THEN run ELSE [run EXCEPT ![running[p]].canceled = TRUE]
  /\ UNCHANGED <<database, running, heal, phase, broken, starts, faults>>

CancelRead(u) ==
  /\ Asks(u, "cancel")
  /\ IF Stored(req[u].path) /\ row[req[u].path].status = "running"
     THEN GoesOn(u, "canceling", row[req[u].path])
     ELSE Answer(u)
  /\ UNCHANGED <<database, running, run, heal, phase, broken, bounds>>

CancelWrite(u) ==
  /\ Asks(u, "canceling")
  /\ row' = WriteRow(req[u].path, As(req[u].seen, "canceled"))
  /\ Answer(u)
  /\ UNCHANGED <<record, running, run, heal, phase, broken, bounds>>

-----------------------------------------------------------------------------
\* The requests that create, edit, delete and list paths.

CreatePath(p) ==
  /\ phase # "down"
  /\ ~Known(p)
  /\ row' = [row EXCEPT ![p] = Blank("stored")]
  /\ UNCHANGED <<record, running, run, req, heal, phase, broken, bounds>>

UpdateRead(u, p) ==
  /\ Stored(p)
  /\ Request(u, "update", p, row[p])
  /\ UNCHANGED <<database, running, run, heal, phase, broken, starts, faults>>

UpdateCheck(u) ==
  /\ Asks(u, "update")
  /\ running[req[u].path] = Nobody
  /\ GoesOn(u, "updating", req[u].seen)
  /\ UNCHANGED <<database, running, run, heal, phase, broken, bounds>>

\* The new configuration with the sync status that was read at the beginning.
UpdateWrite(u) ==
  /\ Asks(u, "updating")
  /\ req[u].seen.cfg < MaxEdits
  /\ \E c \in req[u].seen.cfg + 1 .. MaxEdits :
       row' = WriteRow(req[u].path, [req[u].seen EXCEPT !.cfg = c])
  /\ Answer(u)
  /\ UNCHANGED <<record, running, run, heal, phase, broken, bounds>>

DeleteCheck(u, p) ==
  /\ Known(p)
  /\ running[p] = Nobody
  /\ Request(u, "delete", p, NoCopy)
  /\ UNCHANGED <<database, running, run, heal, phase, broken, starts, faults>>

DeleteWrite(u) ==
  /\ Asks(u, "delete")
  /\ row' = IF Stored(req[u].path) THEN [row EXCEPT ![req[u].path] = Blank("deleted")] ELSE row
  /\ Answer(u)
  /\ UNCHANGED <<record, running, run, heal, phase, broken, bounds>>

\* Listing a 115 path without a display path asks the drive for it, and writes the
\* listed row back with it.
BackfillRead(u, p) ==
  /\ Stored(p)
  /\ Request(u, "backfill", p, row[p])
  /\ UNCHANGED <<database, running, run, heal, phase, broken, starts, faults>>

BackfillWrite(u) ==
  /\ Asks(u, "backfill")
  /\ row' = WriteRow(req[u].path, req[u].seen)
  /\ Answer(u)
  /\ UNCHANGED <<record, running, run, heal, phase, broken, bounds>>

\* The request ends early: its client has gone, its input is refused, a write fails.
Abandon(u) ==
  /\ req[u] # NoReq
  /\ Answer(u)
  /\ UNCHANGED <<database, running, run, heal, phase, broken, bounds>>

\* DeleteSyncRecord, ClearSyncRecords: whatever the records say.
DeleteRecords(S) ==
  /\ phase # "down"
  /\ requests < MaxRequests
  /\ requests' = requests + 1
  /\ S # {}
  /\ \A r \in S : record[r] \notin {"none", "deleted"}
  /\ record' = [r \in Runs |-> IF r \in S THEN "deleted" ELSE record[r]]
  /\ UNCHANGED <<row, running, run, req, heal, phase, broken, starts, faults>>

-----------------------------------------------------------------------------
\* The process.

\* The listener is up before the services start.
Serve ==
  /\ phase = "down"
  /\ starts < MaxStarts
  /\ phase' = "serving"
  /\ starts' = starts + 1
  /\ UNCHANGED <<database, running, run, req, heal, broken, requests, faults>>

\* Start lists the rows that a dead process left running ...
Start ==
  /\ phase = "serving"
  /\ phase' = "up"
  /\ \/ heal' = [p \in Paths |-> IF Stored(p) /\ row[p].status = "running" THEN row[p] ELSE NoCopy]
        /\ UNCHANGED faults
     \/ faults < MaxFaults /\ faults' = faults + 1 /\ UNCHANGED heal
  /\ UNCHANGED <<database, running, run, req, broken, requests, starts>>

\* ... and writes them back as cancelled, one by one.
RecoverWrite(p) ==
  /\ heal[p] # NoCopy
  /\ WriteOrFault(WriteRow(p, As(heal[p], "canceled")))
  /\ heal' = [heal EXCEPT ![p] = NoCopy]
  /\ UNCHANGED <<record, running, run, req, phase, broken, requests, starts>>

\* The context of the service is cancelled, and with it that of the runs bound to it.
Stop ==
  /\ phase = "up"
  /\ phase' = "stopping"
  /\ run' = [r \in Runs |-> IF Live(r) /\ run[r].bound THEN [run[r] EXCEPT !.canceled = TRUE] ELSE run[r]]
  /\ UNCHANGED <<database, running, req, heal, broken, bounds>>

\* The process exits or crashes: everything in memory is gone.
Die ==
  /\ phase # "down"
  /\ phase' = "down"
  /\ broken' = broken \union {r \in Runs : Live(r)}
  /\ run' = [r \in Runs |-> IF Live(r) THEN Over(run[r].path) ELSE run[r]]
  /\ running' = [p \in Paths |-> Nobody]
  /\ req' = [u \in Users |-> NoReq]
  /\ heal' = [p \in Paths |-> NoCopy]
  /\ UNCHANGED <<database, bounds>>

-----------------------------------------------------------------------------
Init ==
  /\ row = [p \in Paths |-> Blank("unborn")]
  /\ record = [r \in Runs |-> "none"]
  /\ running = [p \in Paths |-> Nobody]
  /\ run = [r \in Runs |-> Unused]
  /\ req = [u \in Users |-> NoReq]
  /\ heal = [p \in Paths |-> NoCopy]
  /\ phase = "down"
  /\ broken = {}
  /\ requests = 0
  /\ starts = 0
  /\ faults = 0

RunNext(r) ==
  \/ CreateRecord(r)
  \/ CreateRecordFails(r)
  \/ Mark(r)
  \/ \E outcome \in Outcomes : CloseRecord(r, outcome)
  \/ CloseRow(r)
  \/ Panic(r)
  \/ Leave(r)

RequestNext(u) ==
  \/ \E p \in Paths : \/ StartRead(u, p)
                      \/ CancelSignal(u, p)
                      \/ UpdateRead(u, p)
                      \/ DeleteCheck(u, p)
                      \/ BackfillRead(u, p)
  \/ \E r \in Runs : Reserve(u, r)
  \/ Refuse(u)
  \/ CancelRead(u)
  \/ CancelWrite(u)
  \/ UpdateCheck(u)
  \/ UpdateWrite(u)
  \/ DeleteWrite(u)
  \/ BackfillWrite(u)
  \/ Abandon(u)

Next ==
  \/ \E r \in Runs : RunNext(r) \/ Progress(r)
  \/ \E u \in Users : RequestNext(u)
  \/ \E p \in Paths : CreatePath(p) \/ RecoverWrite(p)
  \/ \E S \in SUBSET Runs : DeleteRecords(S)
  \/ Serve
  \/ Start
  \/ Stop
  \/ Die

Spec == Init /\ [][Next]_vars

\* Every goroutine that can run does, and every walk returns: see WalkRemote.
FairSpec == Spec /\ \A r \in Runs : WF_vars(RunNext(r))

-----------------------------------------------------------------------------
\* The rows, runs and requests are well formed, and a run that has marked its path
\* carries a copy that says so, which every later write of the run relies on.
TypeOK ==
  /\ row \in [Paths -> Row]
  /\ record \in [Runs -> Status \union {"deleted"}]
  /\ running \in [Paths -> Runs \union {Nobody}]
  /\ run \in [Runs -> Run]
  /\ \A r \in Runs : run[r].stage = "walking" => run[r].copy.status = "running"
  /\ req \in [Users -> Req \union {NoReq}]
  /\ heal \in [Paths -> Row \union {NoCopy}]
  /\ phase \in {"down", "serving", "up", "stopping"}
  /\ broken \subseteq Runs
  /\ requests \in 0..MaxRequests
  /\ starts \in 0..MaxStarts
  /\ faults \in 0..MaxFaults

\* "Only one task per path at a time": the map holds exactly the live runs, whatever
\* starts, cancellations, failures and panics interleave, although clearRunning deletes
\* the entry of its path without looking whose it is.
RunningIsLive ==
  /\ \A p \in Paths : running[p] # Nobody => Live(running[p]) /\ run[running[p]].path = p
  /\ \A r \in Runs : Live(r) => running[run[r].path] = r

\* No history record is left open by a run that has ended, unless the run was cut
\* short or the write of its outcome failed.
RecordsAreClosed ==
  \A r \in Runs : record[r] = "running" => Live(r) \/ r \in broken

\* A path that shows an outcome of a run has a record with that outcome, although
\* stale copies of the row are written back by runs, requests and the recovery.
OutcomeIsRecorded ==
  \A p \in Paths :
    row[p].status \in {"done", "failed"} =>
      \E r \in Runs : /\ run[r] # Unused
                      /\ run[r].path = p
                      /\ record[r] \in {row[p].status, "deleted"} \/ r \in broken

\* A path that is held is given back, however its run ends: nothing else would let it
\* be edited or synchronised again.
PathsAreFreed == \A p \in Paths : running[p] # Nobody ~> running[p] = Nobody

Log == [r \in Runs |-> IF record[r] = "running" THEN "open" ELSE record[r]]
Promise == INSTANCE SyncPromise WITH holder <- running, log <- Log

\* One run per path, records opened and closed only by the run that holds the path,
\* closed for good: see SyncPromise.
PromiseSpec == Promise!Spec
=============================================================================
