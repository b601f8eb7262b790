# MeBox (MMTL): formal models

MeBox is a self-hosted media server in Go. The part of it with the most state that is
shared between goroutines, database and remote drives is the *STRM subsystem*: it walks
a cloud drive, writes one small `.strm` file per remote video, prunes the local files
that have no remote counterpart any more, and moves metadata files up and down through
two persistent task queues. This directory models that subsystem in TLA+, and with it the
115 account it works with, the sign-in tokens of the API and the transcoder; it checks the
models with TLC on small instances and proves some of their properties with TLAPS for all
instances.

Paths below are relative to `src/`. `PROJECT.json` lists, for every definition, the source
lines it stands for.

## 1. Inventory

### 1.1 How the parts interact

```
 HTTP handlers ──┬─ start / cancel / edit / delete path ──> sync runs ── walk ──> cloud drive
 cron loop ──────┘                                           │  │  └─ prune ──> local files
 queue page ── cancel / retry / delete / clear rows ──┐      │  └─ insert rows (batches)
                                                      v      v
                              strm_download_tasks, strm_upload_tasks (SQLite or PostgreSQL)
                                                      ^      ^
             download workers ── claim, semaphore, file ┘      └ claim, delete, upload ── upload workers
```

Everything meets in the database: a task row is written by its worker, by the queue page,
by the reset at start and by the cleanup of old rows; the row of a synchronisation path is
written by its run, by editing, by cancelling, by merely listing the paths, and by the
recovery at start. Nearly all of these read a row, decide, and write whole copies later.

### 1.2 Components

For each: the state it keeps, its operations, what is hard, and what makes it correct.

**Task tables and queue page** (`internal/repository/strm_repository.go`,
`internal/service/strm_queue.go`; modules `StrmTaskTable`, `TaskLedger`).
State: one row per task: status, retry count, `next_try_at`, `finished_at`. Operations:
insert a batch, claim, whole-row update, update-if-running, reset running rows, cancel /
retry / delete / clear for one row or many, cleanup after seven days. Hard: single-row
cancel and retry are read-check-write; claims are one transaction, which is atomic on
SQLite (the DSN asks for immediate transactions) and not on PostgreSQL at READ COMMITTED.
Correct if: `finished_at` is set exactly on closed rows; a row does not come back after
its deletion; an outcome is changed by reopening or cancelling only.

**Download queue** (`strm_queue.go`, `strm_service.go`; module `StrmDownloadQueue`).
State: per claimed row a goroutine with its *copy* of the row; two semaphores (115 and the
other providers); the 115 firewall cooldown; the phase of the process. Operations: claim a
batch, hand rows back during the cooldown, resolve links in a batch, wait for a slot,
download, close, retry with backoff, start, reset, stop, crash. Hard: stale copies,
panics (one of them ends the worker and leaves its batch behind), rows handed back, two
batches sharing slots. Correct if: no row stays in `running` with nobody working on it, but for
losses that can be named; `done` means the file is in place; a cancelled row is left
alone by workers; every row settles.

**Upload queue** (same files; module `StrmUploadQueue`). As above with one row at a time.
A 115 upload does not replace a file, so the old remote copies are deleted *first*. Hard:
failure between deletion and upload. Correct if: `done` means that the new file is there
and the old copies are not, and a deletion is followed by an upload unless the row gives
up or is withdrawn.

**Download to file** (`downloadToFile`; module `DownloadToFile`). State: the target, its
`.tmp`, open descriptors. Hard: a retried row, a second row for the target or a worker after a
restart may execute for a target that is being downloaded already, and all of them use one
`.tmp`. Correct if: the target is absent or whole, whatever fails, unless it is a file that
two executions shared.

**Remote tree walk** (`walkRemote` in `strm_sync.go`; module `WalkRemote`). State: a list
of directories, the counter `pending`, a condition variable, a context. Hard: the counter
is changed at several places, wake-ups can be lost, and *success gives leave to delete*:
`pruneLocal` then removes every local file the walk has not seen. Correct if: success means that the
whole tree was listed; no worker sleeps for ever; the walk returns.

**Synchronisation runs, paths and records** (`strm_sync.go`, `strm_service.go`,
`internal/handler/strm.go`; modules `SyncLifecycle`, `SyncPromise`). State: the map
`running` under a mutex, one row per path, one history record per run, the context of each
run. Operations: StartSync, CancelSync, runSync, finishSync; create, edit, delete, list
(which may write rows back); deletion of records; recovery at start; stop; crash. Hard:
the reservation comes after the row was read; editing checks and writes apart;
`clearRunning` compares code pointers of cancel functions, which are equal for all runs.
Correct if: at most one run per path; the path is given back however the run ends; records
are closed; outcomes shown are backed by records.

**Flat walk of a 115 drive, local source, pruning** (`walk115Flat`, `walkLocalSource`,
`pruneLocal` in `strm_sync.go`; module `FlatSync`). State: offsets waiting and in work, a
cache of directory paths with a table that survives the run, the files listed, the targets
seen. Operations: fetch a page, resolve a directory, write a `.strm`, remove what was not
seen. Hard: the drive changes between two pages; page, directory and file workers fail,
panic and are cancelled independently; stored paths go stale; an error on a local directory
is swallowed; an incremental run trusts modification times before contents; and what is
missed is *deleted*. Correct if: deletion starts only after all
that was listed was seen, and all that stayed was listed; a good run leaves a mirror of the
drive, as far as modification times tell videos apart; the run ends whatever fails.

**Cron loop** (`strm_sync.go`): replays the minutes a slow round has missed; a failing
list moves the clock on all the same. Its starts are requests of `SyncLifecycle`.

**115 tokens** (`doJSON` in `internal/service/cloud115/client.go`, `strm_115_oauth.go`, account
operations in `strm_service.go`; module `Account115`): access and refresh token of an
account, in the row and in the memory of each client. A refresh token works once. It is
rotated by any request whose access token is refused, and by a loop, and stored by a
callback after the lock is released. Hard: every job has a client of its own with a copy of
the pair; testing, editing and the loop write the whole row back as they have read it.
Correct if: the working pair ends in the row; a client is not locked out by its own
rotations; every request returns.

**115 throttling and upload** (`throttle_manager.go`, `queue_executor.go`,
`oss_multipart.go`, `upload.go`): throttle windows with recovery timers; part sizes;
initiate / parts / complete / abort.

**Scrape queue** (`scraper_queue.go`, `scrape_task_repository.go`): like the download queue, with
unconditional writes of whole copies throughout.

**Refresh tokens of the API** (`token_svc.go`, `token_svc_pending.go`, the
`refresh_tokens` table; module `SessionTokens`): a token is handed out before it is stored;
a map knows it until a goroutine has brought it into the table, however long SQLite is busy.
Hard: the same token is in the map, in the table and in the goroutine's hands; a limit of
sessions is read first and enforced later; a request asks the table and then the map. Correct if: a token
in a user's hands is accepted, at the latest when it is presented again; a replaced or signed-out one is not; the limit holds in the end.

**Scheduler and task tracker** (`scheduler_runner.go`, `task_tracker.go`): a reservation
per job under a mutex, manual against periodic runs.

**Transcoder** (`transcoder.go`, `transcoder_jobs.go`, `transcoder_ffmpeg_probe.go`; module
`TranscodeJobs`): a map from media to jobs, an ffmpeg process and an idle monitor per job. A
process that ends removes the entry of its media, whichever job it belongs to by then.
Correct if: one active process per medium.

**Event hubs, caches, library scanner, organizer, SQLite migration, server process**: state
and concurrency of their own; candidates for later modules. **Providers, scrapers, Emby
API, handlers, frontend, danmaku, subtitles, DLNA, backup**: request / response mapping or
I/O; their results appear in the models as nondeterministic outcomes of calls.

The hazards, each at its line, with the properties that cover it or the reason why none
does yet, are in `PROJECT.json`.

## 2. Plan

Done, in this order: `StrmTaskTable` + `StrmDownloadQueue` + `TaskLedger`; `StrmUploadQueue`;
`DownloadToFile`; `WalkRemote` and its proofs; `SyncPromise`, `SyncLifecycle` and their
proofs; `FlatSync` and its proofs; `Account115`; `SessionTokens`; `TranscodeJobs`; then the
proofs of both queues, of the sessions, of the account, and of the mirror in `FlatSync`; then
those of `DownloadToFile` with overlapping executions, and of what single rows, records and
files may go through.

To do, most important first:

| module | what | properties |
|---|---|---|
| `ScrapeQueue` | claim, requeue, cancel, stale running rows | as for the download queue |
| `Throttle` | overlapping windows and their recovery timers | a window lasts until its own end |
| `CronReplay` | missed minutes, `cronMatches` | every matching minute is seen |
| `OssMultipart` | part sizes; initiate, upload, complete, abort | parts cover the file; no upload is left open |

Proofs to add: the safety of these modules as they are written.

## 3. Modules

| module | role |
|---|---|
| `StrmTaskTable`, `StrmTaskTableProofs` | the two task tables and the queue page, extended by both queues; lemmas about the rows |
| `StrmDownloadQueue`, `StrmDownloadQueueProofs` | download workers on such a table, and the process; the proofs include those about `DownloadToFile` |
| `StrmUploadQueue`, `StrmUploadQueueProofs` | upload workers, and the replacement of remote copies |
| `TaskLedger` | abstract specification of both queues |
| `DownloadToFile` | one target, its temporary file, several executions that may overlap |
| `WalkRemote`, `WalkRemoteProofs` | the parallel walk |
| `FlatSync`, `FlatSyncProofs` | a run over a flat 115 listing or a local source, with pruning |
| `Account115`, `Account115Proofs` | the token pair of a 115 account |
| `SessionTokens`, `SessionTokensProofs` | refresh tokens of the API |
| `TranscodeJobs` | jobs, ffmpeg processes and idle monitors |
| `SyncPromise` | abstract specification of the synchronisation runs |
| `SyncLifecycle`, `SyncLifecycleProofs` | runs, requests and the process |
| `MC*` | instances for TLC: trees, batches, symmetry sets |

### 3.1 Correspondence

* **Atomicity.** One action is one SQL statement, one section under a mutex, or one remote
  call. A read whose result is written back later is an action of its own, and the copy
  lives in the state (`job[w][t].copy`, `op[u].seen`, `run[r].copy`, `req[u].seen`,
  `heal[p]`).
* **Time.** A row remembers whether `next_try_at` lies in the future and whether
  `finished_at` is set. `BackoffElapses` and `CooldownEnds` are the clock. Cleanup may take
  any closed row.
* **Rows of `SyncLifecycle`.** The configuration is reduced to the number of the edit it
  comes from (`cfg`): enough to see that an older copy was written over a newer one.
* **Runs** are numbered in the order of their reservations, as their records are created one
  after the other.
* **Two databases.** `database` is chosen once, in `Init`. On SQLite `Claim` is one step;
  on PostgreSQL it is `ClaimSelect` then `ClaimMark` (or `ClaimAborts`), with the mutex
  `strmClaimMu` excluding other claims of the process only. Properties that need the
  atomic claim say so by `AtomicClaim`.
* **Failures.** A write that fails is logged by the code and the goroutine goes on:
  `LoseWrite`, `ResetFails`, `WriteOrFault`, `Mark`. The ghosts `stuck` and `broken` remember
  what such a failure (or a panic, or a crash) left behind, so that the invariants can be
  exact about everything else. They influence no action.
* **Panics.** In the queues a panic of a task ends in the deferred retry and is `FailWithRetry`. A
  panic of a download worker before it has started the goroutines of its batch, as in the call
  that resolves the links of the batch, has no such retry: `WorkerPanics` ends the worker until the next
  start (`dead`) and leaves what it had claimed in `running` (`stuck`). In the walk it is `Panic`, which leaves the directory counted; in a run it skips `finishSync`
  but not the deferred `clearRunning`.
* **The process.** `Stop` is the end of the context, `Die` the exit or a crash: goroutines
  and requests in memory are gone, rows, records and files stay. The HTTP listener is up
  before `Start` and after the end of the context, so requests come in these phases too.
* **The list of directories** in the walk is a set: nothing depends on its order, and that
  no directory enters it twice is part of what is checked (`VisitedOnce`).

* **The drive in `FlatSync`** is a tree fixed in shape, whose directories can be renamed, and a
  sequence of videos in the order of the flat listing, which can lose a video or gain one
  anywhere; a page is a section of that sequence. A directory of a 115 drive has an
  identity and a path that must be resolved (`cache`, saved in `stored`); a directory of a
  local source is its path, so that one renamed since it was read cannot be opened any more
  (`Lost`). A target is a path and a title; the content of a `.strm` stands for its video.
* **Modification times in `FlatSync`.** A video has one (`Stamp`, 0 when the listing tells none), and
  different videos may have the same. A `.strm` is given the time of its video, but errors of
  `os.Chtimes` are ignored, so an incremental run *may* leave a file whose video has the
  time of the new one (`TakenFor`) and never must. A full run compares contents.
* **History of a run** in `FlatSync`, which no action reads: `steady` are the videos there
  from its start on, `quiet` says that the drive has not changed, `sound` that no
  directory was left out and no `.strm` failed to be written, `paged` that there was more
  than one page.
* **History in `DownloadToFile`.** `contended` are the inodes that an execution opened while
  another one, between `os.Create` and `os.Rename`, was yet to rename whatever has the name by
  then. It influences no action. An inode is opened by an execution alone again when it is
  truncated with nobody else under way.
* **Pairs in `Account115`** are numbered by the rotations that led to them (`Pairs` are those made so
  far): the server accepts the refresh token of the last one (`live`) and any access token not
  expired (`fresh`). `GiveUp` is the end of a request whose context ended while it waited for its
  turn. The row is reduced to its pair, whether the access token is set (`usable`), and whether the
  last rotation is less than a day old (`recent`). `lost` and `stale` remember an answer, a
  write or a process that was lost, and an older copy written over a newer one; `foreign`
  that somebody else has rotated the pair a client holds.
* **Tokens in `SessionTokens`** are numbered as they are issued. `FindDelayed` is apart from
  `Find` because the map is asked after the table: a token stored between the two is
  refused, once. `Logout` revokes rows and leaves the map alone. The table is ordered by the
  commits of its rows; the code orders by `created_at`, which is set before a busy database lets
  the row in. `SessionLimit` does not depend on which rows are evicted.

Names ending in `_Something`, under a comment that begins with *Mutant*, are small changes
of the operator they stand next to, used to show that the properties notice them. No
specification refers to them.

## 4. Runs

| run | question | instance |
|---|---|---|
| `download_races` | rows consistent, held, ledger kept under every race | 1 row, 2 workers, 1 user with 3 operations, 1 retry, 2 starts, 1 failed write or dead worker, both databases |
| `download_live` | is every row settled? | 2 rows of 2 batches, 2 workers, 1 slot, cooldown, 1 retry, 1 failed write or dead worker, SQLite |
| `upload` | the ledger, and the replacement of remote copies | 1 replacing 115 row, 2 workers, 2 user operations, 2 starts, 1 failed write, both databases |
| `file` | target absent or whole, a success means a whole one, but for a shared file | 3 overlapping executions, 2 blocks, 4 inodes, 3 failures or crashes |
| `walk` | exact counter, complete success, no lost wake-up, termination | 4 directories in 3 levels, 3 workers |
| `sync` | one run per path, records, outcomes, paths given back, `SyncPromise` | 1 path, 2 runs, 2 requesters with 3 requests, 2 starts, 1 failed write |
| `flat115` | is all that was listed seen before anything is deleted, is all that stayed listed, is a good run a mirror, are the paths of a full run true, does every run end? | 3 videos (all there, or one only later), 3 directories, pages of 1, 2 workers of each kind, 2 runs, 1 change of the drive, 1 failure; 2 videos of one title and one modification time; both providers |
| `flat_prune` | is only deleted what has gone from the source? (no) | as `flat115` |
| `account115` | is the working pair kept, does a client survive its own rotations, does every request return? | 2 requests, a job and a test, 3 calls, 1 expiry, 1 failure or crash |
| `account_test` | is a refreshed pair always stored? (no) | as `account115`, 1 job, no failure |
| `sessions` | is a live token accepted, a dead one refused, the limit kept? | 2 clients, limit 1, 3 tokens, 1 logout, 2 failures or crashes |
| `transcode` | one active ffmpeg per medium? (no) | 2 media, limit 2, 3 jobs |

### 4.1 What the failing runs show

1. `flat_prune`: a `.strm` is deleted although its video is there. A video removed from the
   drive moves the following ones forward by one; the one that moves across the border of
   a page already fetched is in no answer, and the run ends well. Or a directory of a local
   source cannot be read, which the walk swallows. `SteadyIsListed` says that these are the
   only ways.
2. `account_test`: the test of an account whose access token has expired refreshes the pair;
   the callback stores the new pair; the test writes its copy of the row, with the spent
   one, over it.
3. `transcode`: a stopped job's ffmpeg ends after the medium was started again and removes
   the newer entry; a third start runs beside the second, which nothing can stop any more.

Further divergences the models contain, for which no run is kept: a row handed back
(`RequeueWrite`) is written without a condition, over a cancellation, and so is a row whose path
is sanitized (`OnlyHandBacksReopen` says that nothing else the workers do is); `Start` launches the
download workers before it resets the running rows; two executions of one target share
`<target>.tmp` and may leave a target that is not whole (`TargetIsWhole` names the only file
this can happen to); on PostgreSQL the UPDATE of a claim selects by id only; editing and deleting
a path check for a run and write later; a panic of a walk's worker, which cancels the walk only,
is recorded as a cancellation (`CloseRecord`). And those that the properties name as exceptions:

* A panic before the goroutines of a batch exist ends its download worker for good and leaves the
  batch in `running` until the next start, although the comment at `strm_queue.go:82-83` wants
  no panic to do either. Such a panic exists: `doJSON` may answer with neither a result nor an
  error, and the batch call dereferences the result (`RunningIsHeld`, `EveryTaskSettles`).
* An incremental run leaves a `.strm` alone when its modification time is that of the video
  (`strm_sync.go:991-1000` and `1305-1312`). Two videos of one title may have one time, as when a file
  of a local source gets another extension: the `.strm` then keeps pointing to the old name until a
  full run (`DoneIsMirror`).
* A token that comes into the table after the lookup there and leaves the map before the lookup
  in the map is refused, although the comment at `token_svc.go:180-181` says that it must not be. It
  is in the table then, and accepted when it is presented again (`TokenIsAccepted`).
* A token not stored yet at the logout stays usable, and one that is being stored while it is
  replaced may come into the table afterwards (`DeadTokensStayDead`).

### 4.2 Bounds

Every bound is a constant: `MaxUserOps`, `MaxRequests`, `MaxEdits`, `MaxStarts`,
`MaxFaults`, `MaxFailures`, `MaxRetry`, `MaxRuns`, `MaxChanges`, `MaxExpiries`, `MaxJobs`,
`MaxCalls`, `MaxTokens`, `MaxLogouts`; `ClaimBatch` bounds a claim, and `Signals` leaves the end
of the context out of a run. One row is enough for the races on a row, since no
statement relates two rows except the order and size of a claim and the slots, which
`download_live` has two rows for. There a batch is one row, so that the rows meet at the slot and
not in one claim; the safety theorems cover batches of any size. It leaves `Stop` out (`Signals`
is empty), as the property excuses a process that is not up any more. Its one fault is a failed
write or a dead worker; a restart, which would end either, is left to `download_races`. Two workers (or a worker before and one after a restart)
let a stale copy meet a newer claim. The races are explored on both databases, those of the download queue (`download_races`) and
those of the upload queue (`upload`); `download_live` uses the atomic claim of SQLite. Two user operations allow
cancel and retry, three also a request that writes its stale copy after both; two starts
give one restart; `MaxRetry` is 1 instead of 3, which has both a retry and a last failure.
For the walk, a tree with a leaf, a chain and a branch lets one worker run dry while another
still finds directories, and a third sleep. One path is enough for the lifecycle: entries
and rows of different paths never touch, and the proofs cover any number.

In `FlatSync`, pages of one entry make every border a page border; a video
that comes later into the directory of another with the same title gives a target two
videos; two directories renamed to one path are not preloaded; two runs let a stale
stored path, and a file left by the first run, matter in the second; one failure is one
worker of any kind, or one write. Of the two videos with one title, one can take the other's
place with the same time (`ReplaceVideo`); the time of the third is unknown, which a listing of
a 115 drive treats differently from a local source. In `Account115` two requests on one client meet at the lock, and the second
client is the one that tests; one expiry starts a chain of as many rotations as there are
attempts. In `SessionTokens` three tokens are a login and two rotations, or two sessions
that race for a limit of one; one attempt after the first shows both a retry and the end of
all retries. Three jobs are the stopped one, its successor and the one that should not be.
In `DownloadToFile` two blocks have a body that is partly written; a third execution is needed
to open a new `.tmp` after two have shared one, removed or renamed it, and still hold it open.

Symmetry is used only in runs without liveness: workers in `download_races`, inodes and
executions in `file`, clients in `sessions`. Deadlock is not checked where a bounded system really
stops (no more starts, requests or inodes); the walk, which must not stop early, is checked
for deadlock and ends in `Returned`.

### 4.3 Fairness

Weak fairness of a goroutine's own steps: Go schedules runnable goroutines, mutexes are
fair, and remote calls end because the HTTP clients carry timeouts. Timers fire.
`AcquireSlot` has strong fairness: the semaphore is a buffered channel, whose blocked
senders are served in order of arrival, so a slot that is free again and again is
eventually this goroutine's. No fairness is assumed of users, faults, `Stop`, `Die` or
`Start`. In `StrmDownloadQueue` a worker before its batch is started (`WorkerMoves`) and each goroutine
of the batch (`JobMoves`) has one weak fairness for all its steps, since it has one of them to take
at any time; dying is none of them. In `SyncLifecycle` a run is assumed to leave its walk, which is what `WalkReturns`
says of `WalkRemote`, and `RunEnds` of `FlatSync`. There, one weak fairness on the goroutines of a run taken
together suffices, as the run is finite; in `Account115` each request has its own, and the
mutex needs no more because a holder always lets it go. `GiveUp` is not among the steps that must come:
no context has to end. `SessionTokens` and `TranscodeJobs`
state no liveness: a token may be given up, an idle job may be touched for ever.

### 4.4 Abstract specifications

`LedgerSpec` (both queues): with `pending` and `running` shown as *open* and the produced files
as `produced`, every step is a step of `TaskLedger` or a stutter. It excludes: done before
produced, a closed row changing its outcome by itself, a deleted row returning.

`PromiseSpec` (`SyncLifecycle`): the map is `holder`, the records are `log`. It excludes two
runs of one path, a record opened or closed by anyone but the holder of a path, and a closed record
opened again.

## 5. Proofs

Checked by TLAPS for every value of the constants that satisfies the named assumptions: any
number of rows, workers, users, paths, runs, clients, tokens, videos and directories, any page
size and retry limit. The bounds on faults and requests are natural numbers, any of them. Every
inductive invariant below was first checked by TLC on the instance of its component's run.

**`StrmTaskTableProofs`** (assumption `TableAssumption`): lemmas only. What each row statement
returns and what it leaves alone; that every request of the queue page, insert and cleanup
takes a row to one of few states (`Rewritten`); and that each is a step of the ledger or a
stutter (`TableStepMoves`). Both queues are proved on top of them.

**`StrmDownloadQueueProofs`** (with `DownloadAssumption`). `TypeCorrect`, `FinishedExactly`,
`CopiesOpen`, `RunningHeld`, and `KeepsLedger`: `Spec => LedgerSpec`. The inductive invariant
adds to the checked ones: a claim is open between SELECT and UPDATE on PostgreSQL only
(`PickedIsPostgres`) and is marked as a whole (`BatchIsUniform`); what a goroutine holds was
inserted once, and its copy says *running* (`HeldIsBorn`), which is what makes a stale write
harmless for the ledger; a goroutine about to report success has its file (`SavedIsOnDisk`).
`RunningIsHeld` is not inductive as it stands: a transaction still open counts as a holder and
may roll back. `RunningHasWorker` asks for a holder whose claim is behind it. Its exceptions are the
rows in `stuck`: they get there by a failed write and by the death of a worker, in the step
that makes either happen (`WorkerPanics` adds what the worker holds in `running`), and no other step adds
one.
`FinishedIffClosed` and `CopiesAreOpen` need each other: a stale copy written back keeps
`finished_at` right because the copy is open.

Four more theorems speak of single rows and of the slots. `DoneOnDisk` (a row reported done has
its file) and `RemovedStays` (a removed row stays removed) are read off the ledger: they hold of
`TaskLedger`, and `KeepsLedger` carries them over. `HandBacksReopen` is exact about what the ledger
leaves open: a closed row is changed by the queue page and the cleanup, by a goroutine that
hands its row back or sanitizes its path, by the second half of a claim on PostgreSQL, and by
nothing else; in particular no outcome of an execution is written over a closed row.
`SlotsKept`: the goroutines that hold a slot never exceed the capacity of their provider's
semaphore, by counting (`AcquireSlot` adds one below the capacity, every other step only takes
away).

The same module proves `DownloadToFile` (assumption `FileAssumption`, any number of executions,
blocks, inodes and failures): `TargetWhole`, `ReturnedWhole`, `FileTypeCorrect`, and
`NeverInPlace` (an action property: the target is replaced by a rename only, and the file it
names is not written any more, so that a reader of the target never sees a download in
progress). The invariant `FileInv` says what the temporary name stands for: `.tmp` and the target
are never one inode (`NamesApart`); a descriptor is open during a copy only (`OpenWhileCopying`);
a temporary file that is not contended belongs to one execution at most (`OneRenamer`), and holds
the blocks this one has written (`CopyInTmp`), so that a rename moves a whole file; and nobody has
the target open (`TargetIsClosed`) unless it is contended. The exception is as small as it can be: if
an execution that is still copying, or one that has closed the file and not renamed it, did not
count as being in the way, TLC refutes `TargetIsWhole`.

**`StrmUploadQueueProofs`** (with `UploadAssumption`). `TypeCorrect`, `DoneReplaced`,
`CanceledStays` (an action property: on SQLite a worker never overwrites a cancelled row) and
`KeepsLedger`. The invariant remembers by the stage of an execution what it has done to the
drive (`StagesAreReached`), as several executions of one row may overlap after a restart or a
second claim; `DoneIsReplaced` is read off it when the row is closed. `RemovedStays` follows from
the ledger. `ClaimsReopen` is the counterpart of `HandBacksReopen`: with nothing handed back, only
the queue page and the cleanup, and a claim on PostgreSQL, change a closed row.

**`WalkRemoteProofs`** (assumptions `TreeAssumption`, `WorkersAssumption`: a finite tree,
some workers). `WalkComplete`: a walk that reports success has listed the whole tree.
`CounterExact`, `VisitOnce`, `NobodyLeftAsleep`, `TypeCorrect`. The inductive invariant adds to
the checked ones: what a
worker has in hand at each place (`HandsMatch`); that a directory becomes known through its
only parent (`KnownFromParent`), so that a push is always new and the counter counts a set;
that nothing is lost while nothing has gone wrong (`NothingLost`); that workers of an
uncancelled walk leave only at zero (`LeaveWhenDone`); and who may sleep: only workers at the
condition variable, nobody after the alarm, and never all of them while something is counted
(`SleepersWait`). At the end: zero means an empty list and empty
hands, so everything known is finished; the known directories hold the root and
are closed under `Children`; by the last assumption on trees they are all of them.

**`SyncLifecycleProofs`** (assumption `SyncAssumption`). `OneRunPerPath`, `RecordsClose`,
`OutcomesRecorded`, `TypeCorrect`, and `KeepsPromise`: `Spec => PromiseSpec`. The inductive
invariant is `TypeOK /\ RunningIsLive /\ RecordsFollow /\ CopiesAreRecorded`. `RunningIsLive` is
what makes the comparison in
`clearRunning` harmless: an entry is only ever removed by the run it belongs to, because no
second run can have taken its place. `RecordsFollow` ties the record of a run to how far it
has come, which gives both `RecordsAreClosed` and the guards of `SyncPromise`. For
`OutcomeIsRecorded` the row alone is not enough, as it is overwritten from copies read earlier:
`CopiesAreRecorded` says the same of every copy in the hands of a request or a run.
`RecordsStay` is what the promise means for the history: an outcome is written by the record's
own run while it holds its path, and closed or deleted records stay so, whatever the recovery
or a request does meanwhile.

**`FlatSyncProofs`** (assumptions `TreeAssumption`: a finite set of directories, each with the
chain of directories down to it; `OrdersAssumption`: a video is at one place of the flat order;
`ProvidersAssumption`, `NumbersAssumption`). Six theorems about safety.
`ListedSeen`: deletion starts only after every listed entry
was seen under a resolved path. The invariant says, for the files phase, that an entry
waits, is in a worker's hands or is settled, *unless* an error or a cancellation is on
record (`ProcessPart`): that is what a worker's panic must not go without. For a local
source it says that a directory is read after the one it is in (`ParentsFirst`), so that
the path under which a file was marked does not change afterwards; an unreadable directory
takes everything below it with it, which keeps this (`BelowIsClosed`). `FullTrue`: a full
run on a quiet drive believes only true paths; this is inductive as it stands.

`SteadyListed`, `DoneMirror` and `TypeCorrect` share one invariant, `MirrorInv`, that follows a
video from the drive to its file. In the pages phase a video is listed, or its page waits or is
being fetched, *and* while pages are left a worker is (`PageCover`): a page is lost only with an
error or a cancellation on record. That the offsets queued by the first page reach every video
is arithmetic on `PageSize` (`PagesCover`; no more videos are in the order than exist, by
`OnePlace`). In a local source a video is listed or its directory is still to be read
(`LocalCover`). `LaterCover` and `PruneCover` carry this through the phases up to the deletion, where
it is `SteadyIsListed`. `Written`: what was seen has a file from a listed video of that path;
the step that could break it is pruning, which takes only what was not seen. The file's content
stands for the video (`StandsFor`): it is the video's own or, in an incremental run, that of one
with the same modification time (`WriteStands`). When nothing is
stale any more, `ListedIsSeen` and `Written` together are the mirror. The counts `OneEach` (a
worker holds one thing at a time) are what keeps `alive` from going below zero.
`DeletionJustified` puts these together for the step that removes a `.strm`: it is taken by the
pruning of a run with no error and no cancellation on record, never for a file the run has
seen; and unless pages shifted under the run or something could not be read, the file's video
was not there all the time or was listed under another path.

**`SessionTokensProofs`** (assumptions `LimitAssumption`, `BoundsAssumption`). `TokenAccepted`,
`DeadStayDead`, `LimitHolds`, `TypeCorrect`. `TokenAccepted` rests on `TokenIsKnown`: at every moment a
live token is valid in the table or has no row and is in the map. That alone does not make a
request succeed, which looks at the two one after the other; the theorem says that a refusal
then means that the row has come in between. `DeadForGood` strengthens the refusal of a replaced
token: it is revoked, or it has no row, is not in the map and its goroutine is past storing it.
`SessionLimit` is about everybody having finished, so the invariant speaks of the one who
stored the newest row: it will enforce the limit, or has read the rows to revoke, all but
`Limit` of them, or has revoked them (`NewestTrims`). Whoever comes later takes over, whoever
came earlier only revokes more. The rest is counting of rows.

**`Account115Proofs`** (assumptions `ClientsAssumption`, `NoneIsNoRow`, `BoundsAssumption`).
`WorkingPairKept`, `OwnRotationsHarmless`, `TypeCorrect`. Under the lock of its client, a request sends the
token the client has (`SentIsKept`) and has received the working pair unless somebody else
rotated it (`AnswerWorks`); rows marked as dead, in the table or in somebody's copy, hold
spent pairs (`DeadRowsAreSpent`), so that marking the account as dead loses nothing.

**Only model-checked.** Liveness (`EveryTaskSettles`, `ReplacementFollows`, `WalkReturns`,
`PathsAreFreed`, `RunEnds`, `RequestsReturn`), which is out of the prover's reach. `TranscodeJobs`
has no theorem: what its run asks is false. The properties of the other two failing runs are
false as well; `DeletionJustified` and `WorkingPairKept` state what holds instead.

The theorems that no run checks (`NeverInPlace`, `DoneOnDisk`, `RemovedStays`, `HandBacksReopen`,
`SlotsKept`, `ClaimsReopen`, `RecordsStay`, `DeletionJustified`) state properties defined next to
their proofs. TLC agreed with each of them, on the instances of section 4 (`NeverInPlace` with
two executions), before it was relied on.

## 6. Not modelled

Contents of files and of configurations, naming and sanitizing rules, logging and progress
numbers; metadata files in `FlatSync` (they go to the task tables); the OAuth dialogue and the deletion of
accounts; login checks, access tokens and the thirty days of a refresh token; the arguments
and files of ffmpeg; the seven-day limit of the cleanup; the order of rows with the same `created_at`
(any order is allowed); several processes on one PostgreSQL database; the components marked
`not_modelled` in `PROJECT.json`, each with its reason.
