---------------------------- MODULE TranscodeJobs ----------------------------
(***************************************************************************)
(* TranscoderService (internal/service/transcoder.go, transcoder_jobs.go,  *)
(* transcoder_ffmpeg_probe.go): the map from media to transcoding jobs,    *)
(* the ffmpeg process of each job and the goroutine that stops idle jobs.  *)
(* A job is one hlsJob; jobs are numbered in the order they are made.      *)
(***************************************************************************)
EXTENDS Integers, FiniteSets

CONSTANTS
  Media,
  None,            \* no job; not a number
  MaxConcurrent,   \* limit on ffmpeg processes
  MaxJobs          \* bound: jobs made in a behaviour

VARIABLES
  jobs,        \* media -> its job, or None
  made,        \* number of jobs made
  mediaID,     \* of a job
  canceled,    \* its context
  idle,        \* lastAccess is older than the idle timeout
  process,     \* runFFmpeg: "running", then "exited" until the entry is removed
  monitor      \* monitorIdle: "watching", "stopping" between its look and StopJob

vars == <<jobs, made, mediaID, canceled, idle, process, monitor>>

Job == 1 .. MaxJobs
Entries == {m \in Media : jobs[m] # None}

Init ==
  /\ jobs = [m \in Media |-> None]
  /\ made = 0
  /\ mediaID = [j \in Job |-> None]
  /\ canceled = [j \in Job |-> FALSE] /\ idle = [j \in Job |-> FALSE]
  /\ process = [j \in Job |-> "none"] /\ monitor = [j \in Job |-> "none"]

\* EnsureJob for a media without a job, below the limit.
Begin(m) ==
  /\ jobs[m] = None
  /\ Cardinality(Entries) < MaxConcurrent
  /\ made < MaxJobs
  /\ LET j == made + 1 IN
       /\ made' = j
       /\ jobs' = [jobs EXCEPT ![m] = j]
       /\ mediaID' = [mediaID EXCEPT ![j] = m]
       /\ process' = [process EXCEPT ![j] = "running"]
       /\ monitor' = [monitor EXCEPT ![j] = "watching"]
  /\ UNCHANGED <<canceled, idle>>

\* EnsureJob for a media with a job, or the delivery of a playlist or a segment.
Touch(m) ==
  /\ jobs[m] # None
  /\ idle' = [idle EXCEPT ![jobs[m]] = FALSE]
  /\ UNCHANGED <<jobs, made, mediaID, canceled, process, monitor>>

TimePasses(j) ==
  /\ process[j] # "none"
  /\ idle' = [idle EXCEPT ![j] = TRUE]
  /\ UNCHANGED <<jobs, made, mediaID, canceled, process, monitor>>

\* Cancels and removes whatever job the map holds for these media.
StopJobs(S) ==
  /\ canceled' = [j \in Job |-> canceled[j] \/ \E m \in S : jobs[m] = j]
  /\ jobs' = [m \in Media |-> IF m \in S THEN None ELSE jobs[m]]

\* A request to stop; StopAll at shutdown or when the settings change.
Stop(S) ==
  /\ S \intersect Entries # {}
  /\ StopJobs(S)
  /\ UNCHANGED <<made, mediaID, idle, process, monitor>>

\* ffmpeg ends: by the cancellation, by itself, or it was not even found.
Exit(j) ==
  /\ process[j] = "running"
  /\ process' = [process EXCEPT ![j] = "exited"]
  /\ UNCHANGED <<jobs, made, mediaID, canceled, idle, monitor>>

\* The entry of its media is removed, whichever job it holds now.
Remove(j) ==
  /\ process[j] = "exited"
  /\ process' = [process EXCEPT ![j] = "none"]
  /\ jobs' = [jobs EXCEPT ![mediaID[j]] = None]
  /\ UNCHANGED <<made, mediaID, canceled, idle, monitor>>

\* One tick of monitorIdle: it looks at the job its media has now.
Tick(j) ==
  /\ monitor[j] = "watching"
  /\ LET current == jobs[mediaID[j]] IN
       \/ current = None /\ monitor' = [monitor EXCEPT ![j] = "none"]
       \/ current # None /\ idle[current] /\ monitor' = [monitor EXCEPT ![j] = "stopping"]
  /\ UNCHANGED <<jobs, made, mediaID, canceled, idle, process>>

StopIdle(j) ==
  /\ monitor[j] = "stopping"
  /\ monitor' = [monitor EXCEPT ![j] = "none"]
  /\ StopJobs({mediaID[j]})
  /\ UNCHANGED <<made, mediaID, idle, process>>

\* The monitor ends with the context of its job.
MonitorEnds(j) ==
  /\ monitor[j] = "watching" /\ canceled[j]
  /\ monitor' = [monitor EXCEPT ![j] = "none"]
  /\ UNCHANGED <<jobs, made, mediaID, canceled, idle, process>>

Next ==
  \/ \E m \in Media : Begin(m) \/ Touch(m) \/ Stop({m})
  \/ Stop(Media)
  \/ \E j \in Job : TimePasses(j) \/ Exit(j) \/ Remove(j) \/ Tick(j) \/ StopIdle(j) \/ MonitorEnds(j)

Spec == Init /\ [][Next]_vars

---------------------------------------------------------------------------
\* A process that nobody has told to stop.
Active(j) == process[j] = "running" /\ ~canceled[j]

\* Each media has at most one active ffmpeg job (head comment of transcoder.go).
OneJobPerMedia ==
  \A i, j \in Job : Active(i) /\ Active(j) /\ mediaID[i] = mediaID[j] => i = j
=============================================================================
