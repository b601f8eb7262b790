------------------------------ MODULE FlatSync ------------------------------
(***************************************************************************)
(* How a synchronisation run turns a listing into a tree of .strm files:   *)
(* walk115Flat (flat pages of the whole drive, parent directories resolved *)
(* afterwards through a cache of directory paths), walkLocalSource and     *)
(* pruneLocal in internal/service/strm_sync.go.  pruneLocal removes every  *)
(* .strm file the run has not seen, so what is lost on the way - a page,   *)
(* a directory, a worker - decides what is deleted.                        *)
(*                                                                         *)
(* The drive and the local source are one external tree that may change at *)
(* any time.  Only videos are modelled; metadata goes to the task queues.  *)
(* A video is identified with the content of its .strm file (its pick      *)
(* code, or its path with the extension).  A .strm file is given the       *)
(* modification time of its video, and incremental runs look at that time  *)
(* before they look at the content: two videos may have the same one.      *)
(***************************************************************************)
EXTENDS Integers, Sequences, FiniteSets

CONSTANTS
  Files,            \* videos
  Dirs, Root,       \* directories below the synchronised one, and that one
  Chain,            \* directory -> the directories from below the root down to it
  Names,            \* names a directory can have
  Base,             \* video -> its name without extension
  Stamp,            \* video -> its modification time in seconds, 0 when unknown
  Start,            \* the drive at the beginning, with its possible orders
  None,
  Providers,        \* a subset of {"115", "local"}
  PageSize,         \* entries of a page; 1150 in the code
  PageWorkers, DirWorkers, ProcessWorkers,   \* 8 each in the code
  MaxRuns, MaxChanges, MaxFaults

ASSUME TreeAssumption ==
  /\ IsFiniteSet(Files) /\ IsFiniteSet(Dirs)
  /\ Root \notin Dirs /\ None \notin Files
  /\ Chain \in [Dirs -> Seq(Dirs)]
  /\ \A d \in Dirs : Len(Chain[d]) > 0 /\ Chain[d][Len(Chain[d])] = d
  /\ \A d \in Dirs : \A i \in DOMAIN Chain[d] : Chain[Chain[d][i]] = SubSeq(Chain[d], 1, i)
  /\ None \notin Seq(Names)
  /\ Stamp \in [Files -> Nat]
  /\ Start \in [orders : SUBSET Seq(Files), home : [Files -> Dirs \union {Root}], name : [Dirs -> Names]]

\* A video is at one place of the order.
ASSUME OrdersAssumption == \A o \in Start.orders : \A i, j \in DOMAIN o : o[i] = o[j] => i = j

ASSUME ProvidersAssumption == Providers \subseteq {"115", "local"}

ASSUME NumbersAssumption ==
  /\ {PageSize, PageWorkers, DirWorkers, ProcessWorkers} \subseteq Nat \ {0}
  /\ {MaxRuns, MaxChanges, MaxFaults} \subseteq Nat

VARIABLES
  order, home, name,      \* the drive: its flat order, the directory of a video, names
  stored,                 \* table of directory paths kept between runs
  local,                  \* target -> video whose .strm is there
  provider, kind, phase, outcome,
  cancelled,              \* "no", "walk" (the context of the walk) or "user" (of the run)
  failed,                 \* an error was recorded
  alive,                  \* workers of the current phase that are still there
  pages, fetching,        \* offsets in taskCh, and in the hands of page workers
  cache, dirty,           \* dirCache; its entries that are not saved yet
  pids, resolving,        \* directories in pidCh, and in the hands of their workers
  listed,                 \* allFiles: video and parent as the answers had them
  toFeed, inHand,         \* entries not handed out, and with process workers
  places,                 \* directories of a local source not read yet
  seen,                   \* seenVideo
  runs, changes, faults,  \* bounds
  steady, quiet, sound, paged   \* history of the run, for the properties

drive == <<order, home, name>>
walk == <<alive, pages, fetching, cache, dirty, pids, resolving, listed, toFeed, inHand, places>>
bounds == <<runs, changes, faults>>
history == <<steady, quiet, sound, paged>>
vars == <<drive, stored, local, provider, kind, phase, outcome, cancelled, failed,
          walk, seen, bounds, history>>

Phases == {"idle", "probe", "pages", "parents", "dirs", "process", "local", "prune"}
Places == Dirs \union {Root}

\* The path of a directory below the root, as get_info answers it (RelativePath).
PathOf(d) == [i \in DOMAIN Chain[d] |-> name[Chain[d][i]]]
PathSet == {<<>>} \union {[i \in DOMAIN Chain[d] |-> nm[Chain[d][i]]] : d \in Dirs, nm \in [Dirs -> Names]}
Targets == PathSet \X {Base[f] : f \in Files}

OnDrive == {order[i] : i \in DOMAIN order}
Page(off) == {[file |-> order[i], parent |-> home[order[i]]] :
                i \in {j \in DOMAIN order : off < j /\ j <= off + PageSize}}
Offsets == {k * PageSize : k \in 1 .. Cardinality(Files)}

\* The path a run believes a directory has, and the .strm file of an entry.
Believed(p) == IF p = Root THEN <<>> ELSE cache[p]
TargetOf(e) == <<Believed(e.parent), Base[e.file]>>

\* A path stored for two directories is not preloaded.
Preload == [d \in Dirs |-> IF \E c \in Dirs \ {d} : stored[c] = stored[d] THEN None ELSE stored[d]]

Fault == faults < MaxFaults /\ faults' = faults + 1

Init ==
  /\ order \in Start.orders /\ home = Start.home /\ name = Start.name
  /\ stored = [d \in Dirs |-> None]
  /\ local = [t \in Targets |-> None]
  /\ provider \in Providers
  /\ kind = "full" /\ phase = "idle" /\ outcome = "none" /\ cancelled = "no" /\ failed = FALSE
  /\ alive = 0
  /\ pages = {} /\ fetching = {}
  /\ cache = [d \in Dirs |-> None] /\ dirty = {}
  /\ pids = {} /\ resolving = {}
  /\ listed = {} /\ toFeed = {} /\ inHand = {} /\ places = {}
  /\ seen = {}
  /\ runs = 0 /\ changes = 0 /\ faults = 0
  /\ steady = {} /\ quiet = TRUE /\ sound = TRUE /\ paged = FALSE

---------------------------------------------------------------------------
(* The drive changes under the run. *)

Change ==
  /\ changes < MaxChanges
  /\ changes' = changes + 1
  /\ quiet' = FALSE
  /\ UNCHANGED <<stored, local, provider, kind, phase, outcome, cancelled, failed, walk, seen,
                 runs, faults, sound, paged>>

Rename(d, n) ==
  /\ Change
  /\ name[d] # n
  /\ name' = [name EXCEPT ![d] = n]
  /\ UNCHANGED <<order, home, steady>>

RemoveVideo(f) ==
  /\ Change
  /\ \E k \in DOMAIN order :
       order[k] = f /\ order' = SubSeq(order, 1, k - 1) \o SubSeq(order, k + 1, Len(order))
  /\ steady' = steady \ {f}
  /\ UNCHANGED <<home, name>>

\* A new video appears at any place of the order.
AddVideo(f, p) ==
  /\ Change
  /\ f \notin OnDrive
  /\ \E k \in 0 .. Len(order) :
       order' = SubSeq(order, 1, k) \o <<f>> \o SubSeq(order, k + 1, Len(order))
  /\ home' = [home EXCEPT ![f] = p]
  /\ UNCHANGED <<name, steady>>

\* Another video takes the place of one: a rename of its extension, or a replacement
\* that keeps the title; the modification time may be the old one.
ReplaceVideo(f, g) ==
  /\ Change
  /\ g \notin OnDrive
  /\ \E k \in DOMAIN order : order[k] = f /\ order' = [order EXCEPT ![k] = g]
  /\ home' = [home EXCEPT ![g] = home[f]]
  /\ steady' = steady \ {f}
  /\ UNCHANGED name

---------------------------------------------------------------------------
(* A run begins and ends. *)

\* Mutant: a full run keeps the stored paths.
StartRun_AlwaysPreloads(k) ==
  /\ phase = "idle" /\ runs < MaxRuns
  /\ runs' = runs + 1
  /\ kind' = k /\ outcome' = "none" /\ cancelled' = "no" /\ failed' = FALSE
  /\ phase' = IF provider = "115" THEN "probe" ELSE "local"
  /\ cache' = Preload
  /\ places' = IF provider = "local" THEN Places ELSE {}
  /\ dirty' = {} /\ listed' = {} /\ toFeed' = {} /\ seen' = {}
  /\ steady' = OnDrive /\ quiet' = TRUE /\ sound' = TRUE /\ paged' = FALSE
  /\ UNCHANGED <<drive, stored, local, provider, alive, pages, fetching, pids, resolving, inHand, changes,
                 faults>>

\* A full run forgets the stored paths; the deletion may fail.
StartRun(k) ==
  /\ phase = "idle" /\ runs < MaxRuns
  /\ runs' = runs + 1
  /\ kind' = k /\ outcome' = "none" /\ cancelled' = "no" /\ failed' = FALSE
  /\ phase' = IF provider = "115" THEN "probe" ELSE "local"
  /\ cache' = IF k = "incremental" THEN Preload ELSE [d \in Dirs |-> None]
  /\ \/ k = "full" /\ provider = "115" /\ stored' = [d \in Dirs |-> None] /\ UNCHANGED faults
     \/ k = "full" /\ provider = "115" /\ UNCHANGED stored /\ Fault
     \/ (k = "full" => provider = "local") /\ UNCHANGED <<stored, faults>>
  /\ places' = IF provider = "local" THEN Places ELSE {}
  /\ dirty' = {} /\ listed' = {} /\ toFeed' = {} /\ seen' = {}
  /\ steady' = OnDrive /\ quiet' = TRUE /\ sound' = TRUE /\ paged' = FALSE
  /\ UNCHANGED <<drive, local, provider, alive, pages, fetching, pids, resolving, inHand, changes>>

End(result) ==
  /\ phase' = "idle" /\ outcome' = result
  /\ UNCHANGED <<drive, local, provider, kind, cancelled, failed, seen, bounds, history>>

UserCancels ==
  /\ phase # "idle" /\ cancelled # "user"
  /\ cancelled' = "user"
  /\ UNCHANGED <<drive, stored, local, provider, kind, phase, outcome, failed, walk, seen, bounds, history>>

---------------------------------------------------------------------------
(* Pages. *)

During(p) ==
  /\ phase = p
  /\ UNCHANGED <<drive, provider, kind, outcome, runs, changes, steady, quiet>>

\* The first page also tells the number of videos; the other pages are queued by offset.
Probe ==
  /\ During("probe")
  /\ listed' = Page(0)
  /\ pages' = {o \in Offsets : o < Len(order)}
  /\ alive' = IF Cardinality(pages') < PageWorkers THEN Cardinality(pages') ELSE PageWorkers
  /\ paged' = (pages' # {})
  /\ phase' = "pages"
  /\ UNCHANGED <<stored, local, cancelled, failed, fetching, cache, dirty, pids, resolving, toFeed,
                 inHand, places, seen, faults, sound>>

ProbeFails ==
  /\ phase = "probe"
  /\ cancelled = "user" \/ faults < MaxFaults
  /\ End("aborted")
  /\ UNCHANGED <<stored, walk>>

TakePage(o) ==
  /\ During("pages")
  /\ cancelled = "no" /\ o \in pages /\ Cardinality(fetching) < alive
  /\ pages' = pages \ {o} /\ fetching' = fetching \union {o}
  /\ UNCHANGED <<stored, local, phase, cancelled, failed, alive, cache, dirty, pids, resolving, listed,
                 toFeed, inHand, places, seen, faults, sound, paged>>

PageArrives(o) ==
  /\ During("pages")
  /\ o \in fetching
  /\ fetching' = fetching \ {o}
  /\ listed' = listed \union Page(o)
  /\ UNCHANGED <<stored, local, phase, cancelled, failed, alive, pages, cache, dirty, pids, resolving,
                 toFeed, inHand, places, seen, faults, sound, paged>>

\* Mutant: the worker is counted off twice.
PageFails_DoneTwice(o) ==
  /\ During("pages")
  /\ o \in fetching
  /\ Fault
  /\ fetching' = fetching \ {o} /\ alive' = alive - 2 /\ failed' = TRUE
  /\ UNCHANGED <<stored, local, phase, cancelled, pages, cache, dirty, pids, resolving, listed,
                 toFeed, inHand, places, seen, sound, paged>>

\* Mutant: the error is not recorded.
PageFails_Forgets(o) ==
  /\ During("pages")
  /\ o \in fetching
  /\ Fault
  /\ fetching' = fetching \ {o} /\ alive' = alive - 1
  /\ UNCHANGED <<stored, local, phase, cancelled, failed, pages, cache, dirty, pids, resolving, listed,
                 toFeed, inHand, places, seen, sound, paged>>

\* The worker records the error and leaves; the others go on.
PageFails(o) ==
  /\ During("pages")
  /\ o \in fetching
  /\ \/ Fault
     \/ cancelled # "no" /\ UNCHANGED faults
  /\ fetching' = fetching \ {o} /\ alive' = alive - 1 /\ failed' = TRUE
  /\ UNCHANGED <<stored, local, phase, cancelled, pages, cache, dirty, pids, resolving, listed,
                 toFeed, inHand, places, seen, sound, paged>>

\* A panic is recovered, cancels the walk and records nothing.
PagePanics(o) ==
  /\ During("pages")
  /\ o \in fetching
  /\ Fault
  /\ fetching' = fetching \ {o} /\ alive' = alive - 1
  /\ cancelled' = IF cancelled = "user" THEN "user" ELSE "walk"
  /\ UNCHANGED <<stored, local, phase, failed, pages, cache, dirty, pids, resolving, listed,
                 toFeed, inHand, places, seen, sound, paged>>

\* wg.Wait() returns: every worker has left.
PagesDone == phase = "pages" /\ fetching = {} /\ (pages = {} \/ alive = 0 \/ cancelled # "no")

LeavePages ==
  /\ PagesDone
  /\ failed \/ cancelled # "no"
  /\ End("aborted")
  /\ pages' = {} /\ alive' = 0
  /\ UNCHANGED <<stored, fetching, cache, dirty, pids, resolving, listed, toFeed, inHand, places>>

---------------------------------------------------------------------------
(* Parent directories. *)

CollectParents ==
  /\ During("pages")
  /\ PagesDone /\ ~failed /\ cancelled = "no"
  /\ pids' = {e.parent : e \in listed} \ ({Root} \union {d \in Dirs : cache[d] # None})
  /\ alive' = IF Cardinality(pids') < DirWorkers THEN Cardinality(pids') ELSE DirWorkers
  /\ phase' = "dirs"
  /\ UNCHANGED <<stored, local, cancelled, failed, pages, fetching, cache, dirty, resolving, listed,
                 toFeed, inHand, places, seen, faults, sound, paged>>

\* A directory that another answer has brought into the cache is skipped.
TakeDir(d) ==
  /\ During("dirs")
  /\ cancelled = "no" /\ d \in pids /\ Cardinality(resolving) < alive
  /\ pids' = pids \ {d}
  /\ resolving' = IF cache[d] = None THEN resolving \union {d} ELSE resolving
  /\ UNCHANGED <<stored, local, phase, cancelled, failed, alive, pages, fetching, cache, dirty, listed,
                 toFeed, inHand, places, seen, faults, sound, paged>>

\* The answer also brings the ancestors that are not in the cache yet.
DirArrives(d) ==
  /\ During("dirs")
  /\ d \in resolving
  /\ resolving' = resolving \ {d}
  /\ LET new == {d} \union {Chain[d][i] : i \in {j \in DOMAIN Chain[d] : cache[Chain[d][j]] = None}}
     IN  /\ cache' = [c \in Dirs |-> IF c \in new THEN PathOf(c) ELSE cache[c]]
         /\ dirty' = dirty \union new
  /\ UNCHANGED <<stored, local, phase, cancelled, failed, alive, pages, fetching, pids, listed,
                 toFeed, inHand, places, seen, faults, sound, paged>>

\* A directory that cannot be resolved, or a panic, ends the whole run.
DirFails(d) ==
  /\ During("dirs")
  /\ d \in resolving
  /\ \/ Fault /\ failed' \in BOOLEAN /\ (failed => failed')    \* FALSE: the panic
     \/ cancelled # "no" /\ failed' = TRUE /\ UNCHANGED faults
  /\ resolving' = resolving \ {d} /\ alive' = alive - 1
  /\ cancelled' = IF cancelled = "user" THEN "user" ELSE "walk"
  /\ UNCHANGED <<stored, local, phase, pages, fetching, cache, dirty, pids, listed,
                 toFeed, inHand, places, seen, sound, paged>>

\* Mutant: the phase waits for directories nobody will take.
DirsDone_NeedsEmptyQueue == phase = "dirs" /\ resolving = {} /\ pids = {}

DirsDone == phase = "dirs" /\ resolving = {} /\ (pids = {} \/ alive = 0 \/ cancelled # "no")

\* What was resolved is saved, also after a failure, unless the context of the run
\* has ended or the database refuses, which is only logged.
SaveDirs ==
  \/ cancelled # "user" /\ stored' = [d \in Dirs |-> IF d \in dirty THEN cache[d] ELSE stored[d]]
  \/ UNCHANGED stored

LeaveDirs ==
  /\ DirsDone /\ failed
  /\ SaveDirs
  /\ End("aborted")
  /\ dirty' = {} /\ pids' = {} /\ alive' = 0
  /\ UNCHANGED <<pages, fetching, cache, resolving, listed, toFeed, inHand, places>>

StartProcessing ==
  /\ During("dirs")
  /\ DirsDone /\ ~failed
  /\ SaveDirs
  /\ dirty' = {} /\ pids' = {}
  /\ toFeed' = listed
  /\ alive' = ProcessWorkers
  /\ phase' = "process"
  /\ UNCHANGED <<local, cancelled, failed, pages, fetching, cache, resolving, listed, inHand, places,
                 seen, faults, sound, paged>>

---------------------------------------------------------------------------
(* Videos become .strm files. *)

\* Mutant: a full run looks at the modification times too.
TakenFor_FullToo(f, g) == f = g \/ Stamp[f] = Stamp[g]

\* A .strm file with the content of f is left as it is when g is to be written: the
\* contents agree or, in an incremental run, the modification times do.
TakenFor(f, g) ==
  \/ f = g
  \/ kind = "incremental" /\ Stamp[f] = Stamp[g] /\ (provider = "115" => Stamp[g] > 0)

\* A .strm file whose modification time could not be set is compared by content, so
\* leaving it is a possibility, not a must; a failed write is only logged.
WriteStrm(t, f) ==
  \/ local' = [local EXCEPT ![t] = f] /\ UNCHANGED <<faults, sound>>
  \/ local[t] # None /\ TakenFor(local[t], f) /\ UNCHANGED <<local, faults, sound>>
  \/ Fault /\ sound' = FALSE /\ UNCHANGED local

\* handleVideo: the first video of a target wins.
Handle(e) ==
  LET t == TargetOf(e)
  IN  \/ t \in seen /\ UNCHANGED <<seen, local, faults, sound>>
      \/ /\ t \notin seen
         /\ seen' = seen \union {t}
         /\ WriteStrm(t, e.file)

\* An entry whose parent is not resolved stops the run.
Feed(e) ==
  /\ During("process")
  /\ cancelled = "no" /\ e \in toFeed /\ Cardinality(inHand) < alive
  /\ LET lost == e.parent # Root /\ cache[e.parent] \in {None, <<>>}
     IN  /\ failed' = (failed \/ lost)
         /\ cancelled' = IF lost THEN "walk" ELSE cancelled
         /\ inHand' = IF lost THEN inHand ELSE inHand \union {e}
  /\ toFeed' = toFeed \ {e}
  /\ UNCHANGED <<stored, local, phase, alive, pages, fetching, cache, dirty, pids, resolving, listed,
                 places, seen, faults, sound, paged>>

\* After a cancellation the workers only drain the channel.
Process(e) ==
  /\ During("process")
  /\ e \in inHand
  /\ inHand' = inHand \ {e}
  /\ \/ cancelled = "no" /\ Handle(e)
     \/ cancelled # "no" /\ UNCHANGED <<seen, local, faults, sound>>
  /\ UNCHANGED <<stored, phase, cancelled, failed, alive, pages, fetching, cache, dirty, pids, resolving,
                 listed, toFeed, places, paged>>

\* Mutant: a panic neither records nor cancels.
ProcessPanics_Silent(e) ==
  /\ During("process")
  /\ e \in inHand
  /\ Fault
  /\ inHand' = inHand \ {e} /\ alive' = alive - 1
  /\ UNCHANGED <<stored, local, phase, cancelled, failed, pages, fetching, cache, dirty, pids, resolving,
                 listed, toFeed, places, seen, sound, paged>>

\* The panic may come after the video was marked.
ProcessPanics(e) ==
  /\ During("process")
  /\ e \in inHand
  /\ Fault
  /\ inHand' = inHand \ {e} /\ alive' = alive - 1
  /\ failed' = TRUE
  /\ cancelled' = IF cancelled = "user" THEN "user" ELSE "walk"
  /\ seen' \in {seen, seen \union {TargetOf(e)}}
  /\ UNCHANGED <<stored, local, phase, pages, fetching, cache, dirty, pids, resolving, listed, toFeed,
                 places, sound, paged>>

Processed == phase = "process" /\ inHand = {} /\ (toFeed = {} \/ cancelled # "no")

LeaveProcessing ==
  /\ Processed
  /\ failed \/ cancelled # "no"
  /\ End("aborted")
  /\ toFeed' = {} /\ alive' = 0
  /\ UNCHANGED <<stored, pages, fetching, cache, dirty, pids, resolving, listed, inHand, places>>

StartPruning ==
  /\ \/ Processed /\ During("process") /\ cancelled = "no"
     \/ During("local") /\ places = {} /\ toFeed = {}
  /\ ~failed
  /\ phase' = "prune" /\ alive' = 0
  /\ UNCHANGED <<stored, local, cancelled, failed, pages, fetching, cache, dirty, pids, resolving, listed,
                 toFeed, inHand, places, seen, faults, sound, paged>>

---------------------------------------------------------------------------
(* A local source: filepath.WalkDir reads one directory after the other. *)

Parent(d) == IF Len(Chain[d]) = 1 THEN Root ELSE Chain[d][Len(Chain[d]) - 1]
Below(p) == {p} \union {c \in Dirs : p = Root \/ \E i \in DOMAIN Chain[c] : Chain[c][i] = p}

\* A directory comes after the one it is in.
Readable(p) == p \in places /\ \A q \in places : p \in Below(q) => q = p

Lost(p) == p # Root /\ PathOf(p) # cache[p]     \* renamed since its parent was read

\* The names of the directories in p are taken together with its files.
ReadPlace(p) ==
  /\ During("local")
  /\ cancelled = "no" /\ toFeed = {} /\ Readable(p) /\ ~Lost(p)
  /\ places' = places \ {p}
  /\ cache' = [d \in Dirs |-> IF Parent(d) = p THEN PathOf(d) ELSE cache[d]]
  /\ LET here == {[file |-> f, parent |-> p] : f \in {g \in OnDrive : home[g] = p}}
     IN  toFeed' = here /\ listed' = listed \union here
  /\ UNCHANGED <<stored, local, phase, cancelled, failed, alive, pages, fetching, dirty, pids,
                 resolving, inHand, seen, faults, sound, paged>>

\* The root of the source is looked at before the walk.
SourceMissing ==
  /\ phase = "local" /\ places = Places /\ faults < MaxFaults
  /\ End("aborted")
  /\ places' = {}
  /\ UNCHANGED <<stored, alive, pages, fetching, cache, dirty, pids, resolving, listed, toFeed, inHand>>

\* An error from a directory is swallowed: what is below it is not visited.
ReadFails(p) ==
  /\ During("local")
  /\ cancelled = "no" /\ toFeed = {} /\ Readable(p)
  /\ \/ Fault
     \/ Lost(p) /\ UNCHANGED faults
  /\ places' = places \ Below(p)
  /\ sound' = FALSE
  /\ UNCHANGED <<stored, local, phase, cancelled, failed, alive, pages, fetching, cache, dirty, pids,
                 resolving, listed, toFeed, inHand, seen, paged>>

LocalVideo(e) ==
  /\ During("local")
  /\ cancelled = "no" /\ e \in toFeed /\ e.file \in OnDrive /\ ~Lost(e.parent)
  /\ toFeed' = toFeed \ {e}
  /\ seen' = seen \union {TargetOf(e)}
  /\ WriteStrm(TargetOf(e), e.file)
  /\ UNCHANGED <<stored, phase, cancelled, failed, alive, pages, fetching, cache, dirty, pids, resolving,
                 listed, inHand, places, paged>>

\* A video that has gone between the listing and the look at it is passed over.
LocalVideoGone(e) ==
  /\ During("local")
  /\ cancelled = "no" /\ e \in toFeed /\ (e.file \notin OnDrive \/ Lost(e.parent))
  /\ toFeed' = toFeed \ {e} /\ listed' = listed \ {e}
  /\ sound' = FALSE
  /\ UNCHANGED <<stored, local, phase, cancelled, failed, alive, pages, fetching, cache, dirty, pids,
                 resolving, inHand, places, seen, faults, paged>>

---------------------------------------------------------------------------
(* pruneLocal: every .strm file that was not seen goes. *)

Stale == {t \in Targets : local[t] # None /\ t \notin seen}

PruneOne(t) ==
  /\ During("prune")
  /\ cancelled = "no" /\ t \in Stale
  /\ local' = [local EXCEPT ![t] = None]
  /\ UNCHANGED <<stored, phase, cancelled, failed, walk, seen, faults, sound, paged>>

\* A file that cannot be removed and a directory that cannot be read are passed over.
EndPruning ==
  /\ phase = "prune"
  /\ \/ Stale = {} /\ UNCHANGED <<faults, sound>>
     \/ Stale # {} /\ Fault /\ sound' = FALSE
  /\ phase' = "idle" /\ outcome' = "done"
  /\ UNCHANGED <<drive, stored, local, provider, kind, cancelled, failed, walk, seen, runs, changes,
                 steady, quiet, paged>>

LeaveCancelled ==
  /\ phase \in {"local", "prune"} /\ cancelled = "user"
  /\ End("aborted")
  /\ toFeed' = {} /\ places' = {}
  /\ UNCHANGED <<stored, alive, pages, fetching, cache, dirty, pids, resolving, listed, inHand>>

---------------------------------------------------------------------------
DriveNext ==
  \/ \E d \in Dirs, n \in Names : Rename(d, n)
  \/ \E f \in Files : RemoveVideo(f)
  \/ \E f \in Files, p \in Places : AddVideo(f, p)
  \/ \E f, g \in Files : ReplaceVideo(f, g)

RunNext ==
  \/ Probe \/ ProbeFails
  \/ \E o \in pages : TakePage(o)
  \/ \E o \in fetching : PageArrives(o) \/ PageFails(o) \/ PagePanics(o)
  \/ LeavePages \/ CollectParents
  \/ \E d \in Dirs : TakeDir(d) \/ DirArrives(d) \/ DirFails(d)
  \/ LeaveDirs \/ StartProcessing
  \/ \E e \in toFeed : Feed(e) \/ LocalVideo(e) \/ LocalVideoGone(e)
  \/ \E e \in inHand : Process(e) \/ ProcessPanics(e)
  \/ LeaveProcessing \/ StartPruning
  \/ \E p \in Places : ReadPlace(p) \/ ReadFails(p)
  \/ \E t \in Targets : PruneOne(t)
  \/ SourceMissing \/ EndPruning \/ LeaveCancelled

Next ==
  \/ DriveNext
  \/ \E k \in {"full", "incremental"} : StartRun(k)
  \/ UserCancels
  \/ RunNext

Spec == Init /\ [][Next]_vars

\* The goroutines of a run go on; the drive, the user and the scheduler need not.
FairSpec == Spec /\ WF_vars(RunNext)

---------------------------------------------------------------------------
(* Properties. *)

Entries == [file : Files, parent : Places]

\* Types, and where the pieces of a walk may be non-empty.
TypeOK ==
  /\ order \in Seq(Files) /\ home \in [Files -> Places] /\ name \in [Dirs -> Names]
  /\ stored \in [Dirs -> PathSet \union {None}] /\ cache \in [Dirs -> PathSet \union {None}]
  /\ local \in [Targets -> Files \union {None}]
  /\ provider \in Providers /\ kind \in {"full", "incremental"} /\ phase \in Phases
  /\ outcome \in {"none", "done", "aborted"} /\ cancelled \in {"no", "walk", "user"}
  /\ failed \in BOOLEAN /\ quiet \in BOOLEAN /\ sound \in BOOLEAN /\ paged \in BOOLEAN
  /\ alive \in 0 .. PageWorkers + DirWorkers + ProcessWorkers
  /\ pages \subseteq Offsets /\ fetching \subseteq Offsets
  /\ dirty \subseteq Dirs /\ pids \subseteq Dirs /\ resolving \subseteq Dirs
  /\ listed \subseteq Entries /\ toFeed \subseteq listed /\ inHand \subseteq listed
  /\ places \subseteq Places /\ seen \subseteq Targets /\ steady \subseteq OnDrive
  /\ runs \in 0 .. MaxRuns /\ changes \in 0 .. MaxChanges /\ faults \in 0 .. MaxFaults

\* Whatever directory or worker fails on the way, deletion starts only after every entry
\* of the answers was marked as seen under a resolved path; walk115Flat returns an error
\* or a cancellation otherwise.
ListedIsSeen ==
  phase = "prune" =>
    \A e \in listed : (e.parent # Root => cache[e.parent] # None) /\ TargetOf(e) \in seen

\* Whatever page or worker fails on the way, deletion starts only after every video that
\* stayed was in the answers, unless pages shifted under the run or a directory of a
\* local source could not be read.
SteadyIsListed ==
  phase = "prune" /\ sound /\ (quiet \/ ~paged) => steady \subseteq {e.file : e \in listed}

\* A run that ends well on a drive that kept still, all files readable and writable,
\* leaves exactly one .strm for every believed path of a video.  Its content is that of a
\* video of that path or, after an incremental run, of one with the modification time of
\* such a video (strm_sync.go:993): an old content survives only in that way.
DoneIsMirror ==
  phase = "idle" /\ outcome = "done" /\ quiet /\ sound =>
    /\ {e.file : e \in listed} = OnDrive
    /\ \A t \in Targets :
         LET there == {e.file : e \in {x \in listed : TargetOf(x) = t}}
         IN  IF there = {} THEN local[t] = None
             ELSE /\ local[t] # None
                  /\ \/ local[t] \in there
                     \/ kind = "incremental" /\ \E f \in there : Stamp[local[t]] = Stamp[f]

\* A full run believes nothing it has not resolved itself: on a drive that kept still its
\* paths are the true ones, however wrong the stored table was.
FullIsTrue ==
  kind = "full" /\ quiet => \A d \in Dirs : cache[d] \in {None, PathOf(d)}

\* Pruning removes only videos that are no longer there (comment of pruneLocal).
PrunesOnlyVanished ==
  [][\A t \in Targets : local[t] # None /\ local'[t] = None =>
        local[t] \notin steady \/ \E e \in listed : e.file = local[t] /\ TargetOf(e) # t]_vars

\* Whatever fails, panics or is cancelled, no run hangs.
RunEnds == phase # "idle" ~> phase = "idle"
=============================================================================
