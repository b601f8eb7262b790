--------------------------- MODULE FlatSyncProofs ---------------------------
(***************************************************************************)
(* Proofs about FlatSync, for any tree, any number of workers and any page *)
(* size: deletion starts only after everything that was listed has been    *)
(* seen and everything that stayed was listed, a full run believes true    *)
(* paths, a run that ends well leaves a mirror of the drive, and a .strm   *)
(* is deleted for a good reason only.                                      *)
(***************************************************************************)
EXTENDS FlatSync, SequenceTheorems, FiniteSetTheorems, TLAPS

\* Of a local source: a directory is read after the one it is in, so that the cached
\* path of a directory does not change once its videos are listed.
ParentsFirst == \A d \in Dirs : Parent(d) \in places => d \in places

LocalPart ==
  phase = "local" =>
    /\ ParentsFirst
    /\ \A e \in listed :
         /\ e.parent \in Places \ places
         /\ e.parent # Root => cache[e.parent] # None
         /\ e \in toFeed \/ TargetOf(e) \in seen

\* Of a 115 drive: unless the walk is to fail, an entry waits, is in a worker's hands, or
\* is settled.
ProcessPart ==
  phase = "process" /\ ~failed /\ cancelled = "no" =>
    \A e \in listed :
      \/ e \in toFeed
      \/ /\ e.parent # Root => cache[e.parent] # None
         /\ e \in inHand \/ TargetOf(e) \in seen

NamesPart == name \in [Dirs -> Names]

IInv == NamesPart /\ LocalPart /\ ProcessPart /\ ListedIsSeen

---------------------------------------------------------------------------
(* Facts about trees. *)

LEMMA ChainShape ==
  ASSUME NEW d \in Dirs
  PROVE  /\ Len(Chain[d]) \in Nat /\ Len(Chain[d]) >= 1
         /\ DOMAIN Chain[d] = 1 .. Len(Chain[d])
         /\ \A i \in 1 .. Len(Chain[d]) : Chain[d][i] \in Dirs
         /\ Chain[d][Len(Chain[d])] = d
<1>1. Chain[d] \in Seq(Dirs) /\ Len(Chain[d]) > 0 /\ Chain[d][Len(Chain[d])] = d
  BY TreeAssumption
<1>2. /\ Len(Chain[d]) \in Nat
      /\ Chain[d] \in [1 .. Len(Chain[d]) -> Dirs]
      /\ DOMAIN Chain[d] = 1 .. Len(Chain[d])
  BY <1>1, LenProperties
<1> QED
  BY <1>1, <1>2

LEMMA OneLess ==
  ASSUME NEW n \in Nat, n >= 1, n # 1
  PROVE  n - 1 \in Nat /\ n - 1 \in 1 .. n
OBVIOUS

LEMMA ParentIsPlace ==
  ASSUME NEW d \in Dirs
  PROVE  Parent(d) \in Places
<1> DEFINE n == Len(Chain[d])
<1>1. n \in Nat /\ n >= 1 /\ \A i \in 1 .. n : Chain[d][i] \in Dirs
  BY ChainShape
<1>2. n # 1 => n - 1 \in 1 .. n
  BY <1>1, OneLess
<1>3. n # 1 => Chain[d][n - 1] \in Dirs
  BY <1>1, <1>2
<1> QED
  BY <1>3 DEF Parent, Places

LEMMA ParentIsAbove ==
  ASSUME NEW d \in Dirs
  PROVE  d \in Below(Parent(d))
<1> DEFINE n == Len(Chain[d])
<1>1. n \in Nat /\ n >= 1 /\ DOMAIN Chain[d] = 1 .. n
  BY ChainShape
<1>2. n # 1 => n - 1 \in DOMAIN Chain[d]
  BY <1>1, OneLess
<1> QED
  BY <1>2 DEF Parent, Below

\* The chain of a directory's parent is its own without the last step.
LEMMA ParentChain ==
  ASSUME NEW d \in Dirs, Len(Chain[d]) # 1
  PROVE  \A i \in 1 .. Len(Chain[d]) - 1 :
            i \in DOMAIN Chain[Parent(d)] /\ Chain[Parent(d)][i] = Chain[d][i]
<1> DEFINE n == Len(Chain[d])
<1>1. n \in Nat /\ n >= 1 /\ DOMAIN Chain[d] = 1 .. n /\ Chain[d] \in Seq(Dirs)
  BY ChainShape, TreeAssumption
<1>2. n - 1 \in DOMAIN Chain[d] /\ n - 1 \in Nat
  BY <1>1, OneLess
<1>3. Chain[Chain[d][n - 1]] = SubSeq(Chain[d], 1, n - 1)
  BY <1>2, TreeAssumption
<1>4. Chain[Parent(d)] = SubSeq(Chain[d], 1, n - 1)
  BY <1>3 DEF Parent
<1>5. SubSeq(Chain[d], 1, n - 1) = [i \in 1 .. n - 1 |-> Chain[d][i]]
  BY <1>1, <1>2
<1> QED
  BY <1>4, <1>5

\* What lies below an unreadable directory p: with a directory also its subdirectories.
LEMMA BelowIsClosed ==
  ASSUME NEW p \in Places, NEW d \in Dirs, d \in Below(p), d # p
  PROVE  Parent(d) \in Below(p)
<1>1. CASE p = Root
  BY <1>1, ParentIsPlace DEF Places, Below
<1>2. CASE p # Root
  <2> DEFINE n == Len(Chain[d])
  <2>1. n \in Nat /\ n >= 1 /\ DOMAIN Chain[d] = 1 .. n /\ Chain[d][n] = d
    BY ChainShape
  <2>2. PICK i \in DOMAIN Chain[d] : Chain[d][i] = p
    BY <1>2 DEF Below
  <2>3. i \in 1 .. n - 1 /\ n # 1
    BY <2>1, <2>2
  <2>4. i \in DOMAIN Chain[Parent(d)] /\ Chain[Parent(d)][i] = p
    BY <2>2, <2>3, ParentChain
  <2>5. Parent(d) \in Places
    BY ParentIsPlace
  <2>6. Parent(d) # Root => Parent(d) \in Below(p)
    <3>1. CASE Parent(d) \in Dirs
      BY <2>4, <3>1 DEF Below
    <3> QED
      BY <2>5, <3>1 DEF Places
  <2>7. Parent(d) # Root
    <3>1. Chain[d][n - 1] \in Dirs
      BY <2>1, <2>3, ChainShape, OneLess
    <3> QED
      BY <3>1, <2>3, TreeAssumption DEF Parent
  <2> QED
    BY <2>6, <2>7
<1> QED
  BY <1>1, <1>2

\* A path is never None.
LEMMA PathIsSome ==
  ASSUME NamesPart, NEW d \in Dirs
  PROVE  PathOf(d) # None
<1> DEFINE n == Len(Chain[d])
<1>1. n \in Nat /\ DOMAIN Chain[d] = 1 .. n /\ \A i \in 1 .. n : Chain[d][i] \in Dirs
  BY ChainShape
<1>2. PathOf(d) = [i \in 1 .. n |-> name[Chain[d][i]]]
  BY <1>1 DEF PathOf
<1>3. \A i \in 1 .. n : name[Chain[d][i]] \in Names
  BY <1>1 DEF NamesPart
<1>4. PathOf(d) \in [1 .. n -> Names]
  BY <1>2, <1>3
<1>5. PathOf(d) \in Seq(Names)
  BY <1>1, <1>4
<1> QED
  BY <1>5, TreeAssumption

---------------------------------------------------------------------------
(* Deletion starts only after everything that was listed has been seen. *)

\* The steps that hand over nothing and resolve nothing.
Handed == <<phase, failed, cancelled, cache, listed, toFeed, inHand, places, seen>>

LEMMA QuietSteps ==
  ASSUME IInv, NamesPart', UNCHANGED Handed
  PROVE  IInv'
BY DEF IInv, NamesPart, LocalPart, ParentsFirst, ProcessPart, ListedIsSeen, Handed, TargetOf, Believed

\* A step that leads to a phase in which nothing is handed over.
LEMMA OtherPhases ==
  ASSUME NamesPart', phase' \notin {"local", "process", "prune"}
  PROVE  IInv'
BY DEF IInv, LocalPart, ProcessPart, ListedIsSeen

LEMMA StartRunListed ==
  ASSUME IInv, NEW k, StartRun(k)
  PROVE  IInv'
<1>1. NamesPart'
  BY DEF IInv, NamesPart, StartRun, drive
<1>2. listed' = {} /\ places' \in {{}, Places} /\ phase' \in {"probe", "local"}
  BY DEF StartRun
<1>3. \A d \in Dirs : (Parent(d) \in places => d \in places)'
  BY <1>2 DEF Places, Parent
<1> QED
  BY <1>1, <1>2, <1>3 DEF IInv, LocalPart, ParentsFirst, ProcessPart, ListedIsSeen

LEMMA ProcessListed ==
  ASSUME IInv, NEW e \in toFeed \union inHand, Feed(e) \/ Process(e) \/ ProcessPanics(e)
  PROVE  IInv'
<1>1. NamesPart' /\ phase = "process" /\ phase' = "process" /\ UNCHANGED <<cache, listed>>
  BY DEF IInv, NamesPart, Feed, Process, ProcessPanics, During, drive
<1>2. \A x : TargetOf(x)' = TargetOf(x)
  BY <1>1 DEF TargetOf, Believed
<1>3. CASE Feed(e)
  BY <1>1, <1>2, <1>3 DEF IInv, LocalPart, ProcessPart, ListedIsSeen, Feed
<1>4. CASE Process(e)
  <2>1. cancelled' = cancelled /\ failed' = failed /\ toFeed' = toFeed /\ inHand' = inHand \ {e}
    BY <1>4 DEF Process
  <2>2. cancelled = "no" => seen \subseteq seen' /\ TargetOf(e) \in seen'
    BY <1>4 DEF Process, Handle
  <2> QED
    BY <1>1, <1>2, <2>1, <2>2 DEF IInv, LocalPart, ProcessPart, ListedIsSeen
<1>5. CASE ProcessPanics(e)
  BY <1>1, <1>5 DEF IInv, LocalPart, ProcessPart, ListedIsSeen, ProcessPanics
<1> QED
  BY <1>3, <1>4, <1>5

LEMMA StartProcessingListed ==
  ASSUME IInv, StartProcessing
  PROVE  IInv'
<1>1. NamesPart' /\ phase' = "process" /\ toFeed' = listed /\ UNCHANGED listed
  BY DEF IInv, NamesPart, StartProcessing, During, drive
<1> QED
  BY <1>1 DEF IInv, LocalPart, ProcessPart, ListedIsSeen

LEMMA StartPruningListed ==
  ASSUME IInv, StartPruning
  PROVE  IInv'
<1>1. /\ NamesPart' /\ phase' = "prune" /\ ~failed
      /\ UNCHANGED <<cache, listed, toFeed, inHand, places, seen>>
  BY DEF IInv, NamesPart, StartPruning, During, drive
<1>2. \A x : TargetOf(x)' = TargetOf(x)
  BY <1>1 DEF TargetOf, Believed
<1>3. CASE Processed /\ cancelled = "no"
  BY <1>1, <1>2, <1>3 DEF IInv, LocalPart, ProcessPart, ListedIsSeen, Processed
<1>4. CASE phase = "local" /\ toFeed = {}
  BY <1>1, <1>2, <1>4 DEF IInv, LocalPart, ProcessPart, ListedIsSeen
<1> QED
  BY <1>3, <1>4 DEF StartPruning, During

---------------------------------------------------------------------------
(* A local source. *)

LEMMA ReadPlaceListed ==
  ASSUME IInv, NEW p \in Places, ReadPlace(p)
  PROVE  IInv'
<1> DEFINE here == {[file |-> f, parent |-> p] : f \in {g \in OnDrive : home[g] = p}}
<1>1. /\ phase = "local" /\ phase' = "local" /\ toFeed = {} /\ Readable(p) /\ ~Lost(p)
      /\ UNCHANGED seen
      /\ places' = places \ {p} /\ toFeed' = here /\ listed' = listed \union here
      /\ cache' = [d \in Dirs |-> IF Parent(d) = p THEN PathOf(d) ELSE cache[d]]
  BY DEF ReadPlace, During
<1>2. NamesPart /\ NamesPart'
  BY DEF IInv, NamesPart, ReadPlace, During, drive
<1>3. ParentsFirst
  BY <1>1 DEF IInv, LocalPart
<1>4. ASSUME NEW d \in Dirs, Parent(d) \in places \ {p}
      PROVE  d \in places \ {p}
  <2>1. d \in places
    BY <1>3, <1>4 DEF ParentsFirst
  <2>2. d # p
    BY <1>1, <1>4, ParentIsAbove DEF Readable
  <2> QED
    BY <2>1, <2>2
<1>5. ParentsFirst'
  BY <1>1, <1>4 DEF ParentsFirst, Parent
<1>6. ASSUME NEW e \in here
      PROVE  (/\ e.parent \in Places \ places
              /\ e.parent # Root => cache[e.parent] # None
              /\ e \in toFeed)'
  <2>1. e.parent = p
    OBVIOUS
  <2>2. p # Root => p \in Dirs /\ PathOf(p) = cache[p]
    BY <1>1 DEF Lost, Places
  <2>3. p # Root => cache'[p] # None
    BY <1>1, <1>2, <2>2, PathIsSome
  <2> QED
    BY <1>1, <2>1, <2>3 DEF Places
<1>7. ASSUME NEW e \in listed
      PROVE  (/\ e.parent \in Places \ places
              /\ e.parent # Root => cache[e.parent] # None
              /\ TargetOf(e) \in seen)'
  <2>1. /\ e.parent \in Places \ places
        /\ e.parent # Root => cache[e.parent] # None
        /\ TargetOf(e) \in seen
    BY <1>1 DEF IInv, LocalPart
  <2>2. ASSUME e.parent # Root
        PROVE  cache'[e.parent] = cache[e.parent]
    <3>1. e.parent \in Dirs /\ e.parent \notin places /\ p \in places
      BY <1>1, <2>1, <2>2 DEF Places, Readable
    <3>2. Parent(e.parent) # p
      BY <1>3, <3>1 DEF ParentsFirst
    <3> QED
      BY <1>1, <3>1, <3>2
  <2>3. TargetOf(e)' = TargetOf(e)
    BY <2>2 DEF TargetOf, Believed
  <2> QED
    BY <1>1, <2>1, <2>2, <2>3 DEF Places
<1>8. LocalPart'
  BY <1>1, <1>5, <1>6, <1>7 DEF LocalPart
<1> QED
  BY <1>1, <1>2, <1>8 DEF IInv, ProcessPart, ListedIsSeen

LEMMA ReadFailsListed ==
  ASSUME IInv, NEW p \in Places, ReadFails(p)
  PROVE  IInv'
<1>1. /\ phase = "local" /\ phase' = "local" /\ Readable(p) /\ places' = places \ Below(p)
      /\ UNCHANGED <<cache, seen, listed, toFeed>>
  BY DEF ReadFails, During
<1>2. NamesPart'
  BY DEF IInv, NamesPart, ReadFails, During, drive
<1>3. ParentsFirst
  BY <1>1 DEF IInv, LocalPart
<1>4. ASSUME NEW d \in Dirs, Parent(d) \in places \ Below(p)
      PROVE  d \in places \ Below(p)
  <2>1. d \in places
    BY <1>3, <1>4 DEF ParentsFirst
  <2>2. d # p
    BY <1>1, <1>4, ParentIsAbove DEF Readable, Below
  <2>3. d \notin Below(p)
    BY <1>4, <2>2, BelowIsClosed
  <2> QED
    BY <2>1, <2>3
<1>5. ParentsFirst'
  BY <1>1, <1>4 DEF ParentsFirst, Parent
<1>6. LocalPart'
  BY <1>1, <1>5 DEF IInv, LocalPart, TargetOf, Believed, Places
<1> QED
  BY <1>1, <1>2, <1>6 DEF IInv, ProcessPart, ListedIsSeen

LEMMA LocalVideoListed ==
  ASSUME IInv, NEW e \in toFeed, LocalVideo(e) \/ LocalVideoGone(e)
  PROVE  IInv'
<1>1. /\ NamesPart' /\ phase = "local" /\ phase' = "local" /\ UNCHANGED <<cache, places>>
      /\ toFeed' = toFeed \ {e} /\ seen \subseteq seen'
      /\ \/ listed' = listed /\ TargetOf(e) \in seen'
         \/ listed' = listed \ {e}
  BY DEF IInv, NamesPart, LocalVideo, WriteStrm, LocalVideoGone, During, drive
<1>2. \A x : TargetOf(x)' = TargetOf(x)
  BY <1>1 DEF TargetOf, Believed
<1>3. ParentsFirst'
  BY <1>1 DEF IInv, LocalPart, ParentsFirst, Parent
<1>4. LocalPart'
  BY <1>1, <1>2, <1>3 DEF IInv, LocalPart, Places
<1> QED
  BY <1>1, <1>4 DEF IInv, ProcessPart, ListedIsSeen

---------------------------------------------------------------------------
LEMMA DriveListed ==
  ASSUME IInv, DriveNext
  PROVE  IInv'
<1>1. UNCHANGED Handed
  BY DEF DriveNext, Rename, RemoveVideo, AddVideo, ReplaceVideo, Change, Handed, walk
<1>2. NamesPart'
  BY DEF IInv, NamesPart, DriveNext, Rename, RemoveVideo, AddVideo, ReplaceVideo
<1> QED
  BY <1>1, <1>2, QuietSteps

LEMMA UserCancelsListed ==
  ASSUME IInv, UserCancels
  PROVE  IInv'
BY DEF UserCancels, IInv, NamesPart, LocalPart, ParentsFirst, ProcessPart, ListedIsSeen, TargetOf,
       Believed, drive, walk

\* Pruning itself takes nothing from what was listed or seen.
LEMMA PruneListed ==
  ASSUME IInv, NEW t, PruneOne(t)
  PROVE  IInv'
<1>1. UNCHANGED Handed /\ NamesPart'
  BY DEF PruneOne, During, Handed, walk, IInv, NamesPart, drive
<1> QED
  BY <1>1, QuietSteps

LEMMA RunNextListed ==
  ASSUME IInv, RunNext
  PROVE  IInv'
<1>1. CASE Probe \/ CollectParents
  BY <1>1, OtherPhases DEF Probe, CollectParents, During, IInv, NamesPart, drive
<1>2. CASE ProbeFails \/ LeavePages \/ LeaveDirs \/ LeaveProcessing \/ SourceMissing \/ EndPruning \/ LeaveCancelled
  BY <1>2, OtherPhases DEF ProbeFails, LeavePages, LeaveDirs, LeaveProcessing, SourceMissing, EndPruning,
       LeaveCancelled, End, IInv, NamesPart, drive
<1>3. CASE \E o \in pages : TakePage(o)
  BY <1>3, OtherPhases DEF TakePage, During, IInv, NamesPart, drive
<1>4. CASE \E o \in fetching : PageArrives(o) \/ PageFails(o) \/ PagePanics(o)
  BY <1>4, OtherPhases DEF PageArrives, PageFails, PagePanics, During, IInv, NamesPart, drive
<1>5. CASE \E d \in Dirs : TakeDir(d) \/ DirArrives(d) \/ DirFails(d)
  BY <1>5, OtherPhases DEF TakeDir, DirArrives, DirFails, During, IInv, NamesPart, drive
<1>6. CASE StartProcessing
  BY <1>6, StartProcessingListed
<1>7. CASE \E e \in toFeed : Feed(e) \/ LocalVideo(e) \/ LocalVideoGone(e)
  BY <1>7, ProcessListed, LocalVideoListed
<1>8. CASE \E e \in inHand : Process(e) \/ ProcessPanics(e)
  BY <1>8, ProcessListed
<1>9. CASE StartPruning
  BY <1>9, StartPruningListed
<1>10. CASE \E p \in Places : ReadPlace(p) \/ ReadFails(p)
  BY <1>10, ReadPlaceListed, ReadFailsListed
<1>11. CASE \E t \in Targets : PruneOne(t)
  BY <1>11, PruneListed
<1> QED
  BY <1>1, <1>2, <1>3, <1>4, <1>5, <1>6, <1>7, <1>8, <1>9, <1>10, <1>11 DEF RunNext

LEMMA InitListed == Init => IInv
BY TreeAssumption DEF Init, IInv, NamesPart, LocalPart, ProcessPart, ListedIsSeen

LEMMA StepListed ==
  ASSUME IInv, [Next]_vars
  PROVE  IInv'
<1>1. CASE DriveNext
  BY <1>1, DriveListed
<1>2. CASE \E k \in {"full", "incremental"} : StartRun(k)
  BY <1>2, StartRunListed
<1>3. CASE UserCancels
  BY <1>3, UserCancelsListed
<1>4. CASE RunNext
  BY <1>4, RunNextListed
<1>5. CASE UNCHANGED vars
  <2>1. UNCHANGED Handed /\ NamesPart'
    BY <1>5 DEF vars, Handed, walk, drive, IInv, NamesPart
  <2> QED
    BY <2>1, QuietSteps
<1> QED
  BY <1>1, <1>2, <1>3, <1>4, <1>5 DEF Next

\* Whatever directory, page or worker fails, deletion starts only after every entry of the
\* answers was marked as seen under a resolved path (walk115Flat, walkLocalSource).
THEOREM ListedSeen == Spec => []ListedIsSeen
<1>1. IInv => ListedIsSeen
  BY DEF IInv
<1>2. IInv /\ [Next]_vars => IInv'
  BY StepListed
<1> QED
  BY <1>1, <1>2, InitListed, PTL DEF Spec

---------------------------------------------------------------------------
(* A full run believes true paths. *)

LEMMA ResolvesTruly ==
  ASSUME FullIsTrue, NEW d, DirArrives(d) \/ ReadPlace(d)
  PROVE  FullIsTrue'
<1>1. UNCHANGED <<name, kind, quiet>>
  BY DEF DirArrives, ReadPlace, During, drive
<1>2. \A c \in Dirs : cache'[c] \in {cache[c], PathOf(c)}
  BY DEF DirArrives, ReadPlace
<1>3. \A c \in Dirs : PathOf(c)' = PathOf(c)
  BY <1>1 DEF PathOf
<1> QED
  BY <1>1, <1>2, <1>3 DEF FullIsTrue

\* The steps that change neither the names nor the cached paths.
LEMMA KeepsPaths ==
  ASSUME FullIsTrue, UNCHANGED <<name, kind, cache>>, quiet' => quiet
  PROVE  FullIsTrue'
<1>1. \A c \in Dirs : PathOf(c)' = PathOf(c)
  BY DEF PathOf
<1> QED
  BY <1>1 DEF FullIsTrue

LEMMA RunNextTrue ==
  ASSUME FullIsTrue, RunNext
  PROVE  FullIsTrue'
<1>1. CASE Probe \/ CollectParents \/ StartProcessing \/ StartPruning
  BY <1>1, KeepsPaths DEF Probe, CollectParents, StartProcessing, StartPruning, During, drive
<1>2. CASE ProbeFails \/ LeavePages \/ LeaveDirs \/ LeaveProcessing \/ SourceMissing \/ EndPruning \/ LeaveCancelled
  BY <1>2, KeepsPaths DEF ProbeFails, LeavePages, LeaveDirs, LeaveProcessing, SourceMissing, EndPruning,
       LeaveCancelled, End, drive, walk, history
<1>3. CASE \E o \in pages : TakePage(o)
  BY <1>3, KeepsPaths DEF TakePage, During, drive
<1>4. CASE \E o \in fetching : PageArrives(o) \/ PageFails(o) \/ PagePanics(o)
  BY <1>4, KeepsPaths DEF PageArrives, PageFails, PagePanics, During, drive
<1>5. CASE \E d \in Dirs : TakeDir(d) \/ DirFails(d)
  BY <1>5, KeepsPaths DEF TakeDir, DirFails, During, drive
<1>6. CASE \E d \in Dirs : DirArrives(d)
  BY <1>6, ResolvesTruly
<1>7. CASE \E e \in toFeed : Feed(e) \/ LocalVideo(e) \/ LocalVideoGone(e)
  BY <1>7, KeepsPaths DEF Feed, LocalVideo, WriteStrm, LocalVideoGone, During, drive
<1>8. CASE \E e \in inHand : Process(e) \/ ProcessPanics(e)
  BY <1>8, KeepsPaths DEF Process, ProcessPanics, During, drive
<1>9. CASE \E p \in Places : ReadPlace(p)
  BY <1>9, ResolvesTruly
<1>10. CASE \E p \in Places : ReadFails(p)
  BY <1>10, KeepsPaths DEF ReadFails, During, drive
<1>11. CASE \E t \in Targets : PruneOne(t)
  BY <1>11, KeepsPaths DEF PruneOne, During, drive, walk
<1> QED
  BY <1>1, <1>2, <1>3, <1>4, <1>5, <1>6, <1>7, <1>8, <1>9, <1>10, <1>11 DEF RunNext

\* Whatever the stored table of paths holds from earlier runs, a full run on a drive that
\* kept still knows a directory by its true path or not at all (walk115Flat deletes the
\* table first and fills dirCache only from the answers of its own run).
THEOREM FullTrue == Spec => []FullIsTrue
<1>1. Init => FullIsTrue
  BY DEF Init, FullIsTrue
<1>2. FullIsTrue /\ [Next]_vars => FullIsTrue'
  <2> SUFFICES ASSUME FullIsTrue, [Next]_vars
               PROVE  FullIsTrue'
    OBVIOUS
  <2>1. CASE DriveNext
    BY <2>1 DEF DriveNext, Rename, RemoveVideo, AddVideo, ReplaceVideo, Change, FullIsTrue
  <2>2. CASE \E k \in {"full", "incremental"} : StartRun(k)
    <3>1. PICK k \in {"full", "incremental"} : StartRun(k)
      BY <2>2
    <3>2. kind' = k /\ (k = "full" => cache' = [d \in Dirs |-> None])
      BY <3>1 DEF StartRun
    <3> QED
      BY <3>2 DEF FullIsTrue
  <2>3. CASE UserCancels
    BY <2>3, KeepsPaths DEF UserCancels, drive, walk, history
  <2>4. CASE RunNext
    BY <2>4, RunNextTrue
  <2>5. CASE UNCHANGED vars
    BY <2>5, KeepsPaths DEF vars, drive, walk, history
  <2> QED
    BY <2>1, <2>2, <2>3, <2>4, <2>5 DEF Next
<1> QED
  BY <1>1, <1>2, PTL DEF Spec

---------------------------------------------------------------------------
(* Everything on the drive gets its file: the invariant. *)

\* Between its phases a run has nothing in its workers' hands.
HandsEmpty ==
  /\ phase # "pages" => fetching = {}
  /\ phase # "dirs" => resolving = {}
  /\ phase # "process" => inHand = {}
  /\ phase = "probe" => listed = {}
  /\ phase \in {"probe", "pages", "dirs"} => seen = {}

\* A worker holds one thing at a time.
OneEach ==
  /\ IsFiniteSet(inHand)
  /\ phase = "pages" => Cardinality(fetching) <= alive
  /\ phase = "dirs" => Cardinality(resolving) <= alive
  /\ phase = "process" => Cardinality(inHand) <= alive

HandsResolved ==
  phase = "process" => \A e \in inHand : e.parent # Root => cache[e.parent] # None

OnePlace == \A i, j \in DOMAIN order : order[i] = order[j] => i = j

\* On a drive that keeps still, the videos that stay are all there are.
ListedFiles == {e.file : e \in listed}
StillDrive ==
  quiet =>
    /\ phase # "idle" \/ outcome = "done" => steady = OnDrive
    /\ ListedFiles \subseteq OnDrive

\* Unless the walk is to fail, a video is listed, or its page waits or is being fetched;
\* and somebody is there to fetch it.
PageCover ==
  phase = "pages" /\ ~failed /\ cancelled = "no" =>
    /\ pages \union fetching # {} => alive > 0
    /\ ~paged => steady \subseteq ListedFiles
    /\ quiet =>
         \A i \in DOMAIN order :
           order[i] \in ListedFiles \/ \E o \in pages \union fetching : o < i /\ i <= o + PageSize

\* Of a local source: a video is listed, or its directory is still to be read.
LocalCover ==
  phase = "local" /\ sound => \A f \in steady : home[f] \in places \/ f \in ListedFiles

LaterCover ==
  phase \in {"dirs", "process"} /\ (quiet \/ ~paged) => steady \subseteq ListedFiles

PruneCover ==
  (phase = "prune" \/ (phase = "idle" /\ outcome = "done")) /\ sound /\ (quiet \/ ~paged) =>
    steady \subseteq ListedFiles

\* The content f stands for the video g: it is g's, or an incremental run took it for g's.
StandsFor(f, g) == f = g \/ (kind = "incremental" /\ Stamp[f] = Stamp[g])

\* Unless the run is to fail or a file could not be written, what was seen is there.
Written ==
  sound /\ (phase \in {"local", "prune"} \/ (phase = "process" /\ ~failed /\ cancelled = "no")) =>
    \A t \in seen : local[t] # None /\ \E e \in listed : TargetOf(e) = t /\ StandsFor(local[t], e.file)

MirrorInv ==
  /\ IInv
  /\ TypeOK
  /\ HandsEmpty
  /\ OneEach
  /\ HandsResolved
  /\ OnePlace
  /\ StillDrive
  /\ PageCover
  /\ LocalCover
  /\ LaterCover
  /\ PruneCover
  /\ Written
  /\ DoneIsMirror

---------------------------------------------------------------------------
(* Who writes what. *)

LEMMA Writers ==
  ASSUME [Next]_vars
  PROVE  /\ \/ UNCHANGED <<order, home>> /\ steady' = steady
            \/ \E k \in {"full", "incremental"} : StartRun(k)
            \/ \E f \in Files : RemoveVideo(f)
            \/ \E f \in Files, p \in Places : AddVideo(f, p)
            \/ \E f, g \in Files : ReplaceVideo(f, g)
         /\ UNCHANGED name \/ \E d \in Dirs, n \in Names : Rename(d, n)
         /\ \/ UNCHANGED <<stored, dirty>>
            \/ \E k \in {"full", "incremental"} : StartRun(k)
            \/ \E d \in Dirs : DirArrives(d)
            \/ LeaveDirs \/ StartProcessing
         /\ \/ UNCHANGED cache
            \/ \E k \in {"full", "incremental"} : StartRun(k)
            \/ \E d \in Dirs : DirArrives(d)
            \/ \E p \in Places : ReadPlace(p)
         /\ \/ UNCHANGED local
            \/ \E e \in toFeed : LocalVideo(e)
            \/ \E e \in inHand : Process(e)
            \/ \E t \in Targets : PruneOne(t)
         /\ \/ UNCHANGED seen
            \/ \E k \in {"full", "incremental"} : StartRun(k)
            \/ \E e \in toFeed : LocalVideo(e)
            \/ \E e \in inHand : Process(e) \/ ProcessPanics(e)
         /\ \/ UNCHANGED listed
            \/ \E k \in {"full", "incremental"} : StartRun(k)
            \/ Probe \/ \E o \in fetching : PageArrives(o)
            \/ \E e \in toFeed : LocalVideoGone(e)
            \/ \E p \in Places : ReadPlace(p)
<1>. USE DEF Next, DriveNext, Rename, RemoveVideo, AddVideo, ReplaceVideo, Change, StartRun, UserCancels, RunNext, Probe, ProbeFails,
       TakePage, PageArrives, PageFails, PagePanics, LeavePages, CollectParents, TakeDir, DirArrives, DirFails,
       LeaveDirs, StartProcessing, Feed, LocalVideo, WriteStrm, LocalVideoGone, Process, ProcessPanics, LeaveProcessing,
       StartPruning, ReadPlace, ReadFails, PruneOne, SourceMissing, EndPruning, LeaveCancelled, End, During,
       vars, drive, walk, history
<1>1. \/ UNCHANGED <<order, home>> /\ steady' = steady
      \/ \E k \in {"full", "incremental"} : StartRun(k)
      \/ \E f \in Files : RemoveVideo(f)
      \/ \E f \in Files, p \in Places : AddVideo(f, p)
      \/ \E f, g \in Files : ReplaceVideo(f, g)
  OBVIOUS
<1>2. UNCHANGED name \/ \E d \in Dirs, n \in Names : Rename(d, n)
  OBVIOUS
<1>3. \/ UNCHANGED <<stored, dirty>>
      \/ \E k \in {"full", "incremental"} : StartRun(k)
      \/ \E d \in Dirs : DirArrives(d)
      \/ LeaveDirs \/ StartProcessing
  OBVIOUS
<1>4. \/ UNCHANGED cache
      \/ \E k \in {"full", "incremental"} : StartRun(k)
      \/ \E d \in Dirs : DirArrives(d)
      \/ \E p \in Places : ReadPlace(p)
  OBVIOUS
<1>5. \/ UNCHANGED local
      \/ \E e \in toFeed : LocalVideo(e)
      \/ \E e \in inHand : Process(e)
      \/ \E t \in Targets : PruneOne(t)
  OBVIOUS
<1>6. \/ UNCHANGED seen
      \/ \E k \in {"full", "incremental"} : StartRun(k)
      \/ \E e \in toFeed : LocalVideo(e)
      \/ \E e \in inHand : Process(e) \/ ProcessPanics(e)
  OBVIOUS
<1>7. \/ UNCHANGED listed
      \/ \E k \in {"full", "incremental"} : StartRun(k)
      \/ Probe \/ \E o \in fetching : PageArrives(o)
      \/ \E e \in toFeed : LocalVideoGone(e)
      \/ \E p \in Places : ReadPlace(p)
  OBVIOUS
<1>. QED  BY <1>1, <1>2, <1>3, <1>4, <1>5, <1>6, <1>7

---------------------------------------------------------------------------
(* Types, in parts. *)

DriveTyped ==
  /\ order \in Seq(Files) /\ home \in [Files -> Places] /\ name \in [Dirs -> Names]
  /\ steady \subseteq OnDrive
TablesTyped ==
  /\ stored \in [Dirs -> PathSet \union {None}] /\ cache \in [Dirs -> PathSet \union {None}]
  /\ local \in [Targets -> Files \union {None}] /\ dirty \subseteq Dirs
ControlTyped ==
  /\ provider \in Providers /\ kind \in {"full", "incremental"} /\ phase \in Phases
  /\ outcome \in {"none", "done", "aborted"} /\ cancelled \in {"no", "walk", "user"}
  /\ failed \in BOOLEAN /\ quiet \in BOOLEAN /\ sound \in BOOLEAN /\ paged \in BOOLEAN
HandsTyped ==
  /\ pages \subseteq Offsets /\ fetching \subseteq Offsets
  /\ pids \subseteq Dirs /\ resolving \subseteq Dirs /\ places \subseteq Places
ListsTyped ==
  /\ listed \subseteq Entries /\ toFeed \subseteq listed /\ inHand \subseteq listed
  /\ seen \subseteq Targets
NumbersTyped ==
  /\ alive \in 0 .. PageWorkers + DirWorkers + ProcessWorkers
  /\ runs \in 0 .. MaxRuns /\ changes \in 0 .. MaxChanges /\ faults \in 0 .. MaxFaults

LEMMA TypeParts ==
  TypeOK <=> DriveTyped /\ TablesTyped /\ ControlTyped /\ HandsTyped /\ ListsTyped /\ NumbersTyped
BY Zenon DEF TypeOK, DriveTyped, TablesTyped, ControlTyped, HandsTyped, ListsTyped, NumbersTyped

LEMMA Numbers ==
  /\ PageSize \in Nat \ {0} /\ PageWorkers \in Nat \ {0} /\ DirWorkers \in Nat \ {0} /\ ProcessWorkers \in Nat \ {0}
  /\ MaxRuns \in Nat /\ MaxChanges \in Nat /\ MaxFaults \in Nat
BY NumbersAssumption

LEMMA StepControl ==
  ASSUME TypeOK, [Next]_vars
  PROVE  ControlTyped'
<1>. USE DEF TypeOK, ControlTyped, Phases,
       Next, DriveNext, Rename, RemoveVideo, AddVideo, ReplaceVideo, Change, StartRun, UserCancels, RunNext, Probe, ProbeFails,
       TakePage, PageArrives, PageFails, PagePanics, LeavePages, CollectParents, TakeDir, DirArrives, DirFails,
       LeaveDirs, StartProcessing, Feed, LocalVideo, LocalVideoGone, Process, Handle, WriteStrm, ProcessPanics, LeaveProcessing,
       StartPruning, ReadPlace, ReadFails, PruneOne, SourceMissing, EndPruning, LeaveCancelled, End, During,
       vars, walk, history
<1>1. provider' \in Providers /\ kind' \in {"full", "incremental"}
  OBVIOUS
<1>2. phase' \in Phases
  OBVIOUS
<1>3. outcome' \in {"none", "done", "aborted"} /\ cancelled' \in {"no", "walk", "user"}
  OBVIOUS
<1>4. failed' \in BOOLEAN
  OBVIOUS
<1>5. quiet' \in BOOLEAN /\ paged' \in BOOLEAN
  OBVIOUS
<1>6. sound' \in BOOLEAN
  OBVIOUS
<1>. QED  BY <1>1, <1>2, <1>3, <1>4, <1>5, <1>6 DEF ControlTyped

---------------------------------------------------------------------------
(* The drive. *)

\* Two sequences one after the other.
Joins(t, a, b) ==
  /\ t \in Seq(Files) /\ Len(t) = Len(a) + Len(b) /\ DOMAIN t = 1 .. Len(a) + Len(b)
  /\ \A i \in 1 .. Len(a) : t[i] = a[i]
  /\ \A i \in Len(a) + 1 .. Len(a) + Len(b) : t[i] = b[i - Len(a)]

LEMMA Joined ==
  ASSUME NEW a \in Seq(Files), NEW b \in Seq(Files)
  PROVE  Joins(a \o b, a, b)
<1>. DEFINE t == a \o b
<1>1. Len(a) \in Nat /\ Len(b) \in Nat
  BY LenProperties
<1>2. /\ t \in Seq(Files) /\ Len(t) = Len(a) + Len(b)
      /\ \A i \in 1 .. Len(a) + Len(b) : t[i] = IF i <= Len(a) THEN a[i] ELSE b[i - Len(a)]
  BY ConcatProperties
<1>. HIDE DEF t
<1>3. DOMAIN t = 1 .. Len(a) + Len(b)
  BY <1>2, LenProperties
<1>4. \A i \in 1 .. Len(a) : t[i] = a[i]
  BY <1>1, <1>2
<1>5. \A i \in Len(a) + 1 .. Len(a) + Len(b) : t[i] = b[i - Len(a)]
  BY <1>1, <1>2
<1>6. Joins(t, a, b)
  BY <1>2, <1>3, <1>4, <1>5 DEF Joins
<1>. QED  BY <1>6 DEF t

LEMMA Part ==
  ASSUME NEW s \in Seq(Files), NEW m \in Nat, NEW n \in Nat, 1 <= m, m <= n + 1, n <= Len(s), NEW a, a = SubSeq(s, m, n)
  PROVE  a \in Seq(Files) /\ Len(a) = n - m + 1 /\ \A i \in 1 .. n - m + 1 : a[i] = s[m + i - 1]
<1>1. \A i \in m .. n : s[i] \in Files
  BY LenProperties, ElementOfSeq
<1>2. /\ SubSeq(s, m, n) \in Seq(Files)
      /\ Len(SubSeq(s, m, n)) = IF m <= n THEN n - m + 1 ELSE 0
      /\ \A i \in 1 .. n - m + 1 : SubSeq(s, m, n)[i] = s[m + i - 1]
  BY <1>1, SubSeqProperties
<1>. QED  BY <1>2

\* A sequence without its k-th element, and with f after the k-th.
LEMMA Without ==
  ASSUME NEW s \in Seq(Files), NEW k \in 1 .. Len(s), NEW t, t = SubSeq(s, 1, k - 1) \o SubSeq(s, k + 1, Len(s))
  PROVE  /\ t \in Seq(Files) /\ DOMAIN t = 1 .. Len(s) - 1
         /\ \A i \in 1 .. k - 1 : t[i] = s[i]
         /\ \A i \in k .. Len(s) - 1 : t[i] = s[i + 1]
<1>. DEFINE a == SubSeq(s, 1, k - 1)
            b == SubSeq(s, k + 1, Len(s))
<1>1. Len(s) \in Nat /\ k \in Nat /\ k - 1 \in Nat /\ k + 1 \in Nat /\ 1 <= k /\ k <= Len(s)
  BY LenProperties
<1>2. a \in Seq(Files) /\ Len(a) = k - 1 /\ \A i \in 1 .. k - 1 : a[i] = s[i]
  BY <1>1, Part
<1>3. b \in Seq(Files) /\ Len(b) = Len(s) - k /\ \A i \in 1 .. Len(s) - k : b[i] = s[k + i]
  BY <1>1, Part
<1>4. t = a \o b
  OBVIOUS
<1>. HIDE DEF a, b
<1>5. /\ t \in Seq(Files) /\ DOMAIN t = 1 .. Len(a) + Len(b)
      /\ \A i \in 1 .. Len(a) : t[i] = a[i]
      /\ \A i \in Len(a) + 1 .. Len(a) + Len(b) : t[i] = b[i - Len(a)]
  <2>1. Joins(t, a, b)
    BY <1>2, <1>3, <1>4, Joined
  <2>. QED  BY <2>1 DEF Joins
<1>6. Len(a) + Len(b) = Len(s) - 1 /\ Len(a) + 1 = k
  BY <1>1, <1>2, <1>3
<1>7. ASSUME NEW i \in k .. Len(s) - 1
      PROVE  t[i] = s[i + 1]
  <2>1. i - Len(a) \in 1 .. Len(s) - k /\ k + (i - Len(a)) = i + 1
    BY <1>1, <1>2
  <2>2. t[i] = b[i - Len(a)]
    BY <1>5, <1>6
  <2>. QED  BY <1>3, <2>1, <2>2
<1>. QED  BY <1>2, <1>5, <1>6, <1>7

HasOneMore(t, s, k, f) ==
  /\ t \in Seq(Files) /\ DOMAIN t = 1 .. Len(s) + 1
  /\ t[k + 1] = f
  /\ \A i \in 1 .. k : t[i] = s[i]
  /\ \A i \in k + 2 .. Len(s) + 1 : t[i] = s[i - 1]

LEMMA WithOne ==
  ASSUME NEW s \in Seq(Files), NEW k \in 0 .. Len(s), NEW f \in Files,
         NEW t, t = SubSeq(s, 1, k) \o <<f>> \o SubSeq(s, k + 1, Len(s))
  PROVE  HasOneMore(t, s, k, f)
<1>. DEFINE a == SubSeq(s, 1, k)
            b == SubSeq(s, k + 1, Len(s))
            l == <<f>>
            c == a \o l
<1>1. Len(s) \in Nat /\ k \in Nat /\ k + 1 \in Nat /\ k <= Len(s)
  BY LenProperties
<1>2. a \in Seq(Files) /\ Len(a) = k /\ \A i \in 1 .. k : a[i] = s[i]
  BY <1>1, Part
<1>3. b \in Seq(Files) /\ Len(b) = Len(s) - k /\ \A i \in 1 .. Len(s) - k : b[i] = s[k + i]
  BY <1>1, Part
<1>4. l \in Seq(Files) /\ Len(l) = 1 /\ l[1] = f
  OBVIOUS
<1>5. t = c \o b
  OBVIOUS
<1>. HIDE DEF a, b, l
<1>6. c \in Seq(Files) /\ Len(c) = k + 1 /\ c[k + 1] = f /\ \A i \in 1 .. k : c[i] = s[i]
  <2>1. /\ c \in Seq(Files) /\ Len(c) = Len(a) + Len(l)
        /\ \A i \in 1 .. Len(a) : c[i] = a[i]
        /\ \A i \in Len(a) + 1 .. Len(a) + Len(l) : c[i] = l[i - Len(a)]
    <3>1. Joins(c, a, l)
      BY <1>2, <1>4, Joined
    <3>. HIDE DEF c
    <3>. QED  BY <3>1 DEF Joins
  <2>. HIDE DEF c
  <2>2. c[k + 1] = l[k + 1 - k]
    BY <1>1, <1>2, <1>4, <2>1
  <2>3. k + 1 - k = 1
    BY <1>1
  <2>. QED  BY <1>1, <1>2, <1>4, <2>1, <2>2, <2>3
<1>. HIDE DEF c
<1>7. /\ t \in Seq(Files) /\ DOMAIN t = 1 .. Len(c) + Len(b)
      /\ \A i \in 1 .. Len(c) : t[i] = c[i]
      /\ \A i \in Len(c) + 1 .. Len(c) + Len(b) : t[i] = b[i - Len(c)]
  <2>1. Joins(t, c, b)
    BY <1>3, <1>5, <1>6, Joined
  <2>. QED  BY <2>1 DEF Joins
<1>8. Len(c) + Len(b) = Len(s) + 1 /\ k + 1 \in 1 .. Len(c) /\ \A i \in 1 .. k : i \in 1 .. Len(c)
  <2>1. Len(c) = k + 1 /\ Len(b) = Len(s) - k
    BY <1>3, <1>6
  <2>. QED  BY <1>1, <2>1
<1>9. ASSUME NEW i \in k + 2 .. Len(s) + 1
      PROVE  t[i] = s[i - 1]
  <2>1. i - Len(c) \in 1 .. Len(s) - k /\ k + (i - Len(c)) = i - 1 /\ i \in Len(c) + 1 .. Len(c) + Len(b)
    BY <1>1, <1>6, <1>8
  <2>2. t[i] = b[i - Len(c)]
    BY <1>7, <2>1
  <2>. QED  BY <1>3, <2>1, <2>2
<1>10. \A i \in 1 .. k : t[i] = s[i]
  BY <1>6, <1>7, <1>8
<1>. QED  BY <1>6, <1>7, <1>8, <1>9, <1>10 DEF HasOneMore

LEMMA StepDrive ==
  ASSUME TypeOK, OnePlace, [Next]_vars
  PROVE  DriveTyped' /\ OnePlace'
<1>1. /\ order \in Seq(Files) /\ home \in [Files -> Places] /\ name \in [Dirs -> Names]
      /\ steady \subseteq OnDrive /\ Len(order) \in Nat /\ DOMAIN order = 1 .. Len(order)
  BY LenProperties DEF TypeOK
<1>2. name' \in [Dirs -> Names]
  BY <1>1, Writers DEF Rename
<1>3. CASE UNCHANGED <<order, home>> /\ steady' = steady
  BY <1>1, <1>2, <1>3 DEF DriveTyped, OnePlace, OnDrive
<1>4. ASSUME NEW k, StartRun(k)
      PROVE  DriveTyped' /\ OnePlace'
  <2>1. UNCHANGED <<order, home>> /\ steady' = OnDrive
    BY <1>4 DEF StartRun, drive
  <2>. QED  BY <1>1, <1>2, <2>1 DEF DriveTyped, OnePlace, OnDrive
<1>5. ASSUME NEW f \in Files, RemoveVideo(f)
      PROVE  DriveTyped' /\ OnePlace'
  <2>1. PICK k \in 1 .. Len(order) : order[k] = f /\ order' = SubSeq(order, 1, k - 1) \o SubSeq(order, k + 1, Len(order))
    BY <1>1, <1>5 DEF RemoveVideo
  <2>2. /\ order' \in Seq(Files) /\ DOMAIN order' = 1 .. Len(order) - 1
        /\ \A i \in 1 .. k - 1 : order'[i] = order[i]
        /\ \A i \in k .. Len(order) - 1 : order'[i] = order[i + 1]
    BY <1>1, <2>1, Without
  <2>3. OnePlace'
    <3>1. ASSUME NEW i \in 1 .. Len(order) - 1
          PROVE  LET p == IF i < k THEN i ELSE i + 1
                 IN  p \in 1 .. Len(order) /\ order'[i] = order[p]
      BY <1>1, <2>2
    <3>2. ASSUME NEW i \in 1 .. Len(order) - 1, NEW j \in 1 .. Len(order) - 1, order'[i] = order'[j]
          PROVE  i = j
      <4>1. (IF i < k THEN i ELSE i + 1) = (IF j < k THEN j ELSE j + 1)
        BY <1>1, <3>1, <3>2 DEF OnePlace
      <4>. QED  BY <4>1
    <3>. QED  BY <2>2, <3>2 DEF OnePlace
  <2>4. steady' \subseteq OnDrive'
    <3>1. ASSUME NEW g \in steady', g \notin OnDrive'
          PROVE  FALSE
      <4>1. g # f /\ g \in OnDrive
        BY <1>1, <1>5, <3>1 DEF RemoveVideo
      <4>2. PICK j \in 1 .. Len(order) : order[j] = g
        BY <1>1, <4>1 DEF OnDrive
      <4>3. CASE j < k
        <5>1. j \in DOMAIN order' /\ order'[j] = order[j]
          BY <1>1, <2>2, <4>2, <4>3
        <5>. QED  BY <3>1, <4>2, <5>1 DEF OnDrive
      <4>4. CASE j > k
        <5>1. j - 1 \in DOMAIN order' /\ order'[j - 1] = order[j]
          BY <1>1, <2>2, <4>2, <4>4
        <5>. QED  BY <3>1, <4>2, <5>1 DEF OnDrive
      <4>. QED  BY <2>1, <4>1, <4>2, <4>3, <4>4
    <3>. QED  BY <3>1
  <2>5. home' = home
    BY <1>5 DEF RemoveVideo
  <2>. QED  BY <1>1, <1>2, <2>2, <2>3, <2>4, <2>5 DEF DriveTyped
<1>6. ASSUME NEW f \in Files, NEW p \in Places, AddVideo(f, p)
      PROVE  DriveTyped' /\ OnePlace'
  <2>1. PICK k \in 0 .. Len(order) : order' = SubSeq(order, 1, k) \o <<f>> \o SubSeq(order, k + 1, Len(order))
    BY <1>6 DEF AddVideo
  <2>2. /\ order' \in Seq(Files) /\ DOMAIN order' = 1 .. Len(order) + 1
        /\ order'[k + 1] = f
        /\ \A i \in 1 .. k : order'[i] = order[i]
        /\ \A i \in k + 2 .. Len(order) + 1 : order'[i] = order[i - 1]
    <3>1. HasOneMore(order', order, k, f)
      BY <1>1, <2>1, WithOne
    <3>. QED  BY <1>1, <3>1 DEF HasOneMore
  <2>3. \A i \in 1 .. Len(order) : order[i] # f
    BY <1>1, <1>6 DEF AddVideo, OnDrive
  <2>4. OnePlace'
    <3>1. ASSUME NEW i \in 1 .. Len(order) + 1, i # k + 1
          PROVE  LET q == IF i <= k THEN i ELSE i - 1
                 IN  q \in 1 .. Len(order) /\ order'[i] = order[q]
      BY <1>1, <2>2, <3>1
    <3>2. ASSUME NEW i \in 1 .. Len(order) + 1, NEW j \in 1 .. Len(order) + 1, order'[i] = order'[j]
          PROVE  i = j
      <4>1. CASE i = k + 1 /\ j # k + 1
        BY <2>2, <2>3, <3>1, <3>2, <4>1
      <4>2. CASE i # k + 1 /\ j = k + 1
        BY <2>2, <2>3, <3>1, <3>2, <4>2
      <4>3. CASE i # k + 1 /\ j # k + 1
        <5>1. (IF i <= k THEN i ELSE i - 1) = (IF j <= k THEN j ELSE j - 1)
          BY <1>1, <3>1, <3>2, <4>3 DEF OnePlace
        <5>. QED  BY <4>3, <5>1
      <4>. QED  BY <4>1, <4>2, <4>3
    <3>. QED  BY <2>2, <3>2 DEF OnePlace
  <2>5. OnDrive \subseteq OnDrive'
    <3>1. ASSUME NEW j \in 1 .. Len(order)
          PROVE  order[j] \in OnDrive'
      <4>1. CASE j <= k
        BY <1>1, <2>2, <4>1 DEF OnDrive
      <4>2. CASE j > k
        <5>1. j + 1 \in DOMAIN order' /\ order'[j + 1] = order[j]
          BY <1>1, <2>2, <4>2
        <5>. QED  BY <5>1 DEF OnDrive
      <4>. QED  BY <4>1, <4>2
    <3>. QED  BY <1>1, <3>1 DEF OnDrive
  <2>6. home' \in [Files -> Places] /\ steady' = steady
    BY <1>1, <1>6 DEF AddVideo
  <2>. QED  BY <1>1, <1>2, <2>2, <2>4, <2>5, <2>6 DEF DriveTyped
<1>7. ASSUME NEW f \in Files, NEW g \in Files, ReplaceVideo(f, g)
      PROVE  DriveTyped' /\ OnePlace'
  <2>1. PICK k \in 1 .. Len(order) : order[k] = f /\ order' = [order EXCEPT ![k] = g]
    BY <1>1, <1>7 DEF ReplaceVideo
  <2>2. /\ order' \in Seq(Files) /\ DOMAIN order' = 1 .. Len(order)
        /\ order'[k] = g
        /\ \A i \in 1 .. Len(order) : i # k => order'[i] = order[i]
    <3>1. order' \in Seq(Files) /\ Len(order') = Len(order)
      BY <1>1, <2>1, ExceptSeq
    <3>. QED  BY <1>1, <2>1, <3>1, LenProperties
  <2>3. \A i \in 1 .. Len(order) : order[i] # g
    BY <1>1, <1>7 DEF ReplaceVideo, OnDrive
  <2>4. OnePlace'
    BY <1>1, <2>2, <2>3 DEF OnePlace
  <2>5. steady' \subseteq OnDrive'
    <3>1. ASSUME NEW h \in steady'
          PROVE  h \in OnDrive'
      <4>1. h # f /\ h \in OnDrive
        BY <1>1, <1>7 DEF ReplaceVideo
      <4>2. PICK j \in 1 .. Len(order) : order[j] = h
        BY <1>1, <4>1 DEF OnDrive
      <4>3. j # k
        BY <2>1, <4>1, <4>2
      <4>. QED  BY <2>2, <4>2, <4>3 DEF OnDrive
    <3>. QED  BY <3>1
  <2>6. home' \in [Files -> Places]
    BY <1>1, <1>7 DEF ReplaceVideo
  <2>. QED  BY <1>2, <2>2, <2>4, <2>5, <2>6 DEF DriveTyped
<1>. QED  BY <1>3, <1>4, <1>5, <1>6, <1>7, Writers

---------------------------------------------------------------------------
(* Tables, lists and hands. *)

LEMMA PathIsTyped ==
  ASSUME name \in [Dirs -> Names], NEW d \in Dirs
  PROVE  PathOf(d) \in PathSet
BY DEF PathOf, PathSet

LEMMA TargetIsTyped ==
  ASSUME TypeOK, NEW e \in Entries, e.parent # Root => cache[e.parent] # None
  PROVE  TargetOf(e) \in Targets
<1>1. e.file \in Files /\ e.parent \in Places
  BY DEF Entries
<1>2. Believed(e.parent) \in PathSet
  <2>1. CASE e.parent = Root
    BY <2>1 DEF Believed, PathSet
  <2>2. CASE e.parent # Root
    BY <1>1, <2>2 DEF Believed, TypeOK, Places
  <2>. QED  BY <2>1, <2>2
<1>. QED  BY <1>1, <1>2 DEF TargetOf, Targets

\* An entry in somebody's hands has a target.
LEMMA HandTarget ==
  ASSUME MirrorInv, NEW e,
         (phase = "process" /\ e \in inHand) \/ (phase = "local" /\ e \in listed)
  PROVE  e \in Entries /\ e.file \in Files /\ TargetOf(e) \in Targets
<1>1. TypeOK /\ e \in Entries
  BY DEF MirrorInv, TypeOK
<1>2. e.parent # Root => cache[e.parent] # None
  BY DEF MirrorInv, HandsResolved, IInv, LocalPart
<1>. QED  BY <1>1, <1>2, TargetIsTyped DEF Entries

LEMMA StepTables ==
  ASSUME MirrorInv, [Next]_vars
  PROVE  TablesTyped'
<1>1. /\ stored \in [Dirs -> PathSet \union {None}] /\ cache \in [Dirs -> PathSet \union {None}]
      /\ local \in [Targets -> Files \union {None}] /\ dirty \subseteq Dirs /\ name \in [Dirs -> Names]
      /\ toFeed \subseteq listed
  BY DEF MirrorInv, TypeOK
<1>2. cache' \in [Dirs -> PathSet \union {None}]
  <2>1. ASSUME NEW k, StartRun(k)
        PROVE  cache' \in [Dirs -> PathSet \union {None}]
    BY <1>1, <2>1 DEF StartRun, Preload
  <2>2. ASSUME NEW d \in Dirs, DirArrives(d)
        PROVE  cache' \in [Dirs -> PathSet \union {None}]
    BY <1>1, <2>2, PathIsTyped DEF DirArrives
  <2>3. ASSUME NEW p \in Places, ReadPlace(p)
        PROVE  cache' \in [Dirs -> PathSet \union {None}]
    BY <1>1, <2>3, PathIsTyped DEF ReadPlace
  <2>. QED  BY <1>1, <2>1, <2>2, <2>3, Writers
<1>3. stored' \in [Dirs -> PathSet \union {None}] /\ dirty' \subseteq Dirs
  <2>1. ASSUME NEW k, StartRun(k)
        PROVE  stored' \in [Dirs -> PathSet \union {None}] /\ dirty' \subseteq Dirs
    BY <1>1, <2>1 DEF StartRun
  <2>2. ASSUME NEW d \in Dirs, DirArrives(d)
        PROVE  UNCHANGED stored /\ dirty' \subseteq Dirs
    <3>1. \A i \in DOMAIN Chain[d] : Chain[d][i] \in Dirs
      BY ChainShape
    <3>. QED  BY <1>1, <2>2, <3>1 DEF DirArrives
  <2>3. ASSUME LeaveDirs \/ StartProcessing
        PROVE  stored' \in [Dirs -> PathSet \union {None}] /\ dirty' \subseteq Dirs
    BY <1>1, <2>3 DEF LeaveDirs, StartProcessing, SaveDirs
  <2>. QED  BY <1>1, <2>1, <2>2, <2>3, Writers
<1>4. local' \in [Targets -> Files \union {None}]
  <2>1. ASSUME NEW e \in toFeed, LocalVideo(e)
        PROVE  local' \in [Targets -> Files \union {None}]
    BY <1>1, <2>1, HandTarget DEF LocalVideo, WriteStrm, During
  <2>2. ASSUME NEW e \in inHand, Process(e)
        PROVE  local' \in [Targets -> Files \union {None}]
    BY <1>1, <2>2, HandTarget DEF Process, Handle, WriteStrm, During
  <2>3. ASSUME NEW t \in Targets, PruneOne(t)
        PROVE  local' \in [Targets -> Files \union {None}]
    BY <1>1, <2>3 DEF PruneOne
  <2>. QED  BY <1>1, <2>1, <2>2, <2>3, Writers
<1>. QED  BY <1>2, <1>3, <1>4, Zenon DEF TablesTyped

LEMMA StepHands ==
  ASSUME TypeOK, [Next]_vars
  PROVE  HandsTyped'
<1>1. /\ pages \subseteq Offsets /\ fetching \subseteq Offsets
      /\ pids \subseteq Dirs /\ resolving \subseteq Dirs /\ places \subseteq Places
      /\ \A e \in listed : e.parent \in Places
  BY DEF TypeOK, Entries
<1>2. /\ pages' \subseteq Offsets
      /\ fetching' \subseteq fetching \union pages
      /\ resolving' \subseteq resolving \union pids
      /\ places' \subseteq Places
  <2>. USE <1>1 DEF Next, DriveNext, Rename, RemoveVideo, AddVideo, ReplaceVideo, Change, StartRun, UserCancels, RunNext, Probe, ProbeFails,
       TakePage, PageArrives, PageFails, PagePanics, LeavePages, CollectParents, TakeDir, DirArrives, DirFails,
       LeaveDirs, StartProcessing, Feed, LocalVideo, WriteStrm, LocalVideoGone, Process, ProcessPanics, LeaveProcessing,
       StartPruning, ReadPlace, ReadFails, PruneOne, SourceMissing, EndPruning, LeaveCancelled, End, During,
       vars, walk
  <2>1. pages' \subseteq Offsets
    OBVIOUS
  <2>2. fetching' \subseteq fetching \/ \E o \in pages : fetching' = fetching \union {o}
    OBVIOUS
  <2>3. resolving' \subseteq resolving \/ \E d \in pids : resolving' = resolving \union {d}
    OBVIOUS
  <2>4. places' \subseteq Places
    OBVIOUS
  <2>. QED  BY <2>1, <2>2, <2>3, <2>4
<1>3. CASE CollectParents
  BY <1>1, <1>2, <1>3 DEF CollectParents, HandsTyped, Places
<1>4. CASE ~CollectParents
  <2>1. pids' \subseteq pids
    BY <1>1, <1>4 DEF Next, DriveNext, Rename, RemoveVideo, AddVideo, ReplaceVideo, Change, StartRun, UserCancels, RunNext, Probe, ProbeFails,
       TakePage, PageArrives, PageFails, PagePanics, LeavePages, TakeDir, DirArrives, DirFails,
       LeaveDirs, StartProcessing, Feed, LocalVideo, WriteStrm, LocalVideoGone, Process, ProcessPanics, LeaveProcessing,
       StartPruning, ReadPlace, ReadFails, PruneOne, SourceMissing, EndPruning, LeaveCancelled, End, During,
       vars, walk
  <2>. QED  BY <1>1, <1>2, <2>1 DEF HandsTyped
<1>. QED  BY <1>3, <1>4

LEMMA PageIsTyped ==
  ASSUME TypeOK, NEW off
  PROVE  Page(off) \subseteq Entries
<1>1. \A i \in DOMAIN order : order[i] \in Files
  BY LenProperties, ElementOfSeq DEF TypeOK
<1>. QED  BY <1>1 DEF Page, Entries, TypeOK

LEMMA StepLists ==
  ASSUME MirrorInv, [Next]_vars
  PROVE  ListsTyped'
<1>1. listed \subseteq Entries /\ toFeed \subseteq listed /\ inHand \subseteq listed /\ seen \subseteq Targets
  BY DEF MirrorInv, TypeOK
<1>2. listed' \subseteq Entries
  <2>1. ASSUME NEW p \in Places, ReadPlace(p)
        PROVE  listed' \subseteq Entries
    <3>1. OnDrive \subseteq Files
      BY LenProperties, ElementOfSeq DEF MirrorInv, TypeOK, OnDrive
    <3>. QED  BY <1>1, <2>1, <3>1 DEF ReadPlace, Entries
  <2>2. CASE Probe \/ \E o \in fetching : PageArrives(o)
    BY <1>1, <2>2, PageIsTyped DEF Probe, PageArrives, MirrorInv
  <2>3. CASE \E k \in {"full", "incremental"} : StartRun(k)
    BY <2>3 DEF StartRun
  <2>4. CASE \E e \in toFeed : LocalVideoGone(e)
    BY <1>1, <2>4 DEF LocalVideoGone
  <2>. QED  BY <1>1, <2>1, <2>2, <2>3, <2>4, Writers
<1>3. toFeed' \subseteq listed' /\ inHand' \subseteq listed'
  <2>1. CASE UNCHANGED <<listed, toFeed, inHand>>
    BY <1>1, <2>1
  <2>2. CASE \E k \in {"full", "incremental"} : StartRun(k)
    BY <2>2 DEF StartRun, MirrorInv, HandsEmpty
  <2>3. CASE Probe
    BY <1>1, <2>3 DEF Probe, During, MirrorInv, HandsEmpty
  <2>4. CASE \E p \in Places : ReadPlace(p)
    BY <1>1, <2>4 DEF ReadPlace, During, MirrorInv, HandsEmpty
  <2>5. CASE \E e \in toFeed : LocalVideoGone(e)
    BY <1>1, <2>5 DEF LocalVideoGone, During, MirrorInv, HandsEmpty
  <2>6. CASE listed \subseteq listed' /\ (toFeed' \subseteq toFeed \/ toFeed' = listed) /\ inHand' \subseteq inHand \union toFeed
    BY <1>1, <2>6
  <2>7. \/ UNCHANGED <<listed, toFeed, inHand>>
        \/ \E k \in {"full", "incremental"} : StartRun(k)
        \/ Probe
        \/ \E p \in Places : ReadPlace(p)
        \/ \E e \in toFeed : LocalVideoGone(e)
        \/ listed \subseteq listed' /\ (toFeed' \subseteq toFeed \/ toFeed' = listed) /\ inHand' \subseteq inHand \union toFeed
    BY DEF Next, DriveNext, Rename, RemoveVideo, AddVideo, ReplaceVideo, Change, StartRun, UserCancels, RunNext, Probe, ProbeFails,
       TakePage, PageArrives, PageFails, PagePanics, LeavePages, CollectParents, TakeDir, DirArrives, DirFails,
       LeaveDirs, StartProcessing, Feed, LocalVideo, WriteStrm, LocalVideoGone, Process, ProcessPanics, LeaveProcessing,
       StartPruning, ReadPlace, ReadFails, PruneOne, SourceMissing, EndPruning, LeaveCancelled, End, During,
       vars, walk
  <2>. QED  BY <2>1, <2>2, <2>3, <2>4, <2>5, <2>6, <2>7
<1>4. seen' \subseteq Targets
  <2>1. ASSUME NEW e \in toFeed, LocalVideo(e)
        PROVE  seen' \subseteq Targets
    BY <1>1, <2>1, HandTarget DEF LocalVideo, During
  <2>2. ASSUME NEW e \in inHand, Process(e) \/ ProcessPanics(e)
        PROVE  seen' \subseteq Targets
    BY <1>1, <2>2, HandTarget DEF Process, ProcessPanics, Handle, During
  <2>3. CASE \E k \in {"full", "incremental"} : StartRun(k)
    BY <2>3 DEF StartRun
  <2>. QED  BY <1>1, <2>1, <2>2, <2>3, Writers
<1>. QED  BY <1>2, <1>3, <1>4 DEF ListsTyped

---------------------------------------------------------------------------
(* Counting. *)

AliveTyped == alive \in 0 .. PageWorkers + DirWorkers + ProcessWorkers

LEMMA StepNumbers ==
  ASSUME TypeOK, AliveTyped', [Next]_vars
  PROVE  NumbersTyped'
<1>1. runs \in 0 .. MaxRuns /\ changes \in 0 .. MaxChanges /\ faults \in 0 .. MaxFaults
  BY DEF TypeOK
<1>2. /\ runs' = runs \/ (runs < MaxRuns /\ runs' = runs + 1)
      /\ changes' = changes \/ (changes < MaxChanges /\ changes' = changes + 1)
      /\ faults' = faults \/ (faults < MaxFaults /\ faults' = faults + 1)
  <2>. USE DEF Fault, Next, DriveNext, Rename, RemoveVideo, AddVideo, ReplaceVideo, Change, StartRun, UserCancels, RunNext, Probe, ProbeFails,
       TakePage, PageArrives, PageFails, PagePanics, LeavePages, CollectParents, TakeDir, DirArrives, DirFails,
       LeaveDirs, StartProcessing, Feed, LocalVideo, LocalVideoGone, Process, Handle, WriteStrm, ProcessPanics, LeaveProcessing,
       StartPruning, ReadPlace, ReadFails, PruneOne, SourceMissing, EndPruning, LeaveCancelled, End, During,
       vars, bounds
  <2>1. runs' = runs \/ (runs < MaxRuns /\ runs' = runs + 1)
    OBVIOUS
  <2>2. changes' = changes \/ (changes < MaxChanges /\ changes' = changes + 1)
    OBVIOUS
  <2>3. faults' = faults \/ (faults < MaxFaults /\ faults' = faults + 1)
    OBVIOUS
  <2>. QED  BY <2>1, <2>2, <2>3
<1>. QED  BY <1>1, <1>2, Numbers DEF NumbersTyped, AliveTyped

LEMMA OffsetsAreFinite ==
  /\ IsFiniteSet(Offsets)
  /\ \A o \in Offsets : o \in Nat
<1>. DEFINE n == Cardinality(Files)
            f == [k \in 1 .. n |-> k * PageSize]
<1>1. n \in Nat
  BY TreeAssumption, FS_CardinalityType
<1>2. f \in Surjection(1 .. n, Offsets)
  BY DEF Surjection, Offsets
<1>3. IsFiniteSet(1 .. n)
  BY <1>1, FS_Interval
<1>4. \A k \in 1 .. n : k * PageSize \in Nat
  BY <1>1, Numbers
<1>. QED  BY <1>2, <1>3, <1>4, FS_Surjection DEF Offsets

\* The hands that a worker can have something in.
LEMMA FiniteHands ==
  ASSUME MirrorInv
  PROVE  /\ \A S : S \subseteq Offsets \/ S \subseteq Dirs \/ S \subseteq inHand =>
              IsFiniteSet(S) /\ Cardinality(S) \in Nat /\ (S # {} => Cardinality(S) > 0)
         /\ IsFiniteSet(fetching) /\ IsFiniteSet(resolving) /\ IsFiniteSet(inHand)
<1>1. \A S : S \subseteq Offsets \/ S \subseteq Dirs \/ S \subseteq inHand => IsFiniteSet(S)
  BY OffsetsAreFinite, TreeAssumption, FS_Subset DEF MirrorInv, OneEach
<1>2. \A S : IsFiniteSet(S) => Cardinality(S) \in Nat /\ (S # {} => Cardinality(S) > 0)
  BY FS_CardinalityType, FS_EmptySet
<1>. QED  BY <1>1, <1>2 DEF MirrorInv, TypeOK

\* One more and one less in the hands of the workers.
LEMMA OneMoreHand ==
  ASSUME NEW S, IsFiniteSet(S), NEW x, NEW n \in Nat, Cardinality(S) < n
  PROVE  IsFiniteSet(S \union {x}) /\ Cardinality(S \union {x}) <= n
<1>1. /\ IsFiniteSet(S \union {x})
      /\ Cardinality(S \union {x}) = IF x \in S THEN Cardinality(S) ELSE Cardinality(S) + 1
  BY FS_AddElement
<1>2. Cardinality(S) \in Nat
  BY FS_CardinalityType
<1>. QED  BY <1>1, <1>2

LEMMA OneHandLess ==
  ASSUME NEW S, IsFiniteSet(S), NEW x \in S, NEW n \in Nat, Cardinality(S) <= n
  PROVE  IsFiniteSet(S \ {x}) /\ Cardinality(S \ {x}) <= n - 1 /\ n - 1 \in Nat
<1>1. IsFiniteSet(S \ {x}) /\ Cardinality(S \ {x}) = Cardinality(S) - 1
  BY FS_RemoveElement
<1>2. Cardinality(S) \in Nat /\ Cardinality(S) # 0
  BY FS_CardinalityType, FS_EmptySet
<1>. QED  BY <1>1, <1>2

\* Every entry that is not on the first page has a page of its own.
LEMMA PagesCover ==
  ASSUME TypeOK, OnePlace, NEW i \in DOMAIN order, i > PageSize
  PROVE  \E o \in Offsets : o < Len(order) /\ o < i /\ i <= o + PageSize
<1>1. Len(order) \in Nat /\ DOMAIN order = 1 .. Len(order) /\ order \in [1 .. Len(order) -> Files]
  BY LenProperties DEF TypeOK
<1>2. Cardinality(Files) \in Nat /\ Len(order) <= Cardinality(Files)
  <2>1. order \in Injection(1 .. Len(order), Files)
    BY <1>1 DEF OnePlace, Injection, IsInjective
  <2>2. Cardinality(1 .. Len(order)) <= Cardinality(Files)
    BY <2>1, TreeAssumption, FS_Injection
  <2>3. Cardinality(1 .. Len(order)) = Len(order)
    <3>. DEFINE n == Len(order)
    <3>1. n \in Nat
      BY <1>1
    <3>. HIDE DEF n
    <3>2. Cardinality(1 .. n) = IF 1 > n THEN 0 ELSE n - 1 + 1
      BY <3>1, FS_Interval
    <3>3. Cardinality(1 .. n) = n
      BY <3>1, <3>2
    <3>. QED  BY <3>3 DEF n
  <2>. QED  BY <2>2, <2>3, TreeAssumption, FS_CardinalityType
<1>. DEFINE k == (i - 1) \div PageSize
<1>3. /\ k \in Nat /\ k * PageSize <= i - 1 /\ i - 1 < k * PageSize + PageSize
      /\ k >= 1 /\ k <= i - 1
  BY <1>1, Numbers
<1>. HIDE DEF k
<1>4. k * PageSize \in Nat
  BY <1>3, Numbers
<1>5. k \in 1 .. Cardinality(Files)
  BY <1>1, <1>2, <1>3
<1>6. k * PageSize \in Offsets
  BY <1>5 DEF Offsets
<1>7. k * PageSize < Len(order) /\ k * PageSize < i /\ i <= k * PageSize + PageSize
  BY <1>1, <1>3, <1>4, Numbers
<1>. QED  BY <1>6, <1>7

---------------------------------------------------------------------------
(* Everything on the drive gets its file, step by step. *)

\* A write that does not fail leaves the video or one it was taken for.
LEMMA WriteStands ==
  ASSUME TypeOK, NEW t \in Targets, NEW f \in Files, WriteStrm(t, f), sound'
  PROVE  /\ sound /\ local'[t] # None /\ StandsFor(local'[t], f)
         /\ \A u \in Targets \ {t} : local'[u] = local[u]
<1>1. local \in [Targets -> Files \union {None}] /\ f # None
  BY TreeAssumption DEF TypeOK
<1>2. CASE local' = [local EXCEPT ![t] = f] /\ sound' = sound
  BY <1>1, <1>2 DEF StandsFor
<1>3. CASE local[t] # None /\ TakenFor(local[t], f) /\ local' = local /\ sound' = sound
  BY <1>3 DEF StandsFor, TakenFor
<1>. QED  BY <1>2, <1>3 DEF WriteStrm

Covered ==
  /\ AliveTyped /\ HandsEmpty /\ OneEach /\ HandsResolved /\ StillDrive
  /\ PageCover /\ LocalCover /\ LaterCover /\ PruneCover /\ Written /\ DoneIsMirror

\* The drive changes: the run is where it was, and what stays was there and is where it was.
LEMMA DriveCovered ==
  ASSUME MirrorInv, DriveNext
  PROVE  Covered'
<1>1. /\ ~quiet'
      /\ UNCHANGED <<kind, phase, outcome, cancelled, failed, walk, seen, local, sound, paged>>
  BY DEF DriveNext, Rename, RemoveVideo, AddVideo, ReplaceVideo, Change
<1>2. steady' \subseteq steady
  BY DEF DriveNext, Rename, RemoveVideo, AddVideo, ReplaceVideo
<1>3. \A f \in steady' : home'[f] = home[f]
  <2>1. steady \subseteq OnDrive /\ home \in [Files -> Places]
    BY DEF MirrorInv, TypeOK
  <2>2. CASE UNCHANGED home
    BY <2>2
  <2>3. ASSUME NEW f \in Files, NEW p \in Places, AddVideo(f, p)
        PROVE  \A g \in steady' : home'[g] = home[g]
    BY <2>1, <2>3 DEF AddVideo
  <2>4. ASSUME NEW f \in Files, NEW g \in Files, ReplaceVideo(f, g)
        PROVE  \A x \in steady' : home'[x] = home[x]
    BY <2>1, <2>4 DEF ReplaceVideo
  <2>. QED  BY <2>2, <2>3, <2>4 DEF DriveNext, Rename, RemoveVideo
<1>4. UNCHANGED <<alive, pages, fetching, cache, resolving, listed, inHand, places, pids, toFeed>>
  BY <1>1 DEF walk
<1>5. AliveTyped' /\ HandsEmpty' /\ OneEach' /\ HandsResolved'
  BY <1>1, <1>4 DEF MirrorInv, TypeOK, AliveTyped, HandsEmpty, OneEach, HandsResolved
<1>6. ListedFiles' = ListedFiles /\ \A e : TargetOf(e)' = TargetOf(e)
  BY <1>4 DEF ListedFiles, TargetOf, Believed
<1>7. StillDrive' /\ DoneIsMirror'
  BY <1>1 DEF StillDrive, DoneIsMirror
<1>8. PageCover' /\ LaterCover' /\ PruneCover'
  BY <1>1, <1>2, <1>4, <1>6 DEF MirrorInv, PageCover, LaterCover, PruneCover
<1>9. LocalCover'
  BY <1>1, <1>2, <1>3, <1>4, <1>6 DEF MirrorInv, LocalCover
<1>10. Written'
  BY <1>1, <1>4, <1>6 DEF MirrorInv, Written, StandsFor
<1>. QED  BY <1>5, <1>7, <1>8, <1>9, <1>10 DEF Covered

LEMMA StartCovered ==
  ASSUME MirrorInv, NEW k, StartRun(k)
  PROVE  Covered'
<1>1. /\ phase = "idle" /\ phase' \in {"probe", "local"} /\ outcome' = "none"
      /\ phase' = "local" => places' = Places
      /\ listed' = {} /\ toFeed' = {} /\ seen' = {} /\ steady' = OnDrive /\ cancelled' = "no"
      /\ UNCHANGED <<order, home, name, alive, fetching, resolving, inHand>>
  <2>1. provider \in {"115", "local"}
    BY ProvidersAssumption DEF MirrorInv, TypeOK
  <2>. QED  BY <2>1 DEF StartRun, drive
<1>2. AliveTyped' /\ HandsEmpty' /\ OneEach' /\ HandsResolved'
  BY <1>1 DEF MirrorInv, TypeOK, AliveTyped, HandsEmpty, OneEach, HandsResolved
<1>3. StillDrive' /\ DoneIsMirror'
  BY <1>1 DEF StillDrive, DoneIsMirror, ListedFiles, OnDrive
<1>4. PageCover' /\ LaterCover' /\ PruneCover' /\ Written'
  BY <1>1 DEF PageCover, LaterCover, PruneCover, Written
<1>5. LocalCover'
  <2>1. \A f \in OnDrive : f \in Files /\ home[f] \in Places
    BY LenProperties, ElementOfSeq DEF MirrorInv, TypeOK, OnDrive
  <2>. QED  BY <1>1, <2>1 DEF LocalCover
<1>. QED  BY <1>2, <1>3, <1>4, <1>5 DEF Covered

\* The user's cancellation, and the steps that are none.
LEMMA CancelCovered ==
  ASSUME MirrorInv, UserCancels \/ UNCHANGED vars
  PROVE  Covered'
<1>1. /\ UNCHANGED <<order, home, kind, phase, outcome, failed, seen, local, quiet, sound, paged, steady>>
      /\ UNCHANGED <<alive, pages, fetching, cache, resolving, listed, inHand, places, pids, toFeed>>
      /\ cancelled' = "no" => cancelled = "no"
  BY DEF UserCancels, vars, drive, walk, history
<1>2. ListedFiles' = ListedFiles /\ OnDrive' = OnDrive /\ \A e : TargetOf(e)' = TargetOf(e)
  BY <1>1 DEF ListedFiles, TargetOf, Believed, OnDrive
<1>3. AliveTyped' /\ HandsEmpty' /\ OneEach' /\ HandsResolved'
  BY <1>1 DEF MirrorInv, TypeOK, AliveTyped, HandsEmpty, OneEach, HandsResolved
<1>4. StillDrive' /\ LaterCover' /\ PruneCover' /\ LocalCover'
  BY <1>1, <1>2 DEF MirrorInv, StillDrive, LaterCover, PruneCover, LocalCover
<1>5. PageCover' /\ Written'
  BY <1>1, <1>2 DEF MirrorInv, PageCover, Written, StandsFor
<1>6. DoneIsMirror'
  BY <1>1, <1>2 DEF MirrorInv, DoneIsMirror
<1>. QED  BY <1>3, <1>4, <1>5, <1>6 DEF Covered

\* What a step of the run itself leaves alone.
LEMMA RunKeepsDrive ==
  ASSUME RunNext
  PROVE  UNCHANGED <<order, home, kind, steady, quiet>> /\ OnDrive' = OnDrive
<1>1. UNCHANGED <<order, home, kind, steady, quiet>>
  BY DEF RunNext, Probe, ProbeFails, TakePage, PageArrives, PageFails, PagePanics, LeavePages, CollectParents,
     TakeDir, DirArrives, DirFails, LeaveDirs, StartProcessing, Feed, LocalVideo, WriteStrm, LocalVideoGone, Process,
     ProcessPanics, LeaveProcessing, StartPruning, ReadPlace, ReadFails, PruneOne, SourceMissing, EndPruning,
     LeaveCancelled, End, During, drive, history
<1>. QED  BY <1>1 DEF OnDrive

\* A run that is given up.
LEMMA AbortCovered ==
  ASSUME MirrorInv,
         ProbeFails \/ LeavePages \/ LeaveDirs \/ LeaveProcessing \/ SourceMissing \/ LeaveCancelled
  PROVE  Covered'
<1>1. /\ phase' = "idle" /\ outcome' = "aborted" /\ (alive' = alive \/ alive' = 0)
      /\ UNCHANGED <<fetching, resolving, inHand, listed, order, quiet>>
  BY DEF ProbeFails, LeavePages, LeaveDirs, LeaveProcessing, SourceMissing, LeaveCancelled, End, drive, walk, history
<1>2. fetching = {} /\ resolving = {} /\ inHand = {}
  BY DEF MirrorInv, HandsEmpty, ProbeFails, LeavePages, PagesDone, LeaveDirs, DirsDone, LeaveProcessing, Processed,
     SourceMissing, LeaveCancelled
<1>3. AliveTyped' /\ HandsEmpty' /\ OneEach' /\ HandsResolved'
  BY <1>1, <1>2, Numbers DEF MirrorInv, TypeOK, AliveTyped, HandsEmpty, OneEach, HandsResolved
<1>4. StillDrive'
  BY <1>1 DEF MirrorInv, StillDrive, ListedFiles, OnDrive
<1>. QED
  BY <1>1, <1>3, <1>4 DEF Covered, PageCover, LocalCover, LaterCover, PruneCover, Written, DoneIsMirror

LEMMA ProbeCovered ==
  ASSUME MirrorInv, Probe
  PROVE  Covered'
<1>1. /\ phase = "probe" /\ phase' = "pages" /\ listed' = Page(0)
      /\ pages' = {o \in Offsets : o < Len(order)} /\ paged' = (pages' # {})
      /\ alive' = IF Cardinality(pages') < PageWorkers THEN Cardinality(pages') ELSE PageWorkers
      /\ UNCHANGED <<order, home, steady, quiet, fetching, resolving, inHand, seen, outcome>>
  BY DEF Probe, During, drive
<1>2. fetching = {} /\ resolving = {} /\ inHand = {} /\ seen = {}
  BY <1>1 DEF MirrorInv, HandsEmpty
<1>3. Cardinality(pages') \in Nat /\ (pages' # {} => Cardinality(pages') > 0)
  BY <1>1, FiniteHands
<1>4. AliveTyped' /\ (pages' # {} => alive' > 0)
  BY <1>1, <1>3, Numbers DEF AliveTyped
<1>5. HandsEmpty' /\ OneEach' /\ HandsResolved'
  <2>1. IsFiniteSet({}) /\ Cardinality({}) = 0
    BY FS_EmptySet
  <2>2. alive' >= 0
    BY <1>1, <1>3, Numbers
  <2>. QED  BY <1>1, <1>2, <2>1, <2>2 DEF HandsEmpty, OneEach, HandsResolved
<1>6. ListedFiles' \subseteq OnDrive /\ OnDrive' = OnDrive
  BY <1>1 DEF ListedFiles, Page, OnDrive
<1>7. Len(order) \in Nat /\ DOMAIN order = 1 .. Len(order) /\ steady \subseteq OnDrive
  BY LenProperties DEF MirrorInv, TypeOK
<1>8. ASSUME NEW i \in DOMAIN order
      PROVE  order[i] \in ListedFiles' \/ \E o \in pages' : o < i /\ i <= o + PageSize
  <2>1. CASE i > PageSize
    BY <1>1, <2>1, PagesCover DEF MirrorInv
  <2>2. CASE i <= PageSize
    <3>1. [file |-> order[i], parent |-> home[order[i]]] \in Page(0)
      BY <1>7, <2>2, Numbers DEF Page
    <3>. QED  BY <1>1, <3>1 DEF ListedFiles
  <2>. QED  BY <1>7, <2>1, <2>2, Numbers
<1>9. StillDrive'
  BY <1>1, <1>6 DEF MirrorInv, StillDrive
<1>10. PageCover'
  <2>1. ~paged' => steady' \subseteq ListedFiles'
    BY <1>1, <1>7, <1>8 DEF OnDrive
  <2>. QED  BY <1>1, <1>2, <1>4, <1>8, <2>1 DEF PageCover
<1>. QED
  BY <1>1, <1>4, <1>5, <1>9, <1>10 DEF Covered, LocalCover, LaterCover, PruneCover, Written, DoneIsMirror

\* While the pages come.
LEMMA PagesCovered ==
  ASSUME MirrorInv, NEW o,
         (o \in pages /\ TakePage(o)) \/ (o \in fetching /\ (PageArrives(o) \/ PageFails(o) \/ PagePanics(o)))
  PROVE  Covered'
<1>1. /\ phase = "pages" /\ phase' = "pages"
      /\ UNCHANGED <<order, home, steady, quiet, paged, resolving, inHand, seen, outcome>>
  BY DEF TakePage, PageArrives, PageFails, PagePanics, During, drive
<1>2. resolving = {} /\ inHand = {} /\ seen = {} /\ IsFiniteSet(fetching) /\ Cardinality(fetching) <= alive /\ alive \in Nat
      /\ alive <= PageWorkers + DirWorkers + ProcessWorkers
  BY <1>1, FiniteHands, Numbers DEF MirrorInv, HandsEmpty, OneEach, TypeOK
<1>3. HandsEmpty' /\ HandsResolved'
  BY <1>1, <1>2 DEF HandsEmpty, HandsResolved
<1>4. AliveTyped' /\ OneEach'
  <2>1. CASE TakePage(o)
    <3>1. Cardinality(fetching \union {o}) <= alive
      BY <1>2, <2>1, OneMoreHand DEF TakePage
    <3>. QED  BY <1>1, <1>2, <2>1, <3>1, Numbers DEF TakePage, AliveTyped, OneEach, MirrorInv
  <2>2. CASE ~TakePage(o)
    <3>1. Cardinality(fetching \ {o}) <= alive - 1 /\ alive - 1 \in Nat
      BY <1>2, <2>2, OneHandLess
    <3>2. fetching' = fetching \ {o} /\ (alive' = alive \/ alive' = alive - 1)
      BY <2>2 DEF PageArrives, PageFails, PagePanics
    <3>3. Cardinality(fetching') <= alive' /\ alive' \in Nat /\ alive' <= alive
      <4>1. IsFiniteSet(fetching \ {o}) /\ Cardinality(fetching \ {o}) \in Nat
        BY <1>2, <2>2, OneHandLess, FS_CardinalityType
      <4>. QED  BY <1>2, <3>1, <3>2, <4>1
    <3>4. AliveTyped'
      BY <1>2, <3>3, Numbers DEF AliveTyped
    <3>. QED  BY <1>1, <3>3, <3>4 DEF OneEach, MirrorInv
  <2>. QED  BY <2>1, <2>2
<1>5. OnDrive' = OnDrive /\ (listed' = listed \/ listed' = listed \union Page(o))
  BY <1>1 DEF TakePage, PageArrives, PageFails, PagePanics, OnDrive
<1>6. StillDrive' /\ ListedFiles \subseteq ListedFiles'
  BY <1>1, <1>5 DEF MirrorInv, StillDrive, ListedFiles, Page, OnDrive
<1>7. ASSUME ~failed', cancelled' = "no"
      PROVE  /\ pages' \union fetching' # {} => alive' > 0
             /\ ~paged' => steady' \subseteq ListedFiles'
             /\ quiet' =>
                  \A i \in DOMAIN order' :
                    order'[i] \in ListedFiles' \/ \E q \in pages' \union fetching' : q < i /\ i <= q + PageSize
  <2>1. /\ pages \union fetching # {} => alive > 0
        /\ ~paged => steady \subseteq ListedFiles
        /\ quiet =>
             \A i \in DOMAIN order :
               order[i] \in ListedFiles \/ \E q \in pages \union fetching : q < i /\ i <= q + PageSize
        /\ alive' = alive
    BY <1>1, <1>7 DEF MirrorInv, PageCover, TakePage, PageArrives, PageFails, PagePanics
  <2>2. CASE TakePage(o)
    <3>1. pages' \union fetching' = pages \union fetching /\ o \in pages
      BY <2>2 DEF TakePage
    <3>. QED  BY <1>1, <1>6, <2>1, <3>1
  <2>3. CASE PageArrives(o)
    <3>1. fetching' = fetching \ {o} /\ pages' = pages /\ listed' = listed \union Page(o)
      BY <2>3 DEF PageArrives
    <3>2. ASSUME NEW i \in DOMAIN order, o < i, i <= o + PageSize
          PROVE  order[i] \in ListedFiles'
      <4>1. [file |-> order[i], parent |-> home[order[i]]] \in Page(o)
        BY <3>2 DEF Page
      <4>. QED  BY <3>1, <4>1 DEF ListedFiles
    <3>. QED  BY <1>1, <1>6, <2>1, <3>1, <3>2
  <2>4. ~PageFails(o) /\ ~PagePanics(o)
    BY <1>7 DEF PageFails, PagePanics
  <2>. QED  BY <2>2, <2>3, <2>4
<1>8. PageCover'
  BY <1>7 DEF PageCover
<1>. QED
  BY <1>1, <1>3, <1>4, <1>6, <1>8 DEF Covered, LocalCover, LaterCover, PruneCover, Written, DoneIsMirror

\* Every page has come.
LEMMA CollectCovered ==
  ASSUME MirrorInv, CollectParents
  PROVE  Covered'
<1>1. /\ phase = "pages" /\ phase' = "dirs" /\ PagesDone /\ ~failed /\ cancelled = "no"
      /\ alive' = IF Cardinality(pids') < DirWorkers THEN Cardinality(pids') ELSE DirWorkers
      /\ pids' = {e.parent : e \in listed} \ ({Root} \union {d \in Dirs : cache[d] # None})
      /\ UNCHANGED <<order, home, steady, quiet, paged, fetching, resolving, inHand, listed, seen, outcome>>
  BY DEF CollectParents, During, drive
<1>2. fetching = {} /\ resolving = {} /\ inHand = {} /\ seen = {}
  BY <1>1 DEF MirrorInv, HandsEmpty, PagesDone
<1>3. pids' \subseteq Dirs
  BY <1>1 DEF MirrorInv, TypeOK, Entries, Places
<1>4. Cardinality(pids') \in Nat
  BY <1>3, FiniteHands
<1>5. AliveTyped' /\ alive' >= 0
  BY <1>1, <1>4, Numbers DEF AliveTyped
<1>6. HandsEmpty' /\ OneEach' /\ HandsResolved'
  <2>1. IsFiniteSet({}) /\ Cardinality({}) = 0
    BY FS_EmptySet
  <2>. QED  BY <1>1, <1>2, <1>5, <2>1 DEF HandsEmpty, OneEach, HandsResolved
<1>7. StillDrive'
  BY <1>1 DEF MirrorInv, StillDrive, ListedFiles, OnDrive
<1>8. LaterCover'
  <2>1. pages \union fetching = {}
    BY <1>1 DEF PagesDone, MirrorInv, PageCover
  <2>2. ~paged => steady \subseteq ListedFiles
    BY <1>1 DEF MirrorInv, PageCover
  <2>3. quiet => steady \subseteq ListedFiles
    <3>1. quiet => \A i \in DOMAIN order : order[i] \in ListedFiles
      BY <1>1, <2>1 DEF MirrorInv, PageCover
    <3>2. steady \subseteq OnDrive
      BY DEF MirrorInv, TypeOK
    <3>. QED  BY <3>1, <3>2 DEF OnDrive
  <2>. QED  BY <1>1, <2>2, <2>3 DEF LaterCover, ListedFiles
<1>. QED
  BY <1>1, <1>5, <1>6, <1>7, <1>8 DEF Covered, PageCover, LocalCover, PruneCover, Written, DoneIsMirror

\* While the parent directories come.
LEMMA DirsCovered ==
  ASSUME MirrorInv, NEW d \in Dirs, TakeDir(d) \/ DirArrives(d) \/ DirFails(d)
  PROVE  Covered'
<1>1. /\ phase = "dirs" /\ phase' = "dirs"
      /\ UNCHANGED <<order, home, steady, quiet, paged, fetching, inHand, listed, seen, outcome>>
  BY DEF TakeDir, DirArrives, DirFails, During, drive
<1>2. /\ fetching = {} /\ inHand = {} /\ seen = {} /\ IsFiniteSet(inHand)
      /\ IsFiniteSet(resolving) /\ Cardinality(resolving) \in Nat /\ Cardinality(resolving) <= alive
      /\ alive \in Nat /\ alive <= PageWorkers + DirWorkers + ProcessWorkers
  BY <1>1, FiniteHands, FS_CardinalityType, Numbers DEF MirrorInv, HandsEmpty, OneEach, TypeOK
<1>3. HandsEmpty' /\ HandsResolved'
  BY <1>1, <1>2 DEF HandsEmpty, HandsResolved
<1>4. Cardinality(resolving') <= alive' /\ alive' \in Nat /\ alive' <= alive
  <2>1. CASE TakeDir(d)
    <3>1. alive' = alive /\ Cardinality(resolving) < alive /\ resolving' \in {resolving, resolving \union {d}}
      BY <2>1 DEF TakeDir
    <3>2. Cardinality(resolving \union {d}) <= alive
      BY <1>2, <3>1, OneMoreHand
    <3>. QED  BY <1>2, <3>1, <3>2
  <2>2. CASE DirArrives(d) \/ DirFails(d)
    <3>1. d \in resolving /\ resolving' = resolving \ {d} /\ (alive' = alive \/ alive' = alive - 1)
      BY <2>2 DEF DirArrives, DirFails
    <3>2. Cardinality(resolving \ {d}) <= alive - 1 /\ alive - 1 \in Nat /\ IsFiniteSet(resolving \ {d})
      BY <1>2, <3>1, OneHandLess
    <3>3. Cardinality(resolving \ {d}) \in Nat
      BY <3>2, FS_CardinalityType
    <3>. QED  BY <1>2, <3>1, <3>2, <3>3
  <2>. QED  BY <2>1, <2>2
<1>5. AliveTyped'
  BY <1>2, <1>4, Numbers DEF AliveTyped
<1>6. OneEach'
  BY <1>1, <1>2, <1>4 DEF OneEach
<1>7. StillDrive' /\ LaterCover'
  BY <1>1 DEF MirrorInv, StillDrive, LaterCover, ListedFiles, OnDrive
<1>. QED
  BY <1>1, <1>3, <1>5, <1>6, <1>7 DEF Covered, PageCover, LocalCover, PruneCover, Written, DoneIsMirror

LEMMA StartProcessingCovered ==
  ASSUME MirrorInv, StartProcessing
  PROVE  Covered'
<1>1. /\ phase = "dirs" /\ phase' = "process" /\ resolving = {} /\ alive' = ProcessWorkers
      /\ UNCHANGED <<order, home, steady, quiet, paged, fetching, resolving, inHand, listed, seen, outcome>>
  BY DEF StartProcessing, DirsDone, During, drive
<1>2. fetching = {} /\ inHand = {} /\ seen = {}
  BY <1>1 DEF MirrorInv, HandsEmpty
<1>3. HandsEmpty' /\ HandsResolved' /\ Written'
  BY <1>1, <1>2 DEF HandsEmpty, HandsResolved, Written
<1>4. AliveTyped'
  BY <1>1, Numbers DEF AliveTyped
<1>5. OneEach'
  <2>1. IsFiniteSet({}) /\ Cardinality({}) = 0 /\ 0 <= ProcessWorkers
    BY FS_EmptySet, Numbers
  <2>. QED  BY <1>1, <1>2, <2>1 DEF OneEach
<1>6. StillDrive' /\ LaterCover'
  BY <1>1 DEF MirrorInv, StillDrive, LaterCover, ListedFiles, OnDrive
<1>. QED
  BY <1>1, <1>3, <1>4, <1>5, <1>6 DEF Covered, PageCover, LocalCover, PruneCover, DoneIsMirror

\* While the videos are handed out and handled.
LEMMA ProcessCovered ==
  ASSUME MirrorInv, NEW e, (e \in toFeed /\ Feed(e)) \/ (e \in inHand /\ (Process(e) \/ ProcessPanics(e)))
  PROVE  Covered'
<1>1. /\ phase = "process" /\ phase' = "process"
      /\ UNCHANGED <<order, home, kind, steady, quiet, paged, fetching, resolving, listed, cache, outcome>>
  BY DEF Feed, Process, ProcessPanics, During, drive
<1>2. /\ fetching = {} /\ resolving = {} /\ e \in listed
      /\ IsFiniteSet(inHand) /\ Cardinality(inHand) \in Nat /\ Cardinality(inHand) <= alive
      /\ alive \in Nat /\ alive <= PageWorkers + DirWorkers + ProcessWorkers
  BY <1>1, FiniteHands, FS_CardinalityType, Numbers DEF MirrorInv, HandsEmpty, OneEach, TypeOK
<1>3. \A x : TargetOf(x)' = TargetOf(x)
  BY <1>1 DEF TargetOf, Believed
<1>4. IsFiniteSet(inHand') /\ Cardinality(inHand') <= alive' /\ alive' \in Nat /\ alive' <= alive
  <2>1. CASE Feed(e)
    <3>1. alive' = alive /\ Cardinality(inHand) < alive /\ inHand' \in {inHand, inHand \union {e}}
      BY <2>1 DEF Feed
    <3>2. IsFiniteSet(inHand \union {e}) /\ Cardinality(inHand \union {e}) <= alive
      BY <1>2, <3>1, OneMoreHand
    <3>3. CASE inHand' = inHand
      BY <1>2, <3>1, <3>3
    <3>4. CASE inHand' = inHand \union {e}
      BY <1>2, <3>1, <3>2, <3>4
    <3>. QED  BY <3>1, <3>3, <3>4
  <2>2. CASE Process(e) \/ ProcessPanics(e)
    <3>1. e \in inHand /\ inHand' = inHand \ {e} /\ (alive' = alive \/ alive' = alive - 1)
      BY <2>2 DEF Process, ProcessPanics
    <3>2. Cardinality(inHand \ {e}) <= alive - 1 /\ alive - 1 \in Nat /\ IsFiniteSet(inHand \ {e})
      BY <1>2, <3>1, OneHandLess
    <3>3. Cardinality(inHand \ {e}) \in Nat
      BY <3>2, FS_CardinalityType
    <3>. QED  BY <1>2, <3>1, <3>2, <3>3
  <2>. QED  BY <2>1, <2>2
<1>5. AliveTyped'
  BY <1>2, <1>4, Numbers DEF AliveTyped
<1>6. OneEach' /\ HandsEmpty'
  BY <1>1, <1>2, <1>4 DEF OneEach, HandsEmpty
<1>7. HandsResolved'
  <2>1. inHand' \subseteq inHand \union {e}
    BY DEF Feed, Process, ProcessPanics
  <2>2. e \in inHand' => e \in inHand \/ (e.parent # Root => cache[e.parent] # None)
    BY DEF Feed, Process, ProcessPanics
  <2>. QED  BY <1>1, <2>1, <2>2 DEF MirrorInv, HandsResolved
<1>8. StillDrive' /\ LaterCover'
  BY <1>1 DEF MirrorInv, StillDrive, LaterCover, ListedFiles, OnDrive
<1>9. Written'
  <2> SUFFICES ASSUME sound', ~failed', cancelled' = "no", NEW t \in seen'
               PROVE  local'[t] # None /\ \E x \in listed : TargetOf(x) = t /\ StandsFor(local'[t], x.file)
    BY <1>1, <1>3 DEF Written, StandsFor
  <2>1. ~ProcessPanics(e)
    BY DEF ProcessPanics
  <2>2. ~failed /\ cancelled = "no" /\ sound
    <3>1. CASE Feed(e)
      <4>1. cancelled = "no" /\ sound' = sound
        BY <3>1 DEF Feed
      <4>2. failed => failed'
        BY <3>1, Zenon DEF Feed
      <4>. QED  BY <4>1, <4>2
    <3>2. CASE Process(e)
      <4>1. cancelled' = cancelled /\ failed' = failed /\ (sound' = sound \/ sound' = FALSE)
        BY <3>2 DEF Process, Handle, WriteStrm
      <4>. QED  BY <4>1
    <3>. QED  BY <2>1, <3>1, <3>2
  <2>3. ASSUME t \in seen
        PROVE  local[t] # None /\ \E x \in listed : TargetOf(x) = t /\ StandsFor(local[t], x.file)
    BY <1>1, <2>2, <2>3 DEF MirrorInv, Written
  <2>4. CASE UNCHANGED <<seen, local>>
    BY <2>3, <2>4
  <2>5. CASE ~UNCHANGED <<seen, local>>
    <3>1. Process(e) /\ e \in inHand /\ cancelled = "no" /\ Handle(e)
      BY <2>1, <2>5 DEF Feed, Process
    <3>2. /\ TargetOf(e) \notin seen /\ seen' = seen \union {TargetOf(e)}
          /\ WriteStrm(TargetOf(e), e.file)
      BY <2>5, <3>1 DEF Handle
    <3>3. TargetOf(e) \in Targets /\ e.file \in Files /\ TypeOK /\ seen \subseteq Targets
      BY <1>1, <3>1, HandTarget DEF MirrorInv, TypeOK
    <3>4. /\ local'[TargetOf(e)] # None /\ StandsFor(local'[TargetOf(e)], e.file)
          /\ \A u \in Targets \ {TargetOf(e)} : local'[u] = local[u]
      BY <3>2, <3>3, WriteStands
    <3>5. CASE t = TargetOf(e)
      BY <1>2, <3>4, <3>5
    <3>6. CASE t # TargetOf(e)
      <4>1. t \in seen /\ local'[t] = local[t]
        BY <3>2, <3>3, <3>4, <3>6
      <4>. QED  BY <2>3, <4>1
    <3>. QED  BY <3>5, <3>6
  <2>. QED  BY <2>4, <2>5
<1>. QED
  BY <1>1, <1>5, <1>6, <1>7, <1>8, <1>9 DEF Covered, PageCover, LocalCover, PruneCover, DoneIsMirror

\* Everything is handed over: pruning may begin.
LEMMA StartPruningCovered ==
  ASSUME MirrorInv, StartPruning
  PROVE  Covered'
<1>1. /\ phase' = "prune" /\ alive' = 0 /\ ~failed
      /\ UNCHANGED <<order, home, kind, steady, quiet, sound, paged, fetching, resolving, inHand, listed, seen,
                     local, cache, outcome>>
      /\ \/ phase = "process" /\ inHand = {} /\ cancelled = "no"
         \/ phase = "local" /\ places = {}
  BY DEF StartPruning, Processed, During, drive
<1>2. fetching = {} /\ resolving = {} /\ inHand = {}
  BY <1>1 DEF MirrorInv, HandsEmpty
<1>3. \A x : TargetOf(x)' = TargetOf(x)
  BY <1>1 DEF TargetOf, Believed
<1>4. HandsEmpty' /\ HandsResolved' /\ AliveTyped'
  BY <1>1, <1>2, Numbers DEF HandsEmpty, HandsResolved, AliveTyped
<1>5. OneEach'
  BY <1>1 DEF MirrorInv, OneEach
<1>6. StillDrive'
  BY <1>1 DEF MirrorInv, StillDrive, ListedFiles, OnDrive
<1>7. PruneCover'
  <2>1. CASE phase = "process"
    BY <1>1, <2>1 DEF MirrorInv, LaterCover, PruneCover, ListedFiles
  <2>2. CASE phase = "local" /\ places = {}
    BY <1>1, <2>2 DEF MirrorInv, LocalCover, PruneCover, ListedFiles
  <2>. QED  BY <1>1, <2>1, <2>2
<1>8. Written'
  BY <1>1, <1>3 DEF MirrorInv, Written, StandsFor
<1>. QED
  BY <1>1, <1>4, <1>5, <1>6, <1>7, <1>8 DEF Covered, PageCover, LocalCover, LaterCover, DoneIsMirror

\* The directories of a local source are read one after the other.
LEMMA ReadPlaceCovered ==
  ASSUME MirrorInv, NEW p \in Places, ReadPlace(p)
  PROVE  Covered'
<1>. DEFINE here == {[file |-> f, parent |-> p] : f \in {g \in OnDrive : home[g] = p}}
<1>1. /\ phase = "local" /\ phase' = "local" /\ Readable(p)
      /\ UNCHANGED <<order, home, kind, steady, quiet, paged, sound, fetching, resolving, inHand, seen, local, alive,
                     outcome>>
      /\ places' = places \ {p} /\ listed' = listed \union here
      /\ cache' = [d \in Dirs |-> IF Parent(d) = p THEN PathOf(d) ELSE cache[d]]
  BY DEF ReadPlace, During, drive
<1>2. OnDrive' = OnDrive /\ steady \subseteq OnDrive
  BY <1>1 DEF OnDrive, MirrorInv, TypeOK
<1>3. ASSUME NEW e \in listed
      PROVE  TargetOf(e)' = TargetOf(e)
  <2>1. e.parent \in Places \ places /\ ParentsFirst
    BY <1>1 DEF MirrorInv, IInv, LocalPart
  <2>2. ASSUME e.parent # Root
        PROVE  cache'[e.parent] = cache[e.parent]
    <3>1. e.parent \in Dirs /\ e.parent \notin places /\ p \in places
      BY <1>1, <2>1, <2>2 DEF Places, Readable
    <3>2. Parent(e.parent) # p
      BY <2>1, <3>1 DEF ParentsFirst
    <3>. QED  BY <1>1, <3>1, <3>2
  <2>. QED  BY <2>2 DEF TargetOf, Believed
<1>4. AliveTyped' /\ HandsEmpty' /\ OneEach' /\ HandsResolved'
  BY <1>1 DEF MirrorInv, TypeOK, AliveTyped, HandsEmpty, OneEach, HandsResolved
<1>5. ListedFiles' = ListedFiles \union {f \in OnDrive : home[f] = p}
  <2>1. ASSUME NEW f \in OnDrive, home[f] = p
        PROVE  f \in ListedFiles'
    <3>1. [file |-> f, parent |-> p] \in listed'
      BY <1>1, <2>1
    <3>. QED  BY <3>1 DEF ListedFiles
  <2>2. ListedFiles \subseteq ListedFiles'
    BY <1>1 DEF ListedFiles
  <2>3. \A e \in here : e.file \in OnDrive /\ home[e.file] = p
    OBVIOUS
  <2>4. ListedFiles' \subseteq ListedFiles \union {f \in OnDrive : home[f] = p}
    BY <1>1, <2>3 DEF ListedFiles
  <2>. QED  BY <2>1, <2>2, <2>4
<1>6. StillDrive'
  BY <1>1, <1>2, <1>5 DEF MirrorInv, StillDrive
<1>7. LocalCover'
  BY <1>1, <1>2, <1>5 DEF MirrorInv, LocalCover
<1>8. Written'
  BY <1>1, <1>3 DEF MirrorInv, Written, StandsFor
<1>. QED
  BY <1>1, <1>4, <1>6, <1>7, <1>8 DEF Covered, PageCover, LaterCover, PruneCover, DoneIsMirror

LEMMA ReadFailsCovered ==
  ASSUME MirrorInv, NEW p \in Places, ReadFails(p)
  PROVE  Covered'
<1>1. /\ phase = "local" /\ phase' = "local" /\ ~sound'
      /\ UNCHANGED <<order, home, steady, quiet, fetching, resolving, inHand, listed, alive, outcome>>
  BY DEF ReadFails, During, drive
<1>2. AliveTyped' /\ HandsEmpty' /\ OneEach' /\ HandsResolved'
  BY <1>1 DEF MirrorInv, TypeOK, AliveTyped, HandsEmpty, OneEach, HandsResolved
<1>3. StillDrive'
  BY <1>1 DEF MirrorInv, StillDrive, ListedFiles, OnDrive
<1>. QED
  BY <1>1, <1>2, <1>3 DEF Covered, PageCover, LocalCover, LaterCover, PruneCover, Written, DoneIsMirror

LEMMA LocalVideoCovered ==
  ASSUME MirrorInv, NEW e \in toFeed, LocalVideo(e) \/ LocalVideoGone(e)
  PROVE  Covered'
<1>1. /\ phase = "local" /\ phase' = "local"
      /\ UNCHANGED <<order, home, kind, steady, quiet, fetching, resolving, inHand, places, cache, alive, outcome>>
      /\ listed' \subseteq listed
  BY DEF LocalVideo, WriteStrm, LocalVideoGone, During, drive
<1>2. AliveTyped' /\ HandsEmpty' /\ OneEach' /\ HandsResolved'
  BY <1>1 DEF MirrorInv, TypeOK, AliveTyped, HandsEmpty, OneEach, HandsResolved
<1>3. StillDrive'
  BY <1>1 DEF MirrorInv, StillDrive, ListedFiles, OnDrive
<1>4. \A x : TargetOf(x)' = TargetOf(x)
  BY <1>1 DEF TargetOf, Believed
<1>5. CASE ~sound'
  BY <1>1, <1>2, <1>3, <1>5 DEF Covered, PageCover, LocalCover, LaterCover, PruneCover, Written, DoneIsMirror
<1>6. CASE sound'
  <2>1. /\ listed' = listed /\ seen' = seen \union {TargetOf(e)}
        /\ WriteStrm(TargetOf(e), e.file)
    BY <1>6 DEF LocalVideo, LocalVideoGone
  <2>2. e \in listed /\ seen \subseteq Targets /\ TypeOK
    BY DEF MirrorInv, TypeOK
  <2>3. /\ sound /\ local'[TargetOf(e)] # None /\ StandsFor(local'[TargetOf(e)], e.file)
        /\ \A u \in Targets \ {TargetOf(e)} : local'[u] = local[u]
    <3>1. TargetOf(e) \in Targets /\ e.file \in Files
      BY <1>1, <2>2, HandTarget
    <3>. QED  BY <1>6, <2>1, <2>2, <3>1, WriteStands
  <2>4. LocalCover'
    BY <1>1, <2>1, <2>3 DEF MirrorInv, LocalCover, ListedFiles
  <2>5. ASSUME NEW t \in seen'
        PROVE  local'[t] # None /\ \E x \in listed : TargetOf(x) = t /\ StandsFor(local'[t], x.file)
    <3>1. CASE t = TargetOf(e)
      BY <2>2, <2>3, <3>1
    <3>2. CASE t # TargetOf(e)
      <4>1. t \in seen /\ local'[t] = local[t]
        BY <2>1, <2>2, <2>3, <3>2
      <4>2. local[t] # None /\ \E x \in listed : TargetOf(x) = t /\ StandsFor(local[t], x.file)
        BY <1>1, <2>3, <4>1 DEF MirrorInv, Written
      <4>. QED  BY <4>1, <4>2
    <3>. QED  BY <3>1, <3>2
  <2>6. Written'
    BY <1>1, <1>4, <2>1, <2>5 DEF Written, StandsFor
  <2>. QED
    BY <1>1, <1>2, <1>3, <2>4, <2>6 DEF Covered, PageCover, LaterCover, PruneCover, DoneIsMirror
<1>. QED  BY <1>5, <1>6

\* Pruning takes only what was not seen.
LEMMA PruneCovered ==
  ASSUME MirrorInv, NEW t \in Targets, PruneOne(t)
  PROVE  Covered'
<1>1. /\ phase = "prune" /\ phase' = "prune" /\ t \notin seen
      /\ local' = [local EXCEPT ![t] = None]
      /\ UNCHANGED <<order, home, kind, steady, quiet, sound, paged, seen, outcome>>
      /\ UNCHANGED <<alive, fetching, resolving, inHand, listed, cache>>
  BY DEF PruneOne, Stale, During, drive, walk
<1>2. AliveTyped' /\ HandsEmpty' /\ OneEach' /\ HandsResolved'
  BY <1>1 DEF MirrorInv, TypeOK, AliveTyped, HandsEmpty, OneEach, HandsResolved
<1>3. StillDrive' /\ PruneCover'
  BY <1>1 DEF MirrorInv, StillDrive, PruneCover, ListedFiles, OnDrive
<1>4. \A x : TargetOf(x)' = TargetOf(x)
  BY <1>1 DEF TargetOf, Believed
<1>5. \A x \in seen : local'[x] = local[x]
  BY <1>1 DEF MirrorInv, TypeOK
<1>6. Written'
  BY <1>1, <1>4, <1>5 DEF MirrorInv, Written, StandsFor
<1>. QED
  BY <1>1, <1>2, <1>3, <1>6 DEF Covered, PageCover, LocalCover, LaterCover, DoneIsMirror

\* The run has ended well; when nothing is stale any more, what is there is a mirror.
LEMMA EndCovered ==
  ASSUME MirrorInv, EndPruning
  PROVE  Covered'
<1>1. /\ phase = "prune" /\ phase' = "idle" /\ outcome' = "done" /\ (sound' => sound /\ Stale = {})
      /\ UNCHANGED <<order, home, kind, steady, quiet, paged, seen, local>>
      /\ UNCHANGED <<alive, fetching, resolving, inHand, listed, cache>>
  BY DEF EndPruning, drive, walk
<1>2. AliveTyped' /\ HandsEmpty' /\ OneEach' /\ HandsResolved'
  BY <1>1 DEF MirrorInv, TypeOK, AliveTyped, HandsEmpty, OneEach, HandsResolved
<1>3. StillDrive' /\ PruneCover'
  BY <1>1 DEF MirrorInv, StillDrive, PruneCover, ListedFiles, OnDrive
<1>4. /\ \A x : TargetOf(x)' = TargetOf(x)
      /\ OnDrive' = OnDrive /\ \A t : local'[t] = local[t]
  BY <1>1 DEF TargetOf, Believed, OnDrive
<1>5. ASSUME quiet', sound'
      PROVE  {e.file : e \in listed'} = OnDrive'
  BY <1>1, <1>4, <1>5 DEF MirrorInv, StillDrive, PruneCover, ListedFiles
<1>6. ASSUME sound', NEW t \in Targets
      PROVE  LET there == {e.file : e \in {x \in listed : TargetOf(x) = t}}
             IN  IF there = {} THEN local[t] = None
                 ELSE /\ local[t] # None
                      /\ \/ local[t] \in there
                         \/ kind = "incremental" /\ \E f \in there : Stamp[local[t]] = Stamp[f]
  <2>. DEFINE there == {e.file : e \in {x \in listed : TargetOf(x) = t}}
  <2>1. \A e \in listed : TargetOf(e) \in seen
    BY <1>1 DEF MirrorInv, IInv, ListedIsSeen
  <2>2. CASE t \in seen
    <3>1. PICK e \in listed : TargetOf(e) = t /\ StandsFor(local[t], e.file)
      BY <1>1, <1>6, <2>2 DEF MirrorInv, Written
    <3>2. e.file \in there /\ local[t] # None
      BY <1>1, <1>6, <2>2, <3>1 DEF MirrorInv, Written
    <3>. QED  BY <3>1, <3>2 DEF StandsFor
  <2>3. CASE t \notin seen
    <3>1. local[t] = None
      BY <1>1, <1>6, <2>3 DEF Stale
    <3>2. there = {}
      BY <2>1, <2>3
    <3>. QED  BY <3>1, <3>2
  <2>. QED  BY <2>2, <2>3
<1>7. DoneIsMirror'
  <2>1. \A t : {x \in listed' : TargetOf(x)' = t} = {x \in listed : TargetOf(x) = t}
    BY <1>1, <1>4
  <2>2. ASSUME sound', NEW t \in Targets
        PROVE  LET there == {e.file : e \in {x \in listed' : TargetOf(x)' = t}}
               IN  IF there = {} THEN local'[t] = None
                   ELSE /\ local'[t] # None
                        /\ \/ local'[t] \in there
                           \/ kind' = "incremental" /\ \E f \in there : Stamp[local'[t]] = Stamp[f]
    BY <1>1, <1>4, <1>6, <2>1, <2>2
  <2>. QED  BY <1>5, <2>2 DEF DoneIsMirror
<1>. QED
  BY <1>1, <1>2, <1>3, <1>7 DEF Covered, PageCover, LocalCover, LaterCover, Written

LEMMA RunCovered ==
  ASSUME MirrorInv, RunNext
  PROVE  Covered'
<1>1. CASE ProbeFails \/ LeavePages \/ LeaveDirs \/ LeaveProcessing \/ SourceMissing \/ LeaveCancelled
  BY <1>1, AbortCovered
<1>2. CASE Probe \/ CollectParents
  BY <1>2, ProbeCovered, CollectCovered
<1>3. CASE \E o \in pages : TakePage(o)
  BY <1>3, PagesCovered
<1>4. CASE \E o \in fetching : PageArrives(o) \/ PageFails(o) \/ PagePanics(o)
  BY <1>4, PagesCovered
<1>5. CASE \E d \in Dirs : TakeDir(d) \/ DirArrives(d) \/ DirFails(d)
  BY <1>5, DirsCovered
<1>6. CASE StartProcessing \/ StartPruning
  BY <1>6, StartProcessingCovered, StartPruningCovered
<1>7. CASE \E e \in toFeed : Feed(e) \/ LocalVideo(e) \/ LocalVideoGone(e)
  BY <1>7, ProcessCovered, LocalVideoCovered
<1>8. CASE \E e \in inHand : Process(e) \/ ProcessPanics(e)
  BY <1>8, ProcessCovered
<1>9. CASE \E p \in Places : ReadPlace(p) \/ ReadFails(p)
  BY <1>9, ReadPlaceCovered, ReadFailsCovered
<1>10. CASE \E t \in Targets : PruneOne(t)
  BY <1>10, PruneCovered
<1>11. CASE EndPruning
  BY <1>11, EndCovered
<1>. QED
  BY <1>1, <1>2, <1>3, <1>4, <1>5, <1>6, <1>7, <1>8, <1>9, <1>10, <1>11 DEF RunNext

---------------------------------------------------------------------------
LEMMA InitMirror == Init => MirrorInv
<1>. SUFFICES ASSUME Init
              PROVE  MirrorInv
  OBVIOUS
<1>. USE DEF Init
<1>1. IInv
  BY InitListed
<1>2. /\ order \in Start.orders /\ Start.orders \subseteq Seq(Files)
      /\ home \in [Files -> Places] /\ name \in [Dirs -> Names]
  BY TreeAssumption DEF Places
<1>3. TypeOK
  <2>1. DriveTyped /\ TablesTyped
    BY <1>2 DEF DriveTyped, TablesTyped, OnDrive
  <2>2. ControlTyped /\ HandsTyped /\ ListsTyped
    BY DEF ControlTyped, Phases, HandsTyped, ListsTyped
  <2>3. NumbersTyped
    BY Numbers DEF NumbersTyped
  <2>. QED  BY <2>1, <2>2, <2>3, TypeParts
<1>4. OnePlace
  BY <1>2, OrdersAssumption DEF OnePlace
<1>5. HandsEmpty /\ OneEach /\ HandsResolved
  BY FS_EmptySet DEF HandsEmpty, OneEach, HandsResolved
<1>6. StillDrive
  BY DEF StillDrive, ListedFiles
<1>7. PageCover /\ LocalCover /\ LaterCover /\ PruneCover /\ Written /\ DoneIsMirror
  BY DEF PageCover, LocalCover, LaterCover, PruneCover, Written, DoneIsMirror
<1>. QED  BY <1>1, <1>3, <1>4, <1>5, <1>6, <1>7 DEF MirrorInv

LEMMA StepMirror ==
  ASSUME MirrorInv, [Next]_vars
  PROVE  MirrorInv'
<1>1. IInv /\ TypeOK /\ OnePlace
  BY DEF MirrorInv
<1>2. Covered'
  <2>1. CASE \E k \in {"full", "incremental"} : StartRun(k)
    BY <2>1, StartCovered
  <2>2. CASE UserCancels \/ UNCHANGED vars
    BY <2>2, CancelCovered
  <2>. QED  BY <2>1, <2>2, DriveCovered, RunCovered DEF Next
<1>3. DriveTyped' /\ OnePlace' /\ ControlTyped' /\ HandsTyped'
  BY <1>1, StepDrive, StepControl, StepHands
<1>4. TablesTyped' /\ ListsTyped'
  BY StepTables, StepLists
<1>5. NumbersTyped'
  BY <1>1, <1>2, StepNumbers DEF Covered
<1>6. TypeOK'
  <2>1. (TypeOK <=> DriveTyped /\ TablesTyped /\ ControlTyped /\ HandsTyped /\ ListsTyped /\ NumbersTyped)'
    BY TypeParts, PTL
  <2>. QED  BY <1>3, <1>4, <1>5, <2>1, Zenon
<1>7. IInv'
  BY <1>1, StepListed
<1>. QED  BY <1>2, <1>3, <1>6, <1>7 DEF Covered, MirrorInv

\* The invariant behind the three theorems below: where every video of the drive is on its
\* way to its .strm file, whatever happens to pages, directories and workers.
THEOREM MirrorInductive == Spec => []MirrorInv
<1>1. MirrorInv /\ [Next]_vars => MirrorInv'
  BY StepMirror
<1>. QED  BY <1>1, InitMirror, PTL DEF Spec

\* Every variable keeps its type, and the workers of a phase are never fewer than zero: no
\* worker is counted off twice (the deferred recover and the wg.Done of the workers).
THEOREM TypeCorrect == Spec => []TypeOK
<1>1. MirrorInv => TypeOK
  BY DEF MirrorInv
<1>. QED  BY <1>1, MirrorInductive, PTL

\* Whatever page or worker fails, deletion starts only after every video that stayed was in
\* the answers, unless pages shifted under the run or a directory of a local source could
\* not be read (walk115Flat, walkLocalSource, pruneLocal).
THEOREM SteadyListed == Spec => []SteadyIsListed
<1>1. MirrorInv => SteadyIsListed
  BY DEF MirrorInv, PruneCover, SteadyIsListed, ListedFiles
<1>. QED  BY <1>1, MirrorInductive, PTL

\* A run that ends well on a drive that kept still, all files readable and writable, leaves
\* one .strm for every believed path of a video and no other; its content is that of a video
\* of that path or, after an incremental run, of one with the same modification time
\* (walk115Flat or walkLocalSource with the fast path of strm_sync.go:993, then pruneLocal).
THEOREM DoneMirror == Spec => []DoneIsMirror
<1>1. MirrorInv => DoneIsMirror
  BY DEF MirrorInv
<1>. QED  BY <1>1, MirrorInductive, PTL

---------------------------------------------------------------------------
(* What is deleted. *)

\* A .strm is removed only by the pruning of a run without a recorded error or a
\* cancellation, and never one the run has seen.  Unless pages shifted under the run or a
\* file could not be read, its video has gone from the drive or has another target
\* (PrunesOnlyVanished with the two ways in which the run flat_prune refutes it).
DeletionIsJustified ==
  [][\A t \in Targets : local[t] # None /\ local'[t] = None =>
       /\ phase = "prune" /\ ~failed /\ cancelled = "no" /\ t \notin seen
       /\ sound /\ (quiet \/ ~paged) =>
            local[t] \notin steady \/ \E e \in listed : e.file = local[t] /\ TargetOf(e) # t]_vars

PruneIsClean == phase = "prune" => ~failed

LEMMA StepClean ==
  ASSUME PruneIsClean, [Next]_vars
  PROVE  PruneIsClean'
<1>1. CASE phase' # "prune"
  BY <1>1 DEF PruneIsClean
<1>2. CASE phase' = "prune" /\ phase # "prune"
  <2>1. StartPruning
    BY <1>2 DEF Next, DriveNext, Rename, RemoveVideo, AddVideo, ReplaceVideo, Change, StartRun, UserCancels, RunNext, Probe,
      ProbeFails, TakePage, PageArrives, PageFails, PagePanics, LeavePages, CollectParents, TakeDir, DirArrives,
      DirFails, LeaveDirs, StartProcessing, Feed, LocalVideo, WriteStrm, LocalVideoGone, Process, ProcessPanics,
      LeaveProcessing, ReadPlace, ReadFails, PruneOne, SourceMissing, EndPruning, LeaveCancelled, End, During, vars
  <2>. QED  BY <2>1 DEF StartPruning, PruneIsClean
<1>3. CASE phase' = "prune" /\ phase = "prune"
  <2>1. failed' = failed
    BY <1>3 DEF Next, DriveNext, Rename, RemoveVideo, AddVideo, ReplaceVideo, Change, StartRun, UserCancels, RunNext, Probe,
      ProbeFails, TakePage, PageArrives, PageFails, PagePanics, LeavePages, CollectParents, TakeDir, DirArrives,
      DirFails, LeaveDirs, StartProcessing, Feed, LocalVideo, WriteStrm, LocalVideoGone, Process, ProcessPanics,
      LeaveProcessing, StartPruning, ReadPlace, ReadFails, PruneOne, SourceMissing, EndPruning, LeaveCancelled,
      End, During, vars
  <2>. QED  BY <1>3, <2>1 DEF PruneIsClean
<1>. QED  BY <1>1, <1>2, <1>3

\* Whoever writes a .strm writes a video into it; only pruning removes one.
LEMMA OnlyPruningRemoves ==
  ASSUME TypeOK, [Next]_vars, NEW t \in Targets, local[t] # None, local'[t] = None
  PROVE  PruneOne(t)
<1>. USE TreeAssumption
<1>1. local \in [Targets -> Files \union {None}] /\ listed \subseteq Entries /\ toFeed \subseteq listed
      /\ inHand \subseteq listed
  BY DEF TypeOK
<1>2. ASSUME NEW e \in listed, WriteStrm(TargetOf(e), e.file)
      PROVE  FALSE
  <2>1. e.file # None
    BY <1>1 DEF Entries
  <2>2. local'[t] = local[t] \/ local'[t] = e.file
    BY <1>1, <1>2 DEF WriteStrm
  <2>. QED  BY <2>1, <2>2
<1>3. local' # local
  OBVIOUS
<1>4. ~ \E e \in toFeed : LocalVideo(e)
  BY <1>1, <1>2, <1>3 DEF LocalVideo
<1>5. ~ \E e \in inHand : Process(e)
  BY <1>1, <1>2, <1>3 DEF Process, Handle
<1>6. PICK u \in Targets : PruneOne(u)
  BY <1>3, <1>4, <1>5, Writers
<1>7. u = t
  BY <1>1, <1>6 DEF PruneOne
<1>. QED  BY <1>6, <1>7

\* What pruneLocal may delete: nothing that is still there, whatever pages, directories and
\* workers do, outside the two ways the failing run shows.
THEOREM DeletionJustified == Spec => DeletionIsJustified
<1>1. ASSUME MirrorInv, PruneIsClean, [Next]_vars, NEW t \in Targets, local[t] # None, local'[t] = None
      PROVE  /\ phase = "prune" /\ ~failed /\ cancelled = "no" /\ t \notin seen
             /\ sound /\ (quiet \/ ~paged) =>
                  local[t] \notin steady \/ \E e \in listed : e.file = local[t] /\ TargetOf(e) # t
  <2>1. PruneOne(t)
    BY <1>1, OnlyPruningRemoves DEF MirrorInv
  <2>2. phase = "prune" /\ ~failed /\ cancelled = "no" /\ t \notin seen
    BY <1>1, <2>1 DEF PruneOne, During, Stale, PruneIsClean
  <2>3. ASSUME sound /\ (quiet \/ ~paged), local[t] \in steady
        PROVE  \E e \in listed : e.file = local[t] /\ TargetOf(e) # t
    <3>1. PICK e \in listed : e.file = local[t]
      BY <1>1, <2>2, <2>3 DEF MirrorInv, PruneCover, ListedFiles
    <3>2. TargetOf(e) \in seen
      BY <1>1, <2>2 DEF MirrorInv, IInv, ListedIsSeen
    <3>. QED  BY <2>2, <3>1, <3>2
  <2>. QED  BY <2>2, <2>3
<1>2. MirrorInv /\ PruneIsClean /\ [Next]_vars =>
        [\A t \in Targets : local[t] # None /\ local'[t] = None =>
           /\ phase = "prune" /\ ~failed /\ cancelled = "no" /\ t \notin seen
           /\ sound /\ (quiet \/ ~paged) =>
                local[t] \notin steady \/ \E e \in listed : e.file = local[t] /\ TargetOf(e) # t]_vars
  BY <1>1
<1>3. Init => PruneIsClean
  BY DEF Init, PruneIsClean
<1>4. PruneIsClean /\ [Next]_vars => PruneIsClean'
  BY StepClean
<1>. QED  BY <1>2, <1>3, <1>4, MirrorInductive, PTL DEF Spec, DeletionIsJustified
=============================================================================
