-------------------------- MODULE WalkRemoteProofs --------------------------
(***************************************************************************)
(* Proofs about WalkRemote, for every finite tree and any set of workers:  *)
(* the counter of the code is exact, no directory is visited twice, and a  *)
(* walk that reports success has listed the whole tree.                    *)
(***************************************************************************)
EXTENDS WalkRemote, FiniteSetTheorems, TLAPS

Known == work \union InHand \union finished

\* The types, with pending only an integer: that it is never negative follows from
\* PendingIsExact.
Types ==
  /\ work \subseteq Dirs
  /\ pending \in Int
  /\ asleep \subseteq Workers
  /\ pc \in [Workers -> PCs]
  /\ cur \in [Workers -> Dirs \union {NoDir}]
  /\ todo \in [Workers -> SUBSET Dirs]
  /\ cancelled \in BOOLEAN
  /\ alarmed \in BOOLEAN
  /\ firstErr \in BOOLEAN
  /\ finished \subseteq Dirs
  /\ result \in {"none", "ok", "error", "cancelled"}

\* A worker has a directory in hand exactly where the code has one in scope.
HandsMatch ==
  \A w \in Workers :
    /\ pc[w] \in {"taken", "listing", "pushing", "failing"} => cur[w] # NoDir
    /\ pc[w] \in {"loop", "wait"} => cur[w] = NoDir
    /\ pc[w] = "pushing" => todo[w] \subseteq Children[cur[w]]

\* A directory becomes known through its parent only, and the parent's remaining
\* entries are the ones not known yet.
KnownFromParent ==
  \A d \in Dirs : \A e \in Children[d] \intersect Known :
    \/ d \in finished
    \/ \E w \in Workers : /\ cur[w] = d
                          /\ pc[w] \in {"pushing", "cancel", "exited"}
                          /\ pc[w] = "pushing" => e \notin todo[w]

\* While nothing has gone wrong, no directory is lost.
NothingLost ==
  ~cancelled /\ (\A w \in Workers : pc[w] # "cancel") =>
    /\ Root \in Known
    /\ \A d \in finished : Children[d] \subseteq Known
    /\ \A w \in Workers : pc[w] = "pushing" => Children[cur[w]] \subseteq Known \union todo[w]

\* Workers leave an uncancelled walk only when nothing is left.
LeaveWhenDone ==
  ~cancelled => \A w \in Workers : pc[w] = "exited" => pending = 0

\* Who sleeps is at the condition variable, and the walk is neither alarmed nor over; as long
\* as directories are counted, somebody is awake.
SleepersWait ==
  /\ \A w \in asleep : pc[w] = "wait"
  /\ alarmed => cancelled /\ asleep = {}
  /\ ~cancelled /\ asleep # {} => pending # 0
  /\ ~cancelled /\ pending # 0 => \E w \in Workers \ asleep : pc[w] # "exited"

ReturnedIsOver == result # "none" => \A w \in Workers : pc[w] = "exited"

IInv ==
  /\ Types
  /\ HandsMatch
  /\ PendingIsExact
  /\ VisitedOnce
  /\ KnownFromParent
  /\ NothingLost
  /\ LeaveWhenDone
  /\ ReturnedIsOver
  /\ SuccessIsComplete
  /\ SleepersWait

-----------------------------------------------------------------------------
\* What the assumption on the tree says of its constants.
LEMMA TreeBasics ==
  /\ IsFiniteSet(Dirs)
  /\ NoDir \notin Dirs
  /\ Root \in Dirs
  /\ Children \in [Dirs -> SUBSET Dirs]
BY TreeAssumption

\* The initial state is well formed.
LEMMA InitTypes == Init => Types
<1> SUFFICES ASSUME Init PROVE Types
  OBVIOUS
<1>1. work \subseteq Dirs /\ finished \subseteq Dirs
  BY TreeBasics DEF Init
<1>2. pc \in [Workers -> PCs]
  BY DEF Init, PCs
<1>3. cur \in [Workers -> Dirs \union {NoDir}]
  BY DEF Init
<1>4. todo \in [Workers -> SUBSET Dirs]
  BY DEF Init
<1>5. cancelled \in BOOLEAN /\ alarmed \in BOOLEAN /\ firstErr \in BOOLEAN
  BY Zenon DEF Init
<1>6. pending \in Int /\ asleep \subseteq Workers
  BY DEF Init
<1>7. result \in {"none", "ok", "error", "cancelled"}
  BY DEF Init
<1> QED
  BY <1>1, <1>2, <1>3, <1>4, <1>5, <1>6, <1>7 DEF Types

\* Every step keeps the types.
LEMMA StepTypes ==
  ASSUME Types, HandsMatch, [Next]_vars
  PROVE  Types'
<1> USE TreeBasics DEF Types, PCs, Goto, Drop, Broadcast
<1>1. CASE \E w \in Workers : WorkerNext(w)
  <2>1. PICK w \in Workers : WorkerNext(w)
    BY <1>1
  <2>2. CASE \E d \in Dirs : Take(w, d)
    BY <2>2 DEF Take
  <2>3. CASE \E d \in Dirs : Push(w, d)
    BY <2>3 DEF Push, Signal
  <2>4. CASE Leave(w) \/ Sleep(w) \/ Wake(w) \/ CheckContext(w)
    BY <2>4 DEF Leave, Sleep, Wake, CheckContext
  <2>5. CASE List(w)
    <3>1. cur[w] \in Dirs
      BY <2>5 DEF List, HandsMatch
    <3> QED
      BY <2>5, <3>1 DEF List
  <2>6. CASE GiveUp(w) \/ CountOffFailed(w)
    BY <2>6 DEF GiveUp, CountOffFailed
  <2>8. CASE ListFails(w) \/ Panic(w) \/ CancelWalk(w)
    BY <2>8 DEF ListFails, Panic, CancelWalk
  <2>7. CASE CountOff(w)
    <3>1. cur[w] \in Dirs
      BY <2>7 DEF CountOff, HandsMatch
    <3> QED
      BY <2>7, <3>1 DEF CountOff
  <2> QED
    BY <2>1, <2>2, <2>3, <2>4, <2>5, <2>6, <2>7, <2>8 DEF WorkerNext
<1>2. CASE Alarm \/ UserCancel \/ Return \/ Returned
  BY <1>2 DEF Alarm, UserCancel, Return, Returned, vars
<1>3. CASE UNCHANGED vars
  BY <1>3 DEF vars
<1> QED
  BY <1>1, <1>2, <1>3 DEF Next

\* What the actions do to the directories in hand.
LEMMA HandsKept ==
  ASSUME UNCHANGED cur
  PROVE  Busy' = Busy /\ InHand' = InHand
BY DEF Busy, InHand

\* Taking a directory puts it in hand.
LEMMA HandTaken ==
  ASSUME Types, HandsMatch, NEW w \in Workers, NEW d \in Dirs, Take(w, d)
  PROVE  /\ w \notin Busy
         /\ Busy' = Busy \union {w}
         /\ InHand' = InHand \union {d}
         /\ \A v \in Workers : v # w => cur'[v] = cur[v] /\ pc'[v] = pc[v]
         /\ cur'[w] = d /\ pc'[w] = "taken"
BY TreeBasics DEF Types, HandsMatch, Take, Busy, InHand, Goto

\* A worker that drops its directory changes nothing that belongs to another one.
LEMMA HandDropped ==
  ASSUME Types, VisitedOnce, NEW w \in Workers, cur[w] # NoDir, Drop(w)
  PROVE  /\ Busy' = Busy \ {w}
         /\ InHand' = InHand \ {cur[w]}
         /\ cur[w] \in InHand
         /\ \A v \in Workers : v # w => cur'[v] = cur[v] /\ todo'[v] = todo[v]
         /\ cur'[w] = NoDir
BY DEF Types, VisitedOnce, Drop, Busy, InHand

\* The steps that move no directory and do not touch the counter.
Quiet(w) ==
  \/ Leave(w) \/ Sleep(w) \/ Wake(w) \/ CheckContext(w)
  \/ List(w) \/ ListFails(w) \/ Panic(w) \/ CancelWalk(w)

Still == Alarm \/ UserCancel \/ Return \/ Returned \/ UNCHANGED vars

\* The steps that drop a directory without having finished it.
Lose(w) == GiveUp(w) \/ CountOffFailed(w)

\* The steps by what they do to the directories in hand.
LEMMA StepCases ==
  ASSUME [Next]_vars
  PROVE  \/ \E w \in Workers, d \in Dirs : Take(w, d) \/ Push(w, d)
         \/ \E w \in Workers : Lose(w) \/ CountOff(w) \/ Quiet(w)
         \/ Still
BY DEF Next, WorkerNext, Lose, Quiet, Still

\* Quiet steps keep lists and hands.
LEMMA QuietKeeps ==
  ASSUME NEW w \in Workers, Quiet(w)
  PROVE  /\ UNCHANGED <<work, pending, cur, finished, result>>
         /\ Busy' = Busy /\ InHand' = InHand /\ Known' = Known
<1>1. UNCHANGED <<work, pending, cur, finished, result>>
  BY DEF Quiet, Leave, Sleep, Wake, CheckContext, List, ListFails, Panic, CancelWalk
<1> QED
  BY <1>1 DEF Busy, InHand, Known

\* So do the steps that only wake or end workers.
LEMMA StillKeeps ==
  ASSUME Still
  PROVE  /\ UNCHANGED <<work, pending, cur, finished, pc, todo>>
         /\ Busy' = Busy /\ InHand' = InHand /\ Known' = Known
<1>1. UNCHANGED <<work, pending, cur, finished, pc, todo>>
  BY DEF Still, Alarm, UserCancel, Return, Returned, vars
<1> QED
  BY <1>1 DEF Busy, InHand, Known

\* A directory that is lost leaves the worker's hand and the counter.
LEMMA LoseDrops ==
  ASSUME HandsMatch, NEW w \in Workers, Lose(w)
  PROVE  /\ pc[w] \in {"taken", "failing"} /\ cur[w] # NoDir
         /\ pending' = pending - 1
         /\ Drop(w)
         /\ UNCHANGED <<work, cancelled, finished, result>>
         /\ \/ cancelled /\ pc' = [pc EXCEPT ![w] = "exited"]
            \/ pc' = [pc EXCEPT ![w] = "cancel"]
BY DEF Lose, GiveUp, CountOffFailed, HandsMatch, Goto

\* The invariant holds at the start.
LEMMA InitInv == Init => IInv
<1> SUFFICES ASSUME Init PROVE IInv
  OBVIOUS
<1>1. Types
  BY InitTypes
<1>2. Busy = {} /\ InHand = {} /\ Known = {Root}
  BY DEF Init, Busy, InHand, Known
<1>3. HandsMatch
  BY DEF Init, HandsMatch
<1>4. PendingIsExact
  BY <1>2, FS_Singleton DEF Init, PendingIsExact
<1>5. VisitedOnce
  BY <1>2 DEF Init, VisitedOnce
<1>6. KnownFromParent
  BY <1>2, TreeAssumption DEF KnownFromParent
<1>7. NothingLost
  BY <1>2 DEF Init, NothingLost
<1>8. LeaveWhenDone /\ ReturnedIsOver /\ SuccessIsComplete
  BY DEF Init, LeaveWhenDone, ReturnedIsOver, SuccessIsComplete
<1>9. SleepersWait
  BY WorkersAssumption DEF Init, SleepersWait
<1> QED
  BY <1>1, <1>3, <1>4, <1>5, <1>6, <1>7, <1>8, <1>9 DEF IInv

\* Every step keeps the match of workers and directories in hand.
LEMMA StepHands ==
  ASSUME IInv, [Next]_vars
  PROVE  HandsMatch'
<1> USE TreeBasics DEF IInv, Types, HandsMatch
<1>1. ASSUME NEW w \in Workers, NEW d \in Dirs, Take(w, d)
      PROVE  HandsMatch'
  BY <1>1 DEF Take, Goto
<1>2. ASSUME NEW w \in Workers, NEW d \in Dirs, Push(w, d)
      PROVE  HandsMatch'
  BY <1>2 DEF Push
<1>3. ASSUME NEW w \in Workers, Lose(w)
      PROVE  HandsMatch'
  BY <1>3, LoseDrops DEF Drop
<1>4. ASSUME NEW w \in Workers, CountOff(w)
      PROVE  HandsMatch'
  BY <1>4 DEF CountOff, Drop, Goto
<1>5. ASSUME NEW w \in Workers, Leave(w) \/ Sleep(w) \/ Wake(w) \/ CheckContext(w)
      PROVE  HandsMatch'
  BY <1>5 DEF Leave, Sleep, Wake, CheckContext, Goto
<1>6. ASSUME NEW w \in Workers, List(w) \/ ListFails(w) \/ Panic(w) \/ CancelWalk(w)
      PROVE  HandsMatch'
  BY <1>6 DEF List, ListFails, Panic, CancelWalk, Goto
<1>7. CASE Still
  BY <1>7, StillKeeps
<1> QED
  BY <1>1, <1>2, <1>3, <1>4, <1>5, <1>6, <1>7, StepCases DEF Quiet

\* A worker that pushes, or counts off, has its directory in hand.
LEMMA PushFacts ==
  ASSUME IInv, NEW w \in Workers, NEW d \in Dirs, Push(w, d)
  PROVE  /\ cur[w] \in Dirs /\ cur[w] \in InHand /\ pc[w] = "pushing"
         /\ d \in Children[cur[w]]
         /\ UNCHANGED <<cur, pc, finished, cancelled, result>>
         /\ work' = work \union {d} /\ pending' = pending + 1
         /\ todo' = [todo EXCEPT ![w] = @ \ {d}] /\ d \in todo[w]
         /\ Busy' = Busy /\ InHand' = InHand /\ Known' = Known \union {d}
<1>1. cur[w] # NoDir /\ d \in Children[cur[w]] /\ pc[w] = "pushing"
  BY DEF IInv, HandsMatch, Push
<1>2. cur[w] \in Dirs /\ cur[w] \in InHand
  BY <1>1 DEF IInv, Types, Busy, InHand
<1>3. UNCHANGED <<cur, pc, finished, cancelled, result>> /\ work' = work \union {d}
  BY DEF Push
<1>4. Busy' = Busy /\ InHand' = InHand /\ Known' = Known \union {d}
  BY <1>3, HandsKept DEF Known
<1> QED
  BY <1>1, <1>2, <1>3, <1>4 DEF Push

\* A directory that is about to be pushed is not known yet: its only parent still has
\* it among its entries.
LEMMA PushedIsNew ==
  ASSUME IInv, NEW w \in Workers, NEW d \in Dirs, Push(w, d)
  PROVE  d \notin Known
<1> SUFFICES ASSUME d \in Known PROVE FALSE
  OBVIOUS
<1>1. /\ cur[w] \in Dirs /\ cur[w] \in InHand /\ pc[w] = "pushing"
      /\ d \in Children[cur[w]] /\ d \in todo[w]
  BY PushFacts
<1>2. cur[w] \notin finished
  BY <1>1 DEF IInv, VisitedOnce
<1>3. PICK v \in Workers : /\ cur[v] = cur[w]
                           /\ pc[v] = "pushing" => d \notin todo[v]
  BY <1>1, <1>2 DEF IInv, KnownFromParent
<1>4. v = w
  BY <1>1, <1>3, TreeBasics DEF IInv, VisitedOnce, Busy
<1> QED
  BY <1>1, <1>3, <1>4

\* No directory comes into the list or a hand twice.
LEMMA StepVisited ==
  ASSUME IInv, [Next]_vars
  PROVE  VisitedOnce'
<1> USE DEF IInv, VisitedOnce
<1>1. ASSUME NEW w \in Workers, NEW d \in Dirs, Take(w, d)
      PROVE  VisitedOnce'
  <2>1. /\ Busy' = Busy \union {w} /\ InHand' = InHand \union {d}
        /\ \A v \in Workers : v # w => cur'[v] = cur[v]
        /\ cur'[w] = d
    BY <1>1, HandTaken
  <2>2. d \in work /\ work' = work \ {d} /\ finished' = finished
    BY <1>1 DEF Take
  <2>3. \A v \in Busy : cur[v] \in InHand /\ v \in Workers
    BY DEF Busy, InHand
  <2> QED
    BY <2>1, <2>2, <2>3
<1>2. ASSUME NEW w \in Workers, NEW d \in Dirs, Push(w, d)
      PROVE  VisitedOnce'
  BY <1>2, PushFacts, PushedIsNew DEF Known
<1>3. ASSUME NEW w \in Workers, Lose(w)
      PROVE  VisitedOnce'
  BY <1>3, LoseDrops, HandDropped DEF Busy
<1>4. ASSUME NEW w \in Workers, CountOff(w)
      PROVE  VisitedOnce'
  <2>1. cur[w] # NoDir /\ Drop(w) /\ work' = work /\ finished' = finished \union {cur[w]}
    BY <1>4 DEF CountOff, HandsMatch
  <2> QED
    BY <2>1, HandDropped DEF Busy
<1>5. ASSUME NEW w \in Workers, Quiet(w)
      PROVE  VisitedOnce'
  BY <1>5, QuietKeeps
<1>6. CASE Still
  BY <1>6, StillKeeps
<1> QED
  BY <1>1, <1>2, <1>3, <1>4, <1>5, <1>6, StepCases

\* The counted directories are finitely many.
LEMMA CountedFinite ==
  ASSUME Types
  PROVE  IsFiniteSet(work \union InHand)
<1>1. work \union InHand \subseteq Dirs
  BY DEF Types, InHand, Busy
<1> QED
  BY <1>1, TreeBasics, FS_Subset

\* Every step keeps the counter exact.
LEMMA StepExact ==
  ASSUME IInv, [Next]_vars
  PROVE  PendingIsExact'
<1> DEFINE P == work \union InHand
<1>0. IsFiniteSet(P) /\ pending = Cardinality(P) /\ Cardinality(P) \in Nat
  BY CountedFinite, FS_CardinalityType DEF IInv, PendingIsExact
<1>1. ASSUME NEW w \in Workers, NEW d \in Dirs, Take(w, d)
      PROVE  PendingIsExact'
  <2>0. InHand' = InHand \union {d}
    BY <1>1, HandTaken DEF IInv
  <2>1. P' = P /\ pending' = pending
    BY <1>1, <2>0 DEF Take
  <2> QED
    BY <1>0, <2>1 DEF PendingIsExact
<1>2. ASSUME NEW w \in Workers, NEW d \in Dirs, Push(w, d)
      PROVE  PendingIsExact'
  <2>1. P' = P \union {d} /\ d \notin P /\ pending' = pending + 1
    BY <1>2, PushFacts, PushedIsNew DEF Known
  <2> QED
    BY <1>0, <2>1, FS_AddElement DEF PendingIsExact
<1>3. ASSUME NEW w \in Workers, Lose(w) \/ CountOff(w)
      PROVE  PendingIsExact'
  <2>1. cur[w] # NoDir /\ Drop(w) /\ work' = work /\ pending' = pending - 1
    BY <1>3, LoseDrops DEF IInv, CountOff, HandsMatch
  <2>2. InHand' = InHand \ {cur[w]} /\ cur[w] \in InHand
    BY <2>1, HandDropped DEF IInv
  <2>3. cur[w] \notin work
    BY <2>2 DEF IInv, VisitedOnce
  <2>4. P' = P \ {cur[w]} /\ cur[w] \in P
    BY <2>1, <2>2, <2>3
  <2> QED
    BY <1>0, <2>1, <2>4, FS_RemoveElement DEF PendingIsExact
<1>4. ASSUME NEW w \in Workers, Quiet(w)
      PROVE  PendingIsExact'
  BY <1>0, <1>4, QuietKeeps DEF PendingIsExact
<1>5. CASE Still
  BY <1>0, <1>5, StillKeeps DEF PendingIsExact
<1> QED
  BY <1>1, <1>2, <1>3, <1>4, <1>5, StepCases

\* A step keeps: a directory that is known, its parent has pushed it.
LEMMA StepParents ==
  ASSUME IInv, [Next]_vars
  PROVE  KnownFromParent'
<1> DEFINE Seen(v, d, e) == /\ cur[v] = d
                            /\ pc[v] \in {"pushing", "cancel", "exited"}
                            /\ pc[v] = "pushing" => e \notin todo[v]
<1>0. SUFFICES ASSUME NEW d \in Dirs, NEW e \in Children[d], e \in Known', d \notin finished'
      PROVE  \E v \in Workers : Seen(v, d, e)'
  BY DEF KnownFromParent
<1>1. ASSUME e \in Known, d \notin finished
      PROVE  \E v \in Workers : Seen(v, d, e)
  BY <1>1 DEF IInv, KnownFromParent
<1>2. e \in Dirs
  BY TreeBasics
<1>3. ASSUME NEW w \in Workers, NEW x \in Dirs, Take(w, x)
      PROVE  \E v \in Workers : Seen(v, d, e)'
  <2>1. /\ InHand' = InHand \union {x}
        /\ \A v \in Workers : v # w => cur'[v] = cur[v] /\ pc'[v] = pc[v]
    BY <1>3, HandTaken DEF IInv
  <2>2. x \in work /\ UNCHANGED <<finished, todo>> /\ work' = work \ {x} /\ pc[w] = "loop"
    BY <1>3 DEF Take
  <2>3. e \in Known /\ d \notin finished
    BY <1>0, <2>1, <2>2 DEF Known
  <2>4. PICK v \in Workers : Seen(v, d, e)
    BY <1>1, <2>3
  <2>5. v # w
    BY <2>2, <2>4
  <2> QED
    BY <2>1, <2>2, <2>4, <2>5
<1>4. ASSUME NEW w \in Workers, NEW x \in Dirs, Push(w, x)
      PROVE  \E v \in Workers : Seen(v, d, e)'
  <2>1. /\ UNCHANGED <<cur, pc, finished>> /\ Known' = Known \union {x}
        /\ todo' = [todo EXCEPT ![w] = @ \ {x}]
        /\ cur[w] \in Dirs /\ pc[w] = "pushing" /\ x \in Children[cur[w]]
    BY <1>4, PushFacts
  <2>2. todo \in [Workers -> SUBSET Dirs]
    BY DEF IInv, Types
  <2>3. CASE e = x
    <3>1. cur[w] = d
      BY <2>1, <2>3, TreeAssumption
    <3> QED
      BY <2>1, <2>2, <2>3, <3>1
  <2>4. CASE e # x
    <3>1. PICK v \in Workers : Seen(v, d, e)
      BY <1>0, <1>1, <2>1, <2>4
    <3> QED
      BY <2>1, <2>2, <3>1
  <2> QED
    BY <2>3, <2>4
<1>5. ASSUME NEW w \in Workers, Lose(w)
      PROVE  \E v \in Workers : Seen(v, d, e)'
  <2>1. /\ pc[w] \in {"taken", "failing"} /\ cur[w] # NoDir /\ Drop(w)
        /\ UNCHANGED <<work, finished>>
        /\ \A v \in Workers : v # w => pc'[v] = pc[v]
    BY <1>5, LoseDrops DEF IInv, Types
  <2>2. /\ InHand' = InHand \ {cur[w]}
        /\ \A v \in Workers : v # w => cur'[v] = cur[v] /\ todo'[v] = todo[v]
    BY <2>1, HandDropped DEF IInv
  <2>3. e \in Known /\ d \notin finished
    BY <1>0, <2>1, <2>2 DEF Known
  <2>4. PICK v \in Workers : Seen(v, d, e)
    BY <1>1, <2>3
  <2>5. v # w
    BY <2>1, <2>4
  <2> QED
    BY <2>1, <2>2, <2>4, <2>5
<1>6. ASSUME NEW w \in Workers, CountOff(w)
      PROVE  \E v \in Workers : Seen(v, d, e)'
  <2>1. /\ cur[w] # NoDir /\ Drop(w) /\ work' = work /\ finished' = finished \union {cur[w]}
        /\ \A v \in Workers : v # w => pc'[v] = pc[v]
    BY <1>6 DEF CountOff, IInv, Types, HandsMatch, Goto
  <2>2. /\ InHand' = InHand \ {cur[w]} /\ cur[w] \in InHand
        /\ \A v \in Workers : v # w => cur'[v] = cur[v] /\ todo'[v] = todo[v]
    BY <2>1, HandDropped DEF IInv
  <2>3. e \in Known /\ d \notin finished /\ d # cur[w]
    BY <1>0, <2>1, <2>2 DEF Known
  <2>4. PICK v \in Workers : Seen(v, d, e)
    BY <1>1, <2>3
  <2>5. v # w
    BY <2>3, <2>4
  <2> QED
    BY <2>1, <2>2, <2>4, <2>5
<1>7. ASSUME NEW w \in Workers, Quiet(w)
      PROVE  \E v \in Workers : Seen(v, d, e)'
  <2>1. UNCHANGED <<cur, finished>> /\ Known' = Known
    BY <1>7, QuietKeeps
  <2>2. PICK v \in Workers : Seen(v, d, e)
    BY <1>0, <1>1, <2>1
  <2>3. CASE Leave(w) \/ Sleep(w) \/ Wake(w) \/ CheckContext(w) \/ List(w) \/ ListFails(w)
    BY <2>1, <2>2, <2>3
       DEF Leave, Sleep, Wake, CheckContext, List, ListFails, Goto, IInv, Types
  <2>4. CASE Panic(w) \/ CancelWalk(w)
    BY <2>1, <2>2, <2>4 DEF Panic, CancelWalk, Goto, IInv, Types
  <2> QED
    BY <1>7, <2>3, <2>4 DEF Quiet
<1>8. CASE Still
  BY <1>0, <1>1, <1>8, StillKeeps
<1> QED
  BY <1>3, <1>4, <1>5, <1>6, <1>7, <1>8, StepCases

\* A step that loses a directory leaves a trace: a worker about to cancel, or a
\* cancelled context.
LEMMA StepLost ==
  ASSUME IInv, [Next]_vars
  PROVE  NothingLost'
<1>0. SUFFICES ASSUME ~cancelled', \A v \in Workers : pc'[v] # "cancel"
      PROVE  /\ Root \in Known'
             /\ \A d \in finished' : Children[d] \subseteq Known'
             /\ \A v \in Workers : pc'[v] = "pushing" => Children[cur'[v]] \subseteq Known' \union todo'[v]
  BY DEF NothingLost
<1> DEFINE Good == ~cancelled /\ \A v \in Workers : pc[v] # "cancel"
           Goal == /\ Root \in Known'
                   /\ \A d \in finished' : Children[d] \subseteq Known'
                   /\ \A v \in Workers :
                        pc'[v] = "pushing" => Children[cur'[v]] \subseteq Known' \union todo'[v]
<1>1. ASSUME Good
      PROVE  /\ Root \in Known
             /\ \A d \in finished : Children[d] \subseteq Known
             /\ \A v \in Workers : pc[v] = "pushing" => Children[cur[v]] \subseteq Known \union todo[v]
  BY <1>1 DEF IInv, NothingLost
<1>2. ASSUME NEW w \in Workers, NEW x \in Dirs, Take(w, x)
      PROVE  Goal
  <2>1. /\ InHand' = InHand \union {x}
        /\ \A v \in Workers : v # w => cur'[v] = cur[v] /\ pc'[v] = pc[v]
        /\ pc'[w] = "taken"
    BY <1>2, HandTaken DEF IInv
  <2>2. x \in work /\ UNCHANGED <<finished, todo, cancelled>> /\ work' = work \ {x} /\ pc[w] = "loop"
    BY <1>2 DEF Take
  <2>3. Known' = Known
    BY <2>1, <2>2 DEF Known
  <2>4. Good
    BY <1>0, <2>1, <2>2
  <2> QED
    BY <1>1, <2>1, <2>2, <2>3, <2>4
<1>3. ASSUME NEW w \in Workers, NEW x \in Dirs, Push(w, x)
      PROVE  Goal
  <2>1. /\ UNCHANGED <<cur, pc, finished, cancelled>> /\ Known' = Known \union {x}
        /\ todo' = [todo EXCEPT ![w] = @ \ {x}]
    BY <1>3, PushFacts
  <2>2. todo \in [Workers -> SUBSET Dirs]
    BY DEF IInv, Types
  <2>3. Good
    BY <1>0, <2>1
  <2> QED
    BY <1>1, <2>1, <2>2, <2>3
<1>4. ASSUME NEW w \in Workers, Lose(w)
      PROVE  Goal
  BY <1>0, <1>4, LoseDrops DEF IInv, Types
<1>5. ASSUME NEW w \in Workers, CountOff(w)
      PROVE  Goal
  <2>1. /\ cur[w] # NoDir /\ Drop(w) /\ work' = work /\ finished' = finished \union {cur[w]}
        /\ \A v \in Workers : v # w => pc'[v] = pc[v]
        /\ pc[w] = "pushing" /\ pc'[w] = "loop" /\ todo[w] = {} /\ cancelled' = cancelled
    BY <1>5 DEF CountOff, IInv, Types, HandsMatch, Goto
  <2>2. /\ InHand' = InHand \ {cur[w]} /\ cur[w] \in InHand
        /\ \A v \in Workers : v # w => cur'[v] = cur[v] /\ todo'[v] = todo[v]
    BY <2>1, HandDropped DEF IInv
  <2>3. Known' = Known
    BY <2>1, <2>2 DEF Known
  <2>4. Good
    BY <1>0, <2>1
  <2> QED
    BY <1>1, <2>1, <2>2, <2>3, <2>4
<1>6. ASSUME NEW w \in Workers, Quiet(w)
      PROVE  Goal
  <2>1. UNCHANGED <<cur, finished>> /\ Known' = Known
    BY <1>6, QuietKeeps
  <2>2. CASE Leave(w) \/ Sleep(w) \/ Wake(w) \/ CheckContext(w) \/ ListFails(w)
    <3>1. /\ UNCHANGED <<cancelled, todo>> /\ pc'[w] # "pushing" /\ pc[w] # "cancel"
          /\ \A v \in Workers : v # w => pc'[v] = pc[v]
      BY <2>2 DEF Leave, Sleep, Wake, CheckContext, ListFails, Goto, IInv, Types
    <3>2. Good
      BY <1>0, <3>1
    <3> QED
      BY <1>1, <2>1, <3>1, <3>2
  <2>3. CASE List(w)
    <3>1. /\ UNCHANGED cancelled /\ pc[w] = "listing"
          /\ todo' = [todo EXCEPT ![w] = Children[cur[w]]]
          /\ \A v \in Workers : v # w => pc'[v] = pc[v]
      BY <2>3 DEF List, Goto, IInv, Types
    <3>2. Good
      BY <1>0, <3>1
    <3>3. todo \in [Workers -> SUBSET Dirs]
      BY DEF IInv, Types
    <3> QED
      BY <1>1, <2>1, <3>1, <3>2, <3>3
  <2>4. CASE Panic(w) \/ CancelWalk(w)
    <3>1. cancelled' \/ pc'[w] = "cancel"
      BY <2>4 DEF Panic, CancelWalk, Goto, IInv, Types
    <3> QED
      BY <1>0, <3>1
  <2> QED
    BY <1>6, <2>2, <2>3, <2>4 DEF Quiet
<1>7. CASE Still
  <2>1. UNCHANGED <<work, cur, finished, pc, todo>> /\ Known' = Known
    BY <1>7, StillKeeps
  <2>2. Good
    <3>1. ~cancelled
      BY <1>0, <1>7 DEF Still, Alarm, UserCancel, Return, Returned, vars
    <3> QED
      BY <1>0, <2>1, <3>1
  <2> QED
    BY <1>1, <2>1, <2>2
<1> QED
  BY <1>2, <1>3, <1>4, <1>5, <1>6, <1>7, StepCases

\* Nothing in hand and nothing in the list, as soon as the counter is zero.
LEMMA ZeroIsEmpty ==
  ASSUME IInv, pending = 0
  PROVE  work = {} /\ InHand = {} /\ Busy = {}
<1>1. Cardinality(work \union InHand) = 0 /\ IsFiniteSet(work \union InHand)
  BY CountedFinite DEF IInv, PendingIsExact
<1>2. work \union InHand = {}
  BY <1>1, FS_EmptySet
<1> QED
  BY <1>2 DEF InHand

\* Without a cancellation a worker leaves only when the counter is zero, and it stays
\* zero.
LEMMA StepLeave ==
  ASSUME IInv, [Next]_vars
  PROVE  LeaveWhenDone'
<1>0. SUFFICES ASSUME ~cancelled', NEW v \in Workers, pc'[v] = "exited"
      PROVE  pending' = 0
  BY DEF LeaveWhenDone
<1>1. ASSUME ~cancelled, pc[v] = "exited"
      PROVE  pending = 0 /\ work = {} /\ Busy = {}
  BY <1>1, ZeroIsEmpty DEF IInv, LeaveWhenDone
<1>2. ASSUME NEW w \in Workers, NEW x \in Dirs, Take(w, x) \/ Push(w, x)
      PROVE  FALSE
  <2>1. ~cancelled /\ pc[v] = "exited"
    BY <1>0, <1>2 DEF Take, Push, Goto, IInv, Types
  <2>2. work = {} /\ Busy = {}
    BY <1>1, <2>1
  <2>3. x \in work \/ cur[w] # NoDir
    BY <1>2 DEF Take, Push, IInv, HandsMatch
  <2> QED
    BY <2>2, <2>3 DEF Busy
<1>3. ASSUME NEW w \in Workers, Lose(w) \/ CountOff(w)
      PROVE  FALSE
  <2>1. ~cancelled /\ pc[v] = "exited" /\ cur[w] # NoDir
    BY <1>0, <1>3, LoseDrops DEF CountOff, Goto, IInv, Types, HandsMatch
  <2> QED
    BY <1>1, <2>1 DEF Busy
<1>4. ASSUME NEW w \in Workers, Quiet(w)
      PROVE  pending' = 0
  <2>1. pending' = pending
    BY <1>4, QuietKeeps
  <2>2. CASE Leave(w)
    BY <1>0, <1>1, <2>1, <2>2 DEF Leave, Goto, IInv, Types
  <2>3. CASE Sleep(w) \/ Wake(w) \/ CheckContext(w) \/ List(w) \/ ListFails(w) \/ Panic(w)
    BY <1>0, <1>1, <2>1, <2>3
       DEF Sleep, Wake, CheckContext, List, ListFails, Panic, Goto, IInv, Types
  <2>4. CASE CancelWalk(w)
    BY <1>0, <2>4 DEF CancelWalk
  <2> QED
    BY <1>4, <2>2, <2>3, <2>4 DEF Quiet
<1>5. CASE Still
  BY <1>0, <1>1, <1>5, StillKeeps DEF Still, Alarm, UserCancel, Return, Returned, vars
<1> QED
  BY <1>2, <1>3, <1>4, <1>5, StepCases

\* Once every worker has left, only the alarm and the return are still possible.
LEMMA ExitedStays ==
  ASSUME IInv, [Next]_vars, \A v \in Workers : pc[v] = "exited"
  PROVE  UNCHANGED <<pc, finished>>
<1>1. ASSUME NEW w \in Workers, NEW d \in Dirs, Take(w, d) \/ Push(w, d)
      PROVE  FALSE
  BY <1>1 DEF Take, Push
<1>2. ASSUME NEW w \in Workers, Lose(w) \/ CountOff(w) \/ Quiet(w)
      PROVE  FALSE
  BY <1>2 DEF Lose, GiveUp, CountOffFailed, CountOff, Quiet, Leave, Sleep, Wake,
              CheckContext, List, ListFails, Panic, CancelWalk
<1> QED
  BY <1>1, <1>2, StepCases, StillKeeps

\* The walk returns only after all workers have left.
LEMMA StepReturned ==
  ASSUME IInv, [Next]_vars
  PROVE  ReturnedIsOver'
<1>1. CASE result = result'
  BY <1>1, ExitedStays DEF IInv, ReturnedIsOver
<1>2. CASE result # result'
  <2>1. Still
    <3>1. ASSUME NEW w \in Workers, NEW d \in Dirs, Take(w, d) \/ Push(w, d)
          PROVE  result' = result
      BY <3>1 DEF Take, Push
    <3>2. ASSUME NEW w \in Workers, Lose(w) \/ CountOff(w) \/ Quiet(w)
          PROVE  result' = result
      BY <3>2, QuietKeeps DEF Lose, GiveUp, CountOffFailed, CountOff
    <3> QED
      BY <1>2, <3>1, <3>2, StepCases
  <2>2. Return
    BY <1>2, <2>1 DEF Still, Alarm, UserCancel, Returned, vars
  <2> QED
    BY <2>2 DEF Return, ReturnedIsOver
<1> QED
  BY <1>1, <1>2

\* A return without an error follows only a complete walk.
LEMMA StepComplete ==
  ASSUME IInv, [Next]_vars
  PROVE  SuccessIsComplete'
<1>0. SUFFICES ASSUME result' = "ok" PROVE finished' = Dirs
  BY DEF SuccessIsComplete
<1>1. CASE result = "ok"
  <2>1. finished = Dirs /\ \A v \in Workers : pc[v] = "exited"
    BY <1>1 DEF IInv, SuccessIsComplete, ReturnedIsOver
  <2> QED
    BY <2>1, ExitedStays
<1>2. CASE result # "ok"
  <2>1. ASSUME NEW w \in Workers, NEW d \in Dirs, Take(w, d) \/ Push(w, d)
        PROVE  result' = result
    BY <2>1 DEF Take, Push
  <2>2. ASSUME NEW w \in Workers, Lose(w) \/ CountOff(w) \/ Quiet(w)
        PROVE  result' = result
    BY <2>2, QuietKeeps DEF Lose, GiveUp, CountOffFailed, CountOff
  <2>3. Return
    BY <1>0, <1>2, <2>1, <2>2, StepCases DEF Still, Alarm, UserCancel, Returned, vars
  <2>4. ~cancelled /\ (\A v \in Workers : pc[v] = "exited") /\ finished' = finished
    BY <1>0, <2>3 DEF Return
  <2>5. pending = 0
    BY <2>4, WorkersAssumption DEF IInv, LeaveWhenDone
  <2>6. Known = finished
    BY <2>5, ZeroIsEmpty DEF Known
  <2>7. Root \in finished /\ \A d \in finished : Children[d] \subseteq finished
    BY <2>4, <2>6 DEF IInv, NothingLost
  <2>8. finished \in SUBSET Dirs
    BY DEF IInv, Types
  <2>9. finished = Dirs
    BY <2>7, <2>8, TreeAssumption
  <2> QED
    BY <2>4, <2>9
<1> QED
  BY <1>1, <1>2

\* A worker that goes to sleep leaves another one awake, with the directory that is still
\* counted; one that ends the count wakes the sleepers.
LEMMA StepSleepers ==
  ASSUME IInv, [Next]_vars
  PROVE  SleepersWait'
<1> USE DEF SleepersWait
<1>0. pc \in [Workers -> PCs] /\ asleep \subseteq Workers /\ pending \in Nat /\ SleepersWait
  BY CountedFinite, FS_CardinalityType DEF IInv, Types, PendingIsExact
<1>1. ASSUME NEW w \in Workers, pc[w] # "wait" \/ w \notin asleep,
             pc'[w] \notin {"exited", "wait"}, \A v \in Workers : v # w => pc'[v] = pc[v],
             asleep' \subseteq asleep, UNCHANGED <<cancelled, alarmed>>,
             ~cancelled /\ asleep' # {} => pending' # 0
      PROVE  SleepersWait'
  BY <1>0, <1>1
<1>2. ASSUME NEW w \in Workers, NEW d \in Dirs, Take(w, d)
      PROVE  SleepersWait'
  BY <1>0, <1>1, <1>2 DEF Take, Goto
<1>3. ASSUME NEW w \in Workers, NEW d \in Dirs, Push(w, d)
      PROVE  SleepersWait'
  BY <1>0, <1>1, <1>3 DEF Push, Signal
<1>4. ASSUME NEW w \in Workers, Lose(w)
      PROVE  SleepersWait'
  <2>1. CASE GiveUp(w)
    BY <1>0, <2>1 DEF GiveUp, Broadcast
  <2>2. CASE CountOffFailed(w)
    BY <1>0, <1>1, <2>2 DEF CountOffFailed, Broadcast, Goto
  <2> QED
    BY <1>4, <2>1, <2>2 DEF Lose
<1>5. ASSUME NEW w \in Workers, CountOff(w)
      PROVE  SleepersWait'
  BY <1>0, <1>1, <1>5 DEF CountOff, Broadcast, Goto
<1>6. ASSUME NEW w \in Workers, Sleep(w)
      PROVE  SleepersWait'
  <2>1. work = {} /\ pending # 0 /\ ~cancelled /\ pc[w] = "loop"
    BY <1>6 DEF Sleep
  <2>2. InHand # {}
    BY <2>1, FS_EmptySet DEF IInv, PendingIsExact
  <2>3. PICK v \in Workers : cur[v] # NoDir
    BY <2>2 DEF InHand, Busy
  <2>4. pc[v] \notin {"loop", "wait", "exited"}
    BY <2>1, <2>3 DEF IInv, HandsMatch, LeaveWhenDone
  <2>5. v \notin asleep' /\ pc'[v] = pc[v]
    BY <1>0, <1>6, <2>1, <2>4 DEF Sleep, Goto
  <2>6. \A u \in asleep' : pc'[u] = "wait"
    BY <1>0, <1>6 DEF Sleep, Goto
  <2> QED
    BY <1>0, <1>6, <2>1, <2>4, <2>5, <2>6 DEF Sleep
<1>7. ASSUME NEW w \in Workers, Leave(w)
      PROVE  SleepersWait'
  BY <1>0, <1>7 DEF Leave, Goto
<1>8. ASSUME NEW w \in Workers,
             Wake(w) \/ CheckContext(w) \/ List(w) \/ ListFails(w) \/ Panic(w)
      PROVE  SleepersWait'
  BY <1>0, <1>1, <1>8 DEF Wake, CheckContext, List, ListFails, Panic, Goto
<1>9. ASSUME NEW w \in Workers, CancelWalk(w)
      PROVE  SleepersWait'
  BY <1>0, <1>9 DEF CancelWalk, Goto
<1>10. CASE Still
  BY <1>0, <1>10 DEF Still, Alarm, UserCancel, Return, Returned, Broadcast, vars
<1> QED
  BY <1>2, <1>3, <1>4, <1>5, <1>6, <1>7, <1>8, <1>9, <1>10, StepCases DEF Quiet

-----------------------------------------------------------------------------
\* IInv is inductive.
LEMMA StepInv == IInv /\ [Next]_vars => IInv'
<1> SUFFICES ASSUME IInv, [Next]_vars PROVE IInv'
  OBVIOUS
<1>1. Types'
  BY StepTypes DEF IInv
<1> QED
  BY <1>1, StepHands, StepExact, StepVisited, StepParents, StepLost, StepLeave,
     StepReturned, StepComplete, StepSleepers DEF IInv

\* The strengthening of the invariants below that is inductive: the exact counter alone
\* does not say that the directories which are no longer known were listed.
THEOREM Inductive == Spec => []IInv
BY InitInv, StepInv, PTL DEF Spec

\* Every variable keeps its type; in particular the counter never goes below zero.
THEOREM TypeCorrect == Spec => []TypeOK
<1>1. IInv => TypeOK
  <2> SUFFICES ASSUME IInv PROVE TypeOK
    OBVIOUS
  <2>1. pending \in Nat
    BY CountedFinite, FS_CardinalityType DEF IInv, PendingIsExact
  <2> QED
    BY <2>1 DEF IInv, Types, TypeOK
<1> QED
  BY <1>1, Inductive, PTL

\* pendingDirs counts exactly the directories in the list and in workers' hands.
THEOREM CounterExact == Spec => []PendingIsExact
<1>1. IInv => PendingIsExact
  BY DEF IInv
<1> QED
  BY <1>1, Inductive, PTL

\* No directory is on the list twice, in two hands, or taken up again after it was
\* finished, so that no file is handled twice by one walk.
THEOREM VisitOnce == Spec => []VisitedOnce
<1>1. IInv => VisitedOnce
  BY DEF IInv
<1> QED
  BY <1>1, Inductive, PTL

\* walkRemote returns without an error only after it has listed the whole tree, which
\* is what allows pruneLocal to remove the local files that the walk did not see.
THEOREM WalkComplete == Spec => []SuccessIsComplete
<1>1. IInv => SuccessIsComplete
  BY DEF IInv
<1> QED
  BY <1>1, Inductive, PTL

\* No wake-up is lost: while a worker sleeps, another one is awake and still has work, or
\* the alarm of the cancelled walk is still to come.
THEOREM NobodyLeftAsleep == Spec => []NobodySleepsForever
<1>1. IInv => NobodySleepsForever
  BY DEF IInv, SleepersWait, NobodySleepsForever
<1> QED
  BY <1>1, Inductive, PTL
=============================================================================
