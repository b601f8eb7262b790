------------------------ MODULE SyncLifecycleProofs ------------------------
(***************************************************************************)
(* Proofs about SyncLifecycle, for any sets of paths, runs and users and   *)
(* any bounds: types, one run per path, closed records, and the refinement *)
(* of SyncPromise.                                                         *)
(***************************************************************************)
EXTENDS SyncLifecycle, TLAPS

\* How far a run has come says what its record may be.
RecordsFollow ==
  \A r \in Runs :
    /\ run[r].stage \in {"unused", "reserved"} => record[r] = "none"
    /\ run[r].stage \in {"recorded", "walking"} => record[r] \in {"running", "deleted"}
    /\ run[r].stage \in {"closing", "leaving", "over"} => record[r] # "running" \/ r \in broken

\* An outcome that a copy of a path's row shows is one that a run of the path has recorded.
\* Whoever holds such a copy may write it back at any time.
Recorded(p, status) ==
  status \in {"done", "failed"} =>
    \E r \in Runs : /\ run[r] # Unused
                    /\ run[r].path = p
                    /\ record[r] \in {status, "deleted"} \/ r \in broken

CopiesAreRecorded ==
  /\ \A p \in Paths : Recorded(p, row[p].status)
  /\ \A u \in Users : req[u].kind \in CopyKind => Recorded(req[u].path, req[u].seen.status)
  /\ \A r \in Runs : Live(r) => Recorded(run[r].path, run[r].copy.status)

IInv == TypeOK /\ RunningIsLive /\ RecordsFollow /\ CopiesAreRecorded

-----------------------------------------------------------------------------
\* What the actions write is well formed.

\* A write leaves well formed rows.
LEMMA WriteRowType ==
  ASSUME TypeOK, NEW p \in Paths, NEW copy \in Row
  PROVE  WriteRow(p, copy) \in [Paths -> Row]
BY DEF TypeOK, WriteRow, Stored

\* A copy with another status is a row.
LEMMA AsType ==
  ASSUME NEW copy \in Row, NEW s \in Status
  PROVE  As(copy, s) \in Row /\ As(copy, s).status = s
BY DEF As, Row

\* New and deleted rows are rows.
LEMMA BlankType ==
  ASSUME NEW h \in {"unborn", "stored", "deleted"}
  PROVE  Blank(h) \in Row
BY SyncAssumption DEF Blank, Row, Status

\* A write leaves well formed records.
LEMMA WriteRecordType ==
  ASSUME TypeOK, NEW r \in Runs, NEW s \in Status
  PROVE  WriteRecord(r, s) \in [Runs -> Status \union {"deleted"}]
BY DEF TypeOK, WriteRecord

\* A live run is a full record; only dead ones have nothing but their stage.
LEMMA LiveRunType ==
  ASSUME TypeOK, NEW r \in Runs, Live(r)
  PROVE  run[r] \in LiveRun
<1>1. run[r] \in LiveRun \union {Unused} \union {Over(p) : p \in Paths}
  BY DEF TypeOK, Run
<1>2. run[r] # Unused
  BY DEF Live, Unused, LiveStage
<1>3. \A p \in Paths : run[r] # Over(p)
  BY DEF Live, Over, LiveStage
<1> QED
  BY <1>1, <1>2, <1>3

\* A request that will write a row back carries a row.
LEMMA CopyReqType ==
  ASSUME TypeOK, NEW u \in Users, req[u].kind \in CopyKind
  PROVE  req[u] \in [kind : CopyKind, path : Paths, seen : Row]
<1>1. req[u] \in Req \union {NoReq}
  BY DEF TypeOK
<1>2. req[u] # NoReq
  BY DEF NoReq, CopyKind
<1>3. req[u] \notin [kind : {"cancel", "delete"}, path : Paths, seen : {NoCopy}]
  BY DEF CopyKind
<1> QED
  BY <1>1, <1>2, <1>3 DEF Req

\* A request in progress names a path.
LEMMA ReqPathType ==
  ASSUME TypeOK, NEW u \in Users, req[u].kind \in CopyKind \union {"cancel", "delete"}
  PROVE  req[u].path \in Paths
<1>1. req[u] \in Req \union {NoReq}
  BY DEF TypeOK
<1>2. req[u] # NoReq
  BY DEF NoReq, CopyKind
<1> QED
  BY <1>1, <1>2 DEF Req

-----------------------------------------------------------------------------
\* The initial state is well formed.
LEMMA InitTypes == Init => TypeOK
<1> SUFFICES ASSUME Init PROVE TypeOK
  OBVIOUS
<1>1. row \in [Paths -> Row]
  BY BlankType DEF Init
<1>2. record \in [Runs -> Status \union {"deleted"}]
  BY DEF Init, Status
<1>3. running \in [Paths -> Runs \union {Nobody}]
  BY DEF Init
<1>4. run \in [Runs -> Run] /\ \A r \in Runs : run[r].stage # "walking"
  BY DEF Init, Run, Unused
<1>5. req \in [Users -> Req \union {NoReq}]
  BY DEF Init
<1>6. heal \in [Paths -> Row \union {NoCopy}]
  BY DEF Init
<1>7. broken \subseteq Runs /\ phase \in {"down", "serving", "up", "stopping"}
  BY DEF Init
<1>8. requests \in 0..MaxRequests /\ starts \in 0..MaxStarts /\ faults \in 0..MaxFaults
  BY SyncAssumption DEF Init
<1> QED
  BY <1>1, <1>2, <1>3, <1>4, <1>5, <1>6, <1>7, <1>8 DEF TypeOK

\* A step of a run that keeps the run live, at another stage.
LEMMA StageTypes ==
  ASSUME TypeOK, NEW r \in Runs, Live(r), NEW s \in LiveStage \ {"walking"}, SetStage(r, s)
  PROVE  run' \in [Runs -> Run] /\ \A q \in Runs : run'[q].stage = "walking" => run'[q].copy.status = "running"
<1>1. run[r] \in LiveRun
  BY LiveRunType
<1>2. [run[r] EXCEPT !.stage = s] \in LiveRun
  BY <1>1 DEF LiveRun
<1>3. run' = [run EXCEPT ![r] = [run[r] EXCEPT !.stage = s]]
  BY DEF SetStage, TypeOK
<1>4. [run[r] EXCEPT !.stage = s].stage # "walking"
  BY <1>1 DEF LiveRun
<1> QED
  BY <1>2, <1>3, <1>4 DEF TypeOK, Run

\* A step of a run that also changes the status of its copy.
LEMMA CopyTypes ==
  ASSUME TypeOK, NEW r \in Runs, Live(r), NEW s \in LiveStage, NEW st \in Status,
         s = "walking" => st = "running",
         run' = [run EXCEPT ![r].stage = s, ![r].copy = As(@, st)]
  PROVE  run' \in [Runs -> Run] /\ \A q \in Runs : run'[q].stage = "walking" => run'[q].copy.status = "running"
<1>1. run[r] \in LiveRun
  BY LiveRunType
<1> DEFINE new == [run[r] EXCEPT !.stage = s, !.copy = As(run[r].copy, st)]
<1>2. As(run[r].copy, st) \in Row /\ As(run[r].copy, st).status = st
  BY <1>1, AsType DEF LiveRun
<1>3. new \in LiveRun /\ new.stage = s /\ new.copy.status = st
  BY <1>1, <1>2 DEF LiveRun
<1>4. run' = [run EXCEPT ![r] = new]
  BY DEF TypeOK
<1> HIDE DEF new
<1> QED
  BY <1>3, <1>4 DEF TypeOK, Run

\* A step that ends a run.
LEMMA EndTypes ==
  ASSUME TypeOK, NEW r \in Runs, Live(r), End(r)
  PROVE  run' \in [Runs -> Run] /\ \A q \in Runs : run'[q].stage = "walking" => run'[q].copy.status = "running"
<1>1. run[r].path \in Paths
  BY LiveRunType DEF LiveRun
<1>2. Over(run[r].path) \in Run /\ Over(run[r].path).stage # "walking"
  BY <1>1 DEF Run, Over
<1> QED
  BY <1>2 DEF End, TypeOK

\* Requests that read a row, and the checks in between, keep the requests well formed.
LEMMA RequestTypes ==
  ASSUME TypeOK, NEW u \in Users, NEW p \in Paths,
         NEW kind, NEW seen,
         \/ kind \in CopyKind /\ seen \in Row
         \/ kind \in {"cancel", "delete"} /\ seen = NoCopy,
         Request(u, kind, p, seen)
  PROVE  req' \in [Users -> Req \union {NoReq}] /\ requests' \in 0..MaxRequests
<1>1. [kind |-> kind, path |-> p, seen |-> seen] \in Req
  BY DEF Req
<1>2. req' \in [Users -> Req \union {NoReq}]
  BY <1>1 DEF Request, TypeOK
<1>3. requests' \in 0..MaxRequests
  BY SyncAssumption DEF Request, TypeOK
<1> QED
  BY <1>2, <1>3

\* A step that ends a request.
LEMMA AnswerTypes ==
  ASSUME TypeOK, NEW u \in Users, Answer(u)
  PROVE  req' \in [Users -> Req \union {NoReq}]
BY DEF Answer, TypeOK

\* A step that takes a request to its writing part, with the row it has read.
LEMMA GoesOnTypes ==
  ASSUME TypeOK, NEW u \in Users, req[u].kind \in CopyKind \union {"cancel", "delete"},
         NEW kind \in CopyKind, NEW seen \in Row, GoesOn(u, kind, seen)
  PROVE  req' \in [Users -> Req \union {NoReq}]
<1> DEFINE new == [req[u] EXCEPT !.kind = kind, !.seen = seen]
<1>1. req[u] \in [kind : CopyKind, path : Paths, seen : Row]
        \union [kind : {"cancel", "delete"}, path : Paths, seen : {NoCopy}]
  BY DEF TypeOK, Req, NoReq, CopyKind
<1>2. new \in [kind : CopyKind, path : Paths, seen : Row]
  BY <1>1
<1>3. req' = [req EXCEPT ![u] = new]
  BY DEF GoesOn, TypeOK
<1> HIDE DEF new
<1> QED
  BY <1>2, <1>3 DEF TypeOK, Req

\* A write that may fail.
LEMMA FaultTypes ==
  ASSUME TypeOK, NEW write \in [Paths -> Row], WriteOrFault(write)
  PROVE  row' \in [Paths -> Row] /\ faults' \in 0..MaxFaults
BY SyncAssumption DEF TypeOK, WriteOrFault

\* Types, action by action: the runs ...
LEMMA RunStepTypes ==
  ASSUME TypeOK, NEW r \in Runs, RunNext(r) \/ Progress(r)
  PROVE  TypeOK'
<1> USE DEF database, bounds
<1>1. CASE CreateRecord(r)
  <2>1. Live(r)
    BY <1>1 DEF CreateRecord, Live, LiveStage
  <2>2. run' \in [Runs -> Run] /\ \A q \in Runs : run'[q].stage = "walking" => run'[q].copy.status = "running"
    BY <1>1, <2>1, StageTypes DEF CreateRecord, LiveStage
  <2> QED
    BY <1>1, <2>2 DEF CreateRecord, TypeOK, Status
<1>2. CASE CreateRecordFails(r) \/ Leave(r)
  <2>1. Live(r)
    BY <1>2 DEF CreateRecordFails, Leave, Live, LiveStage
  <2>2. run' \in [Runs -> Run] /\ \A q \in Runs : run'[q].stage = "walking" => run'[q].copy.status = "running"
    BY <1>2, <2>1, EndTypes DEF CreateRecordFails, Leave
  <2>3. running' \in [Paths -> Runs \union {Nobody}]
    BY <1>2 DEF CreateRecordFails, Leave, ClearRunning, TypeOK
  <2> QED
    BY <1>2, <2>2, <2>3 DEF CreateRecordFails, Leave, TypeOK
<1>3. CASE Mark(r)
  <2>1. Live(r)
    BY <1>3 DEF Mark, Live, LiveStage
  <2>2. run[r].path \in Paths /\ run[r].copy \in Row
    BY <2>1, LiveRunType DEF LiveRun
  <2>3. run' \in [Runs -> Run] /\ \A q \in Runs : run'[q].stage = "walking" => run'[q].copy.status = "running"
    BY <1>3, <2>1, CopyTypes DEF Mark, LiveStage, Status
  <2>4. As(run[r].copy, "running") \in Row
    BY <2>2, AsType DEF Status
  <2>5. row' \in [Paths -> Row]
    BY <1>3, <2>2, <2>4, WriteRowType DEF Mark, TypeOK
  <2> QED
    BY <1>3, <2>3, <2>5 DEF Mark, TypeOK
<1>4. CASE Progress(r)
  <2>1. Live(r)
    BY <1>4 DEF Progress, Live, LiveStage
  <2>2. run[r].path \in Paths /\ run[r].copy \in Row
    BY <2>1, LiveRunType DEF LiveRun
  <2>3. row' \in [Paths -> Row]
    BY <1>4, <2>2, WriteRowType DEF Progress
  <2>4. record' \in [Runs -> Status \union {"deleted"}]
    BY <1>4, WriteRecordType DEF Progress, Status
  <2> QED
    BY <1>4, <2>3, <2>4 DEF Progress, TypeOK
<1>5. ASSUME NEW outcome \in Outcomes, CloseRecord(r, outcome)
      PROVE  TypeOK'
  <2>1. Live(r) /\ outcome \in Status
    BY <1>5 DEF CloseRecord, Live, LiveStage, Status
  <2>2. run' \in [Runs -> Run] /\ \A q \in Runs : run'[q].stage = "walking" => run'[q].copy.status = "running"
    BY <1>5, <2>1, CopyTypes DEF CloseRecord, LiveStage
  <2>3. record' \in [Runs -> Status \union {"deleted"}] /\ broken' \subseteq Runs /\ faults' \in 0..MaxFaults
    BY <1>5, <2>1, WriteRecordType, SyncAssumption DEF CloseRecord, TypeOK
  <2> QED
    BY <1>5, <2>2, <2>3 DEF CloseRecord, TypeOK
<1>6. CASE CloseRow(r)
  <2>1. Live(r)
    BY <1>6 DEF CloseRow, Live, LiveStage
  <2>2. run[r].path \in Paths /\ run[r].copy \in Row
    BY <2>1, LiveRunType DEF LiveRun
  <2>3. row' \in [Paths -> Row] /\ faults' \in 0..MaxFaults
    BY <1>6, <2>2, WriteRowType, FaultTypes DEF CloseRow
  <2>4. run' \in [Runs -> Run] /\ \A q \in Runs : run'[q].stage = "walking" => run'[q].copy.status = "running"
    BY <1>6, <2>1, StageTypes DEF CloseRow, LiveStage
  <2> QED
    BY <1>6, <2>3, <2>4 DEF CloseRow, TypeOK
<1>7. CASE Panic(r)
  <2>1. Live(r)
    BY <1>7 DEF Panic, Live, LiveStage
  <2>2. run' \in [Runs -> Run] /\ \A q \in Runs : run'[q].stage = "walking" => run'[q].copy.status = "running"
    BY <1>7, <2>1, StageTypes DEF Panic, LiveStage
  <2> QED
    BY <1>7, <2>2 DEF Panic, TypeOK
<1> QED
  BY <1>1, <1>2, <1>3, <1>4, <1>5, <1>6, <1>7 DEF RunNext

\* Cancelling the context of a run changes nothing else of it.
LEMMA CancelTypes ==
  ASSUME TypeOK, NEW r \in Runs, Live(r), NEW q \in Runs,
         NEW new, new = [run[r] EXCEPT !.canceled = TRUE]
  PROVE  /\ new \in LiveRun
         /\ new.stage = run[r].stage
         /\ new.path = run[r].path
         /\ new.copy = run[r].copy
BY LiveRunType DEF LiveRun

\* ... the requests ...
LEMMA RequestStepTypes ==
  ASSUME TypeOK, RunningIsLive, NEW u \in Users, RequestNext(u)
  PROVE  TypeOK'
<1> USE DEF database, bounds
<1>1. ASSUME NEW p \in Paths, StartRead(u, p) \/ UpdateRead(u, p) \/ BackfillRead(u, p)
      PROVE  TypeOK'
  <2>1. row[p] \in Row
    BY DEF TypeOK
  <2>2. req' \in [Users -> Req \union {NoReq}] /\ requests' \in 0..MaxRequests
    BY <1>1, <2>1, RequestTypes DEF StartRead, UpdateRead, BackfillRead, CopyKind
  <2> QED
    BY <1>1, <2>2 DEF StartRead, UpdateRead, BackfillRead, TypeOK
<1>2. ASSUME NEW p \in Paths, DeleteCheck(u, p)
      PROVE  TypeOK'
  <2>1. req' \in [Users -> Req \union {NoReq}] /\ requests' \in 0..MaxRequests
    BY <1>2, RequestTypes DEF DeleteCheck
  <2> QED
    BY <1>2, <2>1 DEF DeleteCheck, TypeOK
<1>3. ASSUME NEW p \in Paths, CancelSignal(u, p)
      PROVE  TypeOK'
  <2>1. req' \in [Users -> Req \union {NoReq}] /\ requests' \in 0..MaxRequests
    BY <1>3, RequestTypes DEF CancelSignal
  <2>2. run' \in [Runs -> Run] /\ \A q \in Runs : run'[q].stage = "walking" => run'[q].copy.status = "running"
    <3>1. CASE running[p] = Nobody
      BY <1>3, <3>1 DEF CancelSignal, TypeOK
    <3>2. CASE running[p] # Nobody
      <4>1. running[p] \in Runs /\ Live(running[p])
        BY <3>2 DEF TypeOK, RunningIsLive
      <4> DEFINE new == [run[running[p]] EXCEPT !.canceled = TRUE]
      <4>2. new \in LiveRun /\ new.stage = run[running[p]].stage /\ new.copy = run[running[p]].copy
        BY <4>1, CancelTypes
      <4>3. run' = [run EXCEPT ![running[p]] = new]
        BY <1>3, <3>2, <4>1 DEF CancelSignal, TypeOK
      <4> HIDE DEF new
      <4> QED
        BY <4>1, <4>2, <4>3 DEF TypeOK, Run
    <3> QED
      BY <3>1, <3>2
  <2> QED
    BY <1>3, <2>1, <2>2 DEF CancelSignal, TypeOK
<1>4. ASSUME NEW r \in Runs, Reserve(u, r)
      PROVE  TypeOK'
  <2>1. req[u].path \in Paths /\ req[u].seen \in Row
    BY <1>4, CopyReqType DEF Reserve, IsNext, Asks, CopyKind
  <2> DEFINE new == [stage |-> "reserved", path |-> req[u].path, copy |-> req[u].seen,
                     canceled |-> phase = "stopping", bound |-> phase # "serving"]
  <2>2. new \in LiveRun /\ new.stage = "reserved"
    BY <2>1, Zenon DEF LiveRun, LiveStage
  <2>3. run' = [run EXCEPT ![r] = new]
    BY <1>4 DEF Reserve, IsNext
  <2> HIDE DEF new
  <2>4. run' \in [Runs -> Run] /\ \A q \in Runs : run'[q].stage = "walking" => run'[q].copy.status = "running"
    BY <2>2, <2>3 DEF TypeOK, Run
  <2>5. running' \in [Paths -> Runs \union {Nobody}]
    BY <1>4 DEF Reserve, IsNext, TypeOK
  <2>6. req' \in [Users -> Req \union {NoReq}]
    BY <1>4, AnswerTypes DEF Reserve, IsNext
  <2> QED
    BY <1>4, <2>4, <2>5, <2>6 DEF Reserve, IsNext, TypeOK
<1>5. CASE Refuse(u) \/ Abandon(u)
  <2>1. req' \in [Users -> Req \union {NoReq}]
    BY <1>5, AnswerTypes DEF Refuse, Abandon
  <2> QED
    BY <1>5, <2>1 DEF Refuse, Abandon, TypeOK
<1>6. CASE CancelRead(u)
  <2>1. req[u].path \in Paths
    BY <1>6, ReqPathType DEF CancelRead, Asks
  <2>2. row[req[u].path] \in Row
    BY <2>1 DEF TypeOK
  <2>3. req' \in [Users -> Req \union {NoReq}]
    BY <1>6, <2>2, AnswerTypes, GoesOnTypes DEF CancelRead, CopyKind, Asks
  <2> QED
    BY <1>6, <2>3 DEF CancelRead, TypeOK
<1>7. CASE UpdateCheck(u)
  <2>1. req[u].seen \in Row
    BY <1>7, CopyReqType DEF UpdateCheck, Asks, CopyKind
  <2>2. req' \in [Users -> Req \union {NoReq}]
    BY <1>7, <2>1, GoesOnTypes DEF UpdateCheck, CopyKind, Asks
  <2> QED
    BY <1>7, <2>2 DEF UpdateCheck, TypeOK
<1>8. CASE CancelWrite(u) \/ BackfillWrite(u)
  <2>1. req[u].path \in Paths /\ req[u].seen \in Row
    BY <1>8, CopyReqType DEF CancelWrite, BackfillWrite, Asks, CopyKind
  <2>2. As(req[u].seen, "canceled") \in Row
    BY <2>1, AsType DEF Status, Outcomes
  <2>3. row' \in [Paths -> Row]
    BY <1>8, <2>1, <2>2, WriteRowType DEF CancelWrite, BackfillWrite
  <2>4. req' \in [Users -> Req \union {NoReq}]
    BY <1>8, AnswerTypes DEF CancelWrite, BackfillWrite
  <2> QED
    BY <1>8, <2>3, <2>4 DEF CancelWrite, BackfillWrite, TypeOK
<1>9. CASE UpdateWrite(u)
  <2>1. req[u].path \in Paths /\ req[u].seen \in Row
    BY <1>9, CopyReqType DEF UpdateWrite, Asks, CopyKind
  <2>2. PICK c \in req[u].seen.cfg + 1 .. MaxEdits :
          row' = WriteRow(req[u].path, [req[u].seen EXCEPT !.cfg = c])
    BY <1>9 DEF UpdateWrite
  <2>3. c \in 0..MaxEdits
    BY <2>1, <2>2, SyncAssumption DEF Row
  <2>4. [req[u].seen EXCEPT !.cfg = c] \in Row
    BY <2>1, <2>3 DEF Row
  <2>5. row' \in [Paths -> Row]
    BY <2>1, <2>2, <2>4, WriteRowType
  <2>6. req' \in [Users -> Req \union {NoReq}]
    BY <1>9, AnswerTypes DEF UpdateWrite
  <2> QED
    BY <1>9, <2>5, <2>6 DEF UpdateWrite, TypeOK
<1>10. CASE DeleteWrite(u)
  <2>1. row' \in [Paths -> Row]
    BY <1>10, BlankType DEF DeleteWrite, TypeOK
  <2>2. req' \in [Users -> Req \union {NoReq}]
    BY <1>10, AnswerTypes DEF DeleteWrite
  <2> QED
    BY <1>10, <2>1, <2>2 DEF DeleteWrite, TypeOK
<1> QED
  BY <1>1, <1>2, <1>3, <1>4, <1>5, <1>6, <1>7, <1>8, <1>9, <1>10 DEF RequestNext

\* ... and the process.
LEMMA ProcessStepTypes ==
  ASSUME TypeOK,
         \/ \E p \in Paths : CreatePath(p) \/ RecoverWrite(p)
         \/ \E S \in SUBSET Runs : DeleteRecords(S)
         \/ Serve \/ Start \/ Stop \/ Die
  PROVE  TypeOK'
<1> USE DEF database, bounds
<1>1. ASSUME NEW p \in Paths, CreatePath(p)
      PROVE  TypeOK'
  BY <1>1, BlankType DEF CreatePath, TypeOK
<1>2. ASSUME NEW p \in Paths, RecoverWrite(p)
      PROVE  TypeOK'
  <2>1. heal[p] \in Row
    BY <1>2 DEF RecoverWrite, TypeOK
  <2>2. As(heal[p], "canceled") \in Row
    BY <2>1, AsType DEF Status, Outcomes
  <2>3. row' \in [Paths -> Row] /\ faults' \in 0..MaxFaults
    BY <1>2, <2>2, WriteRowType, FaultTypes DEF RecoverWrite
  <2> QED
    BY <1>2, <2>3 DEF RecoverWrite, TypeOK
<1>3. ASSUME NEW S \in SUBSET Runs, DeleteRecords(S)
      PROVE  TypeOK'
  BY <1>3, SyncAssumption DEF DeleteRecords, TypeOK
<1>4. CASE Serve
  BY <1>4, SyncAssumption DEF Serve, TypeOK
<1>5. CASE Start
  BY <1>5, SyncAssumption DEF Start, TypeOK
<1>6. CASE Stop
  <2>1. ASSUME NEW r \in Runs, Live(r) /\ run[r].bound
        PROVE  /\ [run[r] EXCEPT !.canceled = TRUE] \in LiveRun
               /\ [run[r] EXCEPT !.canceled = TRUE].stage = run[r].stage
               /\ [run[r] EXCEPT !.canceled = TRUE].copy = run[r].copy
    BY <2>1, CancelTypes
  <2>2. run' \in [Runs -> Run] /\ \A q \in Runs : run'[q].stage = "walking" => run'[q].copy.status = "running"
    BY <1>6, <2>1 DEF Stop, TypeOK, Run
  <2> QED
    BY <1>6, <2>2 DEF Stop, TypeOK
<1>7. CASE Die
  <2>1. ASSUME NEW r \in Runs, Live(r)
        PROVE  Over(run[r].path) \in Run /\ Over(run[r].path).stage = "over"
    BY <2>1, LiveRunType DEF LiveRun, Run, Over
  <2>2. run' \in [Runs -> Run] /\ \A q \in Runs : run'[q].stage = "walking" => run'[q].copy.status = "running"
    BY <1>7, <2>1 DEF Die, TypeOK
  <2> QED
    BY <1>7, <2>2 DEF Die, TypeOK
<1> QED
  BY <1>1, <1>2, <1>3, <1>4, <1>5, <1>6, <1>7

\* TypeOK is inductive.
LEMMA StepTypes ==
  ASSUME TypeOK, RunningIsLive, [Next]_vars
  PROVE  TypeOK'
<1>1. CASE UNCHANGED vars
  BY <1>1 DEF vars, database, bounds, TypeOK
<1> QED
  BY <1>1, RunStepTypes, RequestStepTypes, ProcessStepTypes DEF Next

-----------------------------------------------------------------------------
\* The reservation and the records, step by step.

\* Steps that leave the runs and the reservations alone.
LEMMA RunsKept ==
  ASSUME RunningIsLive, UNCHANGED <<run, running>>
  PROVE  RunningIsLive'
BY DEF RunningIsLive, Live

\* Steps that change one run, which stays live and on its path.
LEMMA LiveKept ==
  ASSUME TypeOK, RunningIsLive, NEW r \in Runs, Live(r), NEW new \in LiveRun,
         new.path = run[r].path, run' = [run EXCEPT ![r] = new], UNCHANGED running
  PROVE  RunningIsLive'
<1>1. \A q \in Runs : Live(q)' <=> Live(q)
  BY DEF Live, LiveRun, TypeOK
<1>2. \A q \in Runs : Live(q) => run'[q].path = run[q].path
  BY DEF TypeOK
<1> QED
  BY <1>1, <1>2 DEF RunningIsLive, TypeOK

\* Steps that end one run and give its path back.
LEMMA EndKept ==
  ASSUME TypeOK, RunningIsLive, NEW r \in Runs, Live(r), End(r), ClearRunning(r)
  PROVE  RunningIsLive'
<1>1. ~Live(r)'
  BY DEF End, TypeOK, Live, Over, LiveStage
<1>2. \A q \in Runs \ {r} : run'[q] = run[q]
  BY DEF End, TypeOK
<1>3. run[r].path \in Paths /\ running[run[r].path] = r
  BY LiveRunType DEF RunningIsLive, LiveRun
<1>4. \A p \in Paths : running'[p] = IF p = run[r].path THEN Nobody ELSE running[p]
  BY <1>3 DEF ClearRunning, TypeOK
<1>5. ASSUME NEW p \in Paths, running'[p] # Nobody
      PROVE  Live(running[p])' /\ run'[running'[p]].path = p
  <2>1. running'[p] = running[p] /\ running[p] \in Runs \ {r}
    BY <1>3, <1>4, <1>5 DEF RunningIsLive, TypeOK
  <2> QED
    BY <1>2, <1>5, <2>1 DEF RunningIsLive, Live
<1>6. ASSUME NEW q \in Runs, Live(q)'
      PROVE  running'[run'[q].path] = q
  <2>1. q # r /\ Live(q)
    BY <1>1, <1>2, <1>6 DEF Live
  <2>2. run[q].path \in Paths /\ running[run[q].path] = q
    BY <2>1, LiveRunType DEF RunningIsLive, LiveRun
  <2> QED
    BY <1>2, <1>3, <1>4, <2>1, <2>2
<1> QED
  BY <1>5, <1>6 DEF RunningIsLive, Live

\* RunningIsLive is inductive relative to TypeOK.
LEMMA StepRunning ==
  ASSUME TypeOK, RunningIsLive, [Next]_vars
  PROVE  RunningIsLive'
<1>1. ASSUME NEW r \in Runs, CreateRecord(r) \/ CloseRow(r) \/ Panic(r)
      PROVE  RunningIsLive'
  <2>1. Live(r) /\ run[r] \in LiveRun
    BY <1>1, LiveRunType DEF CreateRecord, CloseRow, Panic, Live, LiveStage
  <2>2. PICK s \in LiveStage : SetStage(r, s) /\ UNCHANGED running
    BY <1>1 DEF CreateRecord, CloseRow, Panic, LiveStage
  <2> DEFINE new == [run[r] EXCEPT !.stage = s]
  <2>3. new \in LiveRun /\ new.path = run[r].path
    BY <2>1 DEF LiveRun
  <2>4. run' = [run EXCEPT ![r] = new]
    BY <2>2 DEF SetStage, TypeOK
  <2> HIDE DEF new
  <2> QED
    BY <2>1, <2>2, <2>3, <2>4, LiveKept
<1>2. ASSUME NEW r \in Runs, NEW st \in Status, NEW s \in LiveStage, Live(r),
             run' = [run EXCEPT ![r].stage = s, ![r].copy = As(@, st)], UNCHANGED running
      PROVE  RunningIsLive'
  <2>1. run[r] \in LiveRun /\ As(run[r].copy, st) \in Row
    BY <1>2, LiveRunType, AsType DEF LiveRun
  <2> DEFINE new == [run[r] EXCEPT !.stage = s, !.copy = As(run[r].copy, st)]
  <2>3. new \in LiveRun /\ new.path = run[r].path
    BY <2>1 DEF LiveRun
  <2>4. run' = [run EXCEPT ![r] = new]
    BY <1>2 DEF TypeOK
  <2> HIDE DEF new
  <2> QED
    BY <1>2, <2>3, <2>4, LiveKept
<1>3. ASSUME NEW r \in Runs, Mark(r)
      PROVE  RunningIsLive'
  BY <1>2, <1>3 DEF Mark, Live, LiveStage, Status
<1>4. ASSUME NEW r \in Runs, NEW outcome \in Outcomes, CloseRecord(r, outcome)
      PROVE  RunningIsLive'
  BY <1>2, <1>4 DEF CloseRecord, Live, LiveStage, Status
<1>5. ASSUME NEW r \in Runs, CreateRecordFails(r) \/ Leave(r)
      PROVE  RunningIsLive'
  BY <1>5, EndKept DEF CreateRecordFails, Leave, Live, LiveStage
<1>6. ASSUME NEW r \in Runs, Progress(r)
      PROVE  RunningIsLive'
  BY <1>6, RunsKept DEF Progress
<1>7. ASSUME NEW u \in Users, NEW r \in Runs, Reserve(u, r)
      PROVE  RunningIsLive'
  <2>1. req[u].path \in Paths
    BY <1>7, CopyReqType DEF Reserve, IsNext, Asks, CopyKind
  <2>2. run'[r].stage = "reserved" /\ run'[r].path = req[u].path
    BY <1>7 DEF Reserve, IsNext, TypeOK
  <2>3. \A q \in Runs \ {r} : run'[q] = run[q]
    BY <1>7 DEF Reserve, IsNext, TypeOK
  <2>4. ~Live(r) /\ Live(r)'
    BY <1>7, <2>2 DEF Reserve, IsNext, Live, LiveStage, Unused
  <2>5. running[req[u].path] = Nobody /\ running' = [running EXCEPT ![req[u].path] = r]
    BY <1>7 DEF Reserve, IsNext
  <2>6. ASSUME NEW p \in Paths, running'[p] # Nobody
        PROVE  Live(running[p])' /\ run'[running'[p]].path = p
    <3>1. CASE p = req[u].path
      BY <2>1, <2>2, <2>4, <2>5, <3>1 DEF TypeOK, Live
    <3>2. CASE p # req[u].path
      <4>1. running'[p] = running[p] /\ running[p] \in Runs \ {r}
        BY <2>4, <2>5, <2>6, <3>2 DEF TypeOK, RunningIsLive
      <4> QED
        BY <2>3, <2>6, <4>1 DEF RunningIsLive, Live
    <3> QED
      BY <3>1, <3>2
  <2>7. ASSUME NEW q \in Runs, Live(q)'
        PROVE  running'[run'[q].path] = q
    <3>1. CASE q = r
      BY <2>1, <2>2, <2>5, <3>1 DEF TypeOK
    <3>2. CASE q # r
      <4>1. Live(q) /\ run'[q] = run[q]
        BY <2>3, <2>7, <3>2 DEF Live
      <4>2. run[q].path \in Paths /\ running[run[q].path] = q
        BY <4>1, LiveRunType DEF RunningIsLive, LiveRun
      <4>3. run[q].path # req[u].path
        BY <2>5, <4>2, SyncAssumption
      <4> QED
        BY <2>5, <4>1, <4>2, <4>3 DEF TypeOK
    <3> QED
      BY <3>1, <3>2
  <2> QED
    BY <2>6, <2>7 DEF RunningIsLive, Live
<1>8. ASSUME NEW u \in Users, NEW p \in Paths, CancelSignal(u, p)
      PROVE  RunningIsLive'
  <2>1. CASE running[p] = Nobody
    BY <1>8, <2>1, RunsKept DEF CancelSignal
  <2>2. CASE running[p] # Nobody
    <3>1. running[p] \in Runs /\ Live(running[p])
      BY <2>2 DEF TypeOK, RunningIsLive
    <3> DEFINE new == [run[running[p]] EXCEPT !.canceled = TRUE]
    <3>2. new \in LiveRun /\ new.path = run[running[p]].path
      BY <3>1, CancelTypes
    <3>3. run' = [run EXCEPT ![running[p]] = new] /\ UNCHANGED running
      BY <1>8, <2>2, <3>1 DEF CancelSignal, TypeOK
    <3> HIDE DEF new
    <3> QED
      BY <3>1, <3>2, <3>3, LiveKept
  <2> QED
    BY <2>1, <2>2
<1>9. CASE Stop
  <2>1. ASSUME NEW r \in Runs
        PROVE  run'[r].stage = run[r].stage /\ (Live(r) => run'[r].path = run[r].path)
    BY <1>9, CancelTypes DEF Stop
  <2>2. UNCHANGED running
    BY <1>9 DEF Stop
  <2> QED
    BY <2>1, <2>2 DEF RunningIsLive, Live, TypeOK
<1>10. CASE Die
  BY <1>10 DEF Die, RunningIsLive, Live, LiveStage, Over
<1>11. ASSUME NEW u \in Users, RequestNext(u), UNCHANGED <<run, running>>
       PROVE  RunningIsLive'
  BY <1>11, RunsKept
<1>12. ASSUME NEW u \in Users, RequestNext(u)
       PROVE  RunningIsLive'
  BY <1>7, <1>8, <1>11, <1>12 DEF RequestNext, StartRead, UpdateRead, DeleteCheck, BackfillRead,
     Refuse, CancelRead, CancelWrite, UpdateCheck, UpdateWrite, DeleteWrite, BackfillWrite, Abandon
<1>13. CASE \/ \E p \in Paths : CreatePath(p) \/ RecoverWrite(p)
            \/ \E S \in SUBSET Runs : DeleteRecords(S)
            \/ Serve \/ Start \/ UNCHANGED vars
  BY <1>13, RunsKept DEF CreatePath, RecoverWrite, DeleteRecords, Serve, Start, vars
<1> QED
  BY <1>1, <1>3, <1>4, <1>5, <1>6, <1>9, <1>10, <1>12, <1>13 DEF Next, RunNext

\* RecordsFollow is inductive relative to TypeOK and RunningIsLive.
LEMMA StepRecords ==
  ASSUME TypeOK, RunningIsLive, RecordsFollow, [Next]_vars
  PROVE  RecordsFollow'
<1> USE DEF RecordsFollow, database, bounds
<1>1. ASSUME NEW r \in Runs, RunNext(r) \/ Progress(r)
      PROVE  RecordsFollow'
  <2>1. CASE CreateRecord(r)
    BY <2>1 DEF CreateRecord, SetStage, TypeOK
  <2>2. CASE CreateRecordFails(r) \/ Leave(r)
    BY <2>2 DEF CreateRecordFails, Leave, End, Over, TypeOK
  <2>3. CASE Mark(r)
    BY <2>3 DEF Mark, TypeOK
  <2>4. CASE \E outcome \in Outcomes : CloseRecord(r, outcome)
    BY <2>4 DEF CloseRecord, WriteRecord, Outcomes, TypeOK
  <2>5. CASE CloseRow(r) \/ Panic(r)
    <3>1. run[r] \in LiveRun
      BY <2>5, LiveRunType DEF CloseRow, Panic, Live, LiveStage
    <3>2. run'[r].stage = "leaving" /\ \A q \in Runs \ {r} : run'[q] = run[q]
      BY <2>5, <3>1 DEF CloseRow, Panic, SetStage, TypeOK, LiveRun
    <3>3. UNCHANGED record /\ broken \subseteq broken' /\ (r \in broken' \/ record[r] # "running")
      BY <2>5 DEF CloseRow, Panic
    <3> QED
      BY <3>2, <3>3
  <2>6. CASE Progress(r)
    BY <2>6 DEF Progress, WriteRecord, TypeOK
  <2> QED
    BY <1>1, <2>1, <2>2, <2>3, <2>4, <2>5, <2>6 DEF RunNext
<1>2. ASSUME NEW u \in Users, NEW r \in Runs, Reserve(u, r)
      PROVE  RecordsFollow'
  <2>1. record[r] = "none"
    BY <1>2 DEF Reserve, IsNext, Unused
  <2>2. run'[r].stage = "reserved" /\ \A q \in Runs \ {r} : run'[q] = run[q]
    BY <1>2 DEF Reserve, IsNext, TypeOK
  <2>3. UNCHANGED <<record, broken>>
    BY <1>2 DEF Reserve, IsNext
  <2> QED
    BY <2>1, <2>2, <2>3
<1>3. ASSUME NEW u \in Users, NEW p \in Paths, CancelSignal(u, p)
      PROVE  RecordsFollow'
  <2>1. \A r \in Runs : run'[r].stage = run[r].stage
    <3>1. CASE running[p] = Nobody
      BY <1>3, <3>1 DEF CancelSignal
    <3>2. CASE running[p] # Nobody
      <4>1. running[p] \in Runs /\ Live(running[p])
        BY <3>2 DEF TypeOK, RunningIsLive
      <4>2. [run[running[p]] EXCEPT !.canceled = TRUE].stage = run[running[p]].stage
        BY <4>1, CancelTypes
      <4> QED
        BY <1>3, <3>2, <4>1, <4>2 DEF CancelSignal, TypeOK
    <3> QED
      BY <3>1, <3>2
  <2> QED
    BY <1>3, <2>1 DEF CancelSignal
<1>4. ASSUME NEW u \in Users, RequestNext(u), UNCHANGED <<run, record, broken>>
      PROVE  RecordsFollow'
  BY <1>4
<1>5. ASSUME NEW u \in Users, RequestNext(u)
      PROVE  RecordsFollow'
  BY <1>2, <1>3, <1>4, <1>5 DEF RequestNext, StartRead, UpdateRead, DeleteCheck, BackfillRead,
     Refuse, CancelRead, CancelWrite, UpdateCheck, UpdateWrite, DeleteWrite, BackfillWrite, Abandon
<1>6. ASSUME NEW S \in SUBSET Runs, DeleteRecords(S)
      PROVE  RecordsFollow'
  BY <1>6 DEF DeleteRecords, TypeOK
<1>7. CASE Stop
  <2>1. \A r \in Runs : run'[r].stage = run[r].stage
    BY <1>7, CancelTypes DEF Stop
  <2> QED
    BY <1>7, <2>1 DEF Stop
<1>8. CASE Die
  <2>1. ASSUME NEW r \in Runs
        PROVE  /\ Live(r) => run'[r].stage = "over" /\ r \in broken'
               /\ ~Live(r) => run'[r] = run[r]
               /\ record'[r] = record[r] /\ (r \in broken => r \in broken')
    BY <1>8 DEF Die, Over
  <2> QED
    BY <2>1 DEF Live, LiveStage
<1>9. CASE \/ \E p \in Paths : CreatePath(p) \/ RecoverWrite(p)
           \/ Serve \/ Start \/ UNCHANGED vars
  BY <1>9 DEF CreatePath, RecoverWrite, Serve, Start, vars
<1> QED
  BY <1>1, <1>5, <1>6, <1>7, <1>8, <1>9 DEF Next

-----------------------------------------------------------------------------
\* The copies of rows, step by step.

\* What a run has left behind is not lost: it keeps its path, and its outcome is at most
\* deleted.
Onward(r) ==
  /\ run[r] # Unused => run'[r] # Unused /\ run'[r].path = run[r].path
  /\ record[r] \in {"done", "failed", "deleted"} => record'[r] \in {record[r], "deleted"}
  /\ r \in broken => r \in broken'

\* A live run at a new stage is the same run.
LEMMA SameRun ==
  ASSUME TypeOK, NEW r \in Runs, Live(r), NEW new \in LiveRun, new.path = run[r].path,
         run' = [run EXCEPT ![r] = new]
  PROVE  \A q \in Runs : run[q] # Unused => run'[q] # Unused /\ run'[q].path = run[q].path
BY DEF TypeOK, LiveRun, LiveStage, Unused

LEMMA RunOnward ==
  ASSUME TypeOK, RecordsFollow, NEW r \in Runs, RunNext(r) \/ Progress(r)
  PROVE  \A q \in Runs : Onward(q)
<1> USE DEF database, bounds
<1>1. Live(r) /\ run[r] \in LiveRun
  BY LiveRunType DEF RunNext, Progress, CreateRecord, CreateRecordFails, Mark, CloseRecord, CloseRow,
                     Panic, Leave, Live, LiveStage
<1>2. /\ \A q \in Runs \ {r} : record'[q] = record[q]
      /\ record[r] \in {"done", "failed", "deleted"} => record'[r] \in {record[r], "deleted"}
      /\ broken \subseteq broken'
  BY DEF RunNext, Progress, CreateRecord, CreateRecordFails, Mark, CloseRecord, CloseRow, Panic, Leave,
         WriteRecord, RecordsFollow, TypeOK
<1>3. \A q \in Runs \ {r} : run'[q] = run[q]
  BY DEF RunNext, Progress, CreateRecord, CreateRecordFails, Mark, CloseRecord, CloseRow, Panic, Leave,
         SetStage, End, TypeOK
<1>4. run'[r] # Unused /\ run'[r].path = run[r].path
  <2>1. CASE CreateRecord(r) \/ CloseRow(r) \/ Panic(r)
    <3>1. PICK s \in LiveStage : run' = [run EXCEPT ![r].stage = s]
      BY <2>1 DEF CreateRecord, CloseRow, Panic, SetStage, LiveStage
    <3>2. [run[r] EXCEPT !.stage = s].path = run[r].path /\ [run[r] EXCEPT !.stage = s].stage = s
      BY <1>1 DEF LiveRun
    <3>3. run'[r] = [run[r] EXCEPT !.stage = s]
      BY <3>1 DEF TypeOK
    <3> QED
      BY <3>2, <3>3 DEF LiveStage, Unused
  <2>2. CASE CreateRecordFails(r) \/ Leave(r)
    BY <2>2 DEF CreateRecordFails, Leave, End, Over, Unused, TypeOK
  <2>3. CASE Mark(r) \/ \E outcome \in Outcomes : CloseRecord(r, outcome)
    <3>1. PICK s \in {"walking", "closing"}, st \in Status :
            run' = [run EXCEPT ![r].stage = s, ![r].copy = As(@, st)]
      BY <2>3 DEF Mark, CloseRecord, Status
    <3> DEFINE new == [run[r] EXCEPT !.stage = s, !.copy = As(run[r].copy, st)]
    <3>2. new.path = run[r].path /\ new.stage = s
      BY <1>1 DEF LiveRun
    <3>3. run'[r] = new
      BY <3>1 DEF TypeOK
    <3> HIDE DEF new
    <3> QED
      BY <3>2, <3>3 DEF Unused
  <2>4. CASE Progress(r)
    BY <1>1, <2>4 DEF Progress, Live, LiveStage, Unused
  <2> QED
    BY <2>1, <2>2, <2>3, <2>4 DEF RunNext
<1> QED
  BY <1>2, <1>3, <1>4 DEF Onward

\* Cancelling contexts leaves every run what it is otherwise.
LEMMA CancelsOnly ==
  ASSUME TypeOK, RunningIsLive, Stop \/ \E u \in Users, p \in Paths : CancelSignal(u, p)
  PROVE  /\ \A q \in Runs : /\ Live(q)' <=> Live(q)
                            /\ ~Live(q) => run'[q] = run[q]
                            /\ Live(q) => /\ run'[q] # Unused /\ run'[q].path = run[q].path
                                          /\ run'[q].copy = run[q].copy
         /\ UNCHANGED <<record, broken>>
<1>1. CASE Stop
  <2>1. ASSUME NEW q \in Runs
        PROVE  /\ run'[q].stage = run[q].stage /\ (~Live(q) => run'[q] = run[q])
               /\ Live(q) => /\ run'[q] # Unused /\ run'[q].path = run[q].path
                             /\ run'[q].copy = run[q].copy
    BY <1>1, CancelTypes DEF Stop, LiveRun, LiveStage, Unused, Live
  <2> QED
    BY <1>1, <2>1 DEF Stop, Live, database
<1>2. ASSUME NEW u \in Users, NEW p \in Paths, CancelSignal(u, p), running[p] # Nobody
      PROVE  /\ \A q \in Runs : /\ Live(q)' <=> Live(q)
                                /\ ~Live(q) => run'[q] = run[q]
                                /\ Live(q) => /\ run'[q] # Unused /\ run'[q].path = run[q].path
                                              /\ run'[q].copy = run[q].copy
             /\ UNCHANGED <<record, broken>>
  <2>1. running[p] \in Runs /\ Live(running[p])
    BY <1>2 DEF TypeOK, RunningIsLive
  <2> DEFINE new == [run[running[p]] EXCEPT !.canceled = TRUE]
  <2>2. /\ new \in LiveRun /\ new.stage = run[running[p]].stage
        /\ new.path = run[running[p]].path /\ new.copy = run[running[p]].copy
    BY <2>1, CancelTypes
  <2>3. run' = [run EXCEPT ![running[p]] = new]
    BY <1>2, <2>1 DEF CancelSignal, TypeOK
  <2> HIDE DEF new
  <2>4. run'[running[p]] = new /\ \A q \in Runs \ {running[p]} : run'[q] = run[q]
    BY <2>1, <2>3 DEF TypeOK
  <2>5. new # Unused /\ \A q \in Runs : Live(q) => run[q] # Unused
    BY <2>1, <2>2 DEF Live, LiveStage, Unused
  <2> QED
    BY <1>2, <2>1, <2>2, <2>4, <2>5 DEF CancelSignal, Live, database
<1>3. ASSUME NEW u \in Users, NEW p \in Paths, CancelSignal(u, p), running[p] = Nobody
      PROVE  run' = run /\ UNCHANGED <<record, broken>>
  BY <1>3 DEF CancelSignal, database
<1> QED
  BY <1>1, <1>2, <1>3 DEF Live, LiveStage, Unused

LEMMA StepOnward ==
  ASSUME TypeOK, RunningIsLive, RecordsFollow, [Next]_vars
  PROVE  \A q \in Runs : Onward(q)
<1> USE DEF database, bounds
<1>1. ASSUME NEW u \in Users, NEW r \in Runs, Reserve(u, r)
      PROVE  \A q \in Runs : Onward(q)
  BY <1>1 DEF Reserve, IsNext, Onward, TypeOK
<1>2. CASE Stop \/ \E u \in Users, p \in Paths : CancelSignal(u, p)
  BY <1>2, CancelsOnly DEF Onward
<1>3. ASSUME UNCHANGED <<run, record, broken>>
      PROVE  \A q \in Runs : Onward(q)
  BY <1>3 DEF Onward
<1>4. ASSUME NEW u \in Users, RequestNext(u)
      PROVE  \A q \in Runs : Onward(q)
  BY <1>1, <1>2, <1>3, <1>4 DEF RequestNext, StartRead, UpdateRead, DeleteCheck, BackfillRead,
     Refuse, CancelRead, CancelWrite, UpdateCheck, UpdateWrite, DeleteWrite, BackfillWrite, Abandon
<1>5. ASSUME NEW S \in SUBSET Runs, DeleteRecords(S)
      PROVE  \A q \in Runs : Onward(q)
  BY <1>5 DEF DeleteRecords, Onward, TypeOK
<1>6. CASE Die
  <2>1. ASSUME NEW q \in Runs
        PROVE  Onward(q)
    BY <1>6 DEF Die, Onward, Over, Unused
  <2> QED
    BY <2>1
<1>7. CASE \/ \E p \in Paths : CreatePath(p) \/ RecoverWrite(p)
           \/ Serve \/ Start \/ UNCHANGED vars
  BY <1>3, <1>7 DEF CreatePath, RecoverWrite, Serve, Start, vars
<1> QED
  BY <1>2, <1>4, <1>5, <1>6, <1>7, RunOnward DEF Next

\* A row shows after a step what some copy showed before it.
RowsFrom == \A p \in Paths : Recorded(p, row'[p].status)
RequestsFrom ==
  \A u \in Users : req'[u].kind \in CopyKind => Recorded(req'[u].path, req'[u].seen.status)
\* So does the copy of a run, except the one that has just closed its record.
RunsFrom ==
  \A r \in Runs : Live(r)' => \/ Recorded(run'[r].path, run'[r].copy.status)
                              \/ record'[r] \in {run'[r].copy.status, "deleted"}
                              \/ r \in broken'

LEMMA CopiesCarry ==
  ASSUME \A q \in Runs : Onward(q), RowsFrom, RequestsFrom, RunsFrom
  PROVE  CopiesAreRecorded'
<1>1. \A p \in Paths : Recorded(p, row[p].status)'
  BY DEF RowsFrom, Recorded, Onward
<1>2. \A u \in Users : (req[u].kind \in CopyKind => Recorded(req[u].path, req[u].seen.status))'
  BY DEF RequestsFrom, Recorded, Onward
<1>3. \A r \in Runs : (Live(r) => Recorded(run[r].path, run[r].copy.status))'
  <2> SUFFICES ASSUME NEW r \in Runs, Live(r)'
               PROVE  Recorded(run[r].path, run[r].copy.status)'
    OBVIOUS
  <2>1. CASE Recorded(run'[r].path, run'[r].copy.status)
    BY <2>1 DEF Recorded, Onward
  <2>2. CASE record'[r] \in {run'[r].copy.status, "deleted"} \/ r \in broken'
    <3>1. run'[r] # Unused
      BY DEF Live, LiveStage, Unused
    <3> QED
      BY <2>2, <3>1 DEF Recorded
  <2> QED
    BY <2>1, <2>2 DEF RunsFrom
<1> QED
  BY <1>1, <1>2, <1>3 DEF CopiesAreRecorded

\* A write of a copy, or none.
LEMMA WriteFrom ==
  ASSUME TypeOK, CopiesAreRecorded, NEW p \in Paths, NEW copy, Recorded(p, copy.status),
         row' = row \/ row' = WriteRow(p, copy)
  PROVE  RowsFrom
BY DEF TypeOK, CopiesAreRecorded, RowsFrom, WriteRow

LEMMA SameFrom ==
  ASSUME CopiesAreRecorded
  PROVE  /\ row' = row => RowsFrom
         /\ req' = req => RequestsFrom
         /\ run' = run => RunsFrom
BY DEF CopiesAreRecorded, RowsFrom, RequestsFrom, RunsFrom, Live

\* A status that is no outcome of a walk needs no record.
LEMMA NoOutcome ==
  ASSUME NEW p, NEW status, status \in {"none", "running", "canceled"}
  PROVE  Recorded(p, status)
BY DEF Recorded

LEMMA RunFrom ==
  ASSUME IInv, NEW r \in Runs, RunNext(r) \/ Progress(r)
  PROVE  RowsFrom /\ RequestsFrom /\ RunsFrom
<1> USE DEF IInv, database, bounds
<1>1. Live(r) /\ run[r] \in LiveRun
  BY LiveRunType DEF RunNext, Progress, CreateRecord, CreateRecordFails, Mark, CloseRecord, CloseRow,
                     Panic, Leave, Live, LiveStage
<1>2. RequestsFrom
  <2>1. req' = req
    BY DEF RunNext, Progress, CreateRecord, CreateRecordFails, Mark, CloseRecord, CloseRow, Panic, Leave
  <2> QED
    BY <2>1, SameFrom
<1>3. /\ run[r].path \in Paths /\ run[r].copy \in Row
      /\ Recorded(run[r].path, run[r].copy.status)
  BY <1>1 DEF LiveRun, CopiesAreRecorded
<1>4. RowsFrom
  <2>1. CASE Mark(r)
    <3>1. As(run[r].copy, "running").status = "running"
      BY <1>3, AsType DEF Status
    <3> QED
      BY <1>3, <2>1, <3>1, NoOutcome, WriteFrom DEF Mark
  <2>2. CASE Progress(r) \/ CloseRow(r)
    BY <1>3, <2>2, WriteFrom DEF Progress, CloseRow, WriteOrFault
  <2>3. CASE row' = row
    BY <2>3, SameFrom
  <2> QED
    BY <2>1, <2>2, <2>3 DEF RunNext, CreateRecord, CreateRecordFails, CloseRecord, Panic, Leave
<1>5. ASSUME NEW new, run' = [run EXCEPT ![r] = new],
             \/ new.stage \notin LiveStage
             \/ Recorded(new.path, new.copy.status)
             \/ record'[r] \in {new.copy.status, "deleted"} \/ r \in broken'
      PROVE  RunsFrom
  <2>1. run'[r] = new /\ \A q \in Runs \ {r} : run'[q] = run[q]
    BY <1>5 DEF TypeOK
  <2> QED
    BY <1>5, <2>1 DEF RunsFrom, CopiesAreRecorded, Live
<1>6. RunsFrom
  <2>1. CASE CreateRecord(r) \/ CloseRow(r) \/ Panic(r)
    <3>1. PICK s \in LiveStage : run' = [run EXCEPT ![r].stage = s]
      BY <2>1 DEF CreateRecord, CloseRow, Panic, SetStage, LiveStage
    <3> DEFINE new == [run[r] EXCEPT !.stage = s]
    <3>2. new.path = run[r].path /\ new.copy = run[r].copy
      BY <1>1 DEF LiveRun
    <3>3. run' = [run EXCEPT ![r] = new]
      BY <3>1 DEF TypeOK
    <3> HIDE DEF new
    <3> QED
      BY <1>3, <1>5, <3>2, <3>3
  <2>2. CASE CreateRecordFails(r) \/ Leave(r)
    BY <1>5, <2>2 DEF CreateRecordFails, Leave, End, Over, LiveStage
  <2>3. CASE Mark(r)
    <3> DEFINE new == [run[r] EXCEPT !.stage = "walking", !.copy = As(run[r].copy, "running")]
    <3>1. new.path = run[r].path /\ new.copy = As(run[r].copy, "running")
      BY <1>1 DEF LiveRun
    <3>2. run' = [run EXCEPT ![r] = new]
      BY <2>3 DEF Mark, TypeOK
    <3>3. new.copy.status = "running"
      BY <1>3, <3>1, AsType DEF Status
    <3> HIDE DEF new
    <3> QED
      BY <1>5, <3>2, <3>3, NoOutcome
  <2>4. ASSUME NEW outcome \in Outcomes, CloseRecord(r, outcome)
        PROVE  RunsFrom
    <3> DEFINE new == [run[r] EXCEPT !.stage = "closing", !.copy = As(run[r].copy, outcome)]
    <3>1. new.path = run[r].path /\ new.copy = As(run[r].copy, outcome)
      BY <1>1 DEF LiveRun
    <3>2. run' = [run EXCEPT ![r] = new]
      BY <2>4 DEF CloseRecord, TypeOK
    <3>3. new.copy.status = outcome
      BY <1>3, <3>1, AsType DEF Status
    <3>4. record'[r] \in {outcome, "deleted"} \/ r \in broken'
      BY <2>4 DEF CloseRecord, WriteRecord, TypeOK
    <3> HIDE DEF new
    <3> QED
      BY <1>5, <3>2, <3>3, <3>4
  <2>5. CASE Progress(r)
    BY <2>5, SameFrom DEF Progress
  <2> QED
    BY <2>1, <2>2, <2>3, <2>4, <2>5 DEF RunNext
<1> QED
  BY <1>2, <1>4, <1>6

LEMMA RequestFrom ==
  ASSUME IInv, NEW u \in Users, RequestNext(u)
  PROVE  RowsFrom /\ RequestsFrom /\ RunsFrom
<1> USE DEF IInv, database, bounds
<1>1. ASSUME NEW p \in Paths, StartRead(u, p) \/ UpdateRead(u, p) \/ BackfillRead(u, p)
      PROVE  RowsFrom /\ RequestsFrom /\ RunsFrom
  <2>1. row' = row /\ run' = run
    BY <1>1 DEF StartRead, UpdateRead, BackfillRead
  <2>2. PICK kind \in CopyKind : req' = [req EXCEPT ![u] = [kind |-> kind, path |-> p, seen |-> row[p]]]
    BY <1>1 DEF StartRead, UpdateRead, BackfillRead, Request, CopyKind
  <2>3. RequestsFrom
    BY <2>2 DEF RequestsFrom, CopiesAreRecorded, TypeOK
  <2> QED
    BY <2>1, <2>3, SameFrom
<1>2. ASSUME NEW p \in Paths, CancelSignal(u, p) \/ DeleteCheck(u, p)
      PROVE  RowsFrom /\ RequestsFrom /\ RunsFrom
  <2>1. row' = row
    BY <1>2 DEF CancelSignal, DeleteCheck
  <2>2. PICK kind \in {"cancel", "delete"} : req' = [req EXCEPT ![u] = [kind |-> kind, path |-> p, seen |-> NoCopy]]
    BY <1>2 DEF CancelSignal, DeleteCheck, Request
  <2>3. RequestsFrom
    BY <2>2 DEF RequestsFrom, CopiesAreRecorded, TypeOK, CopyKind
  <2>4. RunsFrom
    <3>1. CASE DeleteCheck(u, p)
      BY <3>1, SameFrom DEF DeleteCheck
    <3>2. CASE CancelSignal(u, p)
      BY <3>2, CancelsOnly DEF RunsFrom, CopiesAreRecorded
    <3> QED
      BY <1>2, <3>1, <3>2
  <2> QED
    BY <2>1, <2>3, <2>4, SameFrom
<1>3. ASSUME Answer(u)
      PROVE  RequestsFrom
  BY <1>3 DEF Answer, NoReq, CopyKind, RequestsFrom, CopiesAreRecorded, TypeOK
<1>4. ASSUME NEW r \in Runs, Reserve(u, r)
      PROVE  RowsFrom /\ RequestsFrom /\ RunsFrom
  <2>1. row' = row /\ Answer(u)
    BY <1>4 DEF Reserve, IsNext
  <2>2. Recorded(req[u].path, req[u].seen.status)
    BY <1>4 DEF Reserve, IsNext, Asks, CopyKind, CopiesAreRecorded
  <2>3. RunsFrom
    BY <1>4, <2>2 DEF Reserve, IsNext, RunsFrom, CopiesAreRecorded, Live, TypeOK
  <2> QED
    BY <1>3, <2>1, <2>3, SameFrom
<1>5. CASE Refuse(u) \/ Abandon(u)
  BY <1>3, <1>5, SameFrom DEF Refuse, Abandon
<1>6. CASE CancelRead(u)
  <2>1. row' = row /\ run' = run
    BY <1>6 DEF CancelRead
  <2>2. req[u].path \in Paths
    BY <1>6, ReqPathType DEF CancelRead, Asks
  <2>3. ASSUME GoesOn(u, "canceling", row[req[u].path])
        PROVE  RequestsFrom
    <3> DEFINE new == [req[u] EXCEPT !.kind = "canceling", !.seen = row[req[u].path]]
    <3>1. req' = [req EXCEPT ![u] = new]
      BY <2>3 DEF GoesOn, TypeOK
    <3>2. req[u] \in [kind : {"cancel", "delete"}, path : Paths, seen : {NoCopy}]
      BY <1>6 DEF CancelRead, Asks, TypeOK, Req, NoReq, CopyKind
    <3>3. new.path = req[u].path /\ new.seen = row[req[u].path]
      BY <3>2
    <3> HIDE DEF new
    <3>4. Recorded(new.path, new.seen.status)
      BY <2>2, <3>3 DEF CopiesAreRecorded
    <3> QED
      BY <3>1, <3>4 DEF RequestsFrom, CopiesAreRecorded, TypeOK
  <2> QED
    BY <1>3, <1>6, <2>1, <2>3, SameFrom DEF CancelRead
<1>7. CASE UpdateCheck(u)
  <2>1. req[u] \in [kind : CopyKind, path : Paths, seen : Row]
    BY <1>7, CopyReqType DEF UpdateCheck, Asks, CopyKind
  <2> DEFINE new == [req[u] EXCEPT !.kind = "updating", !.seen = req[u].seen]
  <2>2. req' = [req EXCEPT ![u] = new]
    BY <1>7 DEF UpdateCheck, GoesOn, TypeOK
  <2>3. new.path = req[u].path /\ new.seen = req[u].seen
    BY <2>1
  <2> HIDE DEF new
  <2>4. Recorded(new.path, new.seen.status)
    BY <2>1, <2>3 DEF CopiesAreRecorded
  <2>5. RequestsFrom
    BY <2>2, <2>4 DEF RequestsFrom, CopiesAreRecorded, TypeOK
  <2> QED
    BY <1>7, <2>5, SameFrom DEF UpdateCheck
<1>8. CASE CancelWrite(u) \/ BackfillWrite(u) \/ UpdateWrite(u)
  <2>1. /\ req[u].path \in Paths /\ req[u].seen \in Row
        /\ Recorded(req[u].path, req[u].seen.status)
    BY <1>8, CopyReqType DEF CancelWrite, BackfillWrite, UpdateWrite, Asks, CopyKind, CopiesAreRecorded
  <2>2. As(req[u].seen, "canceled").status = "canceled"
    BY <2>1, AsType DEF Status, Outcomes
  <2>3. \A c \in 0 .. MaxEdits : [req[u].seen EXCEPT !.cfg = c].status = req[u].seen.status
    BY <2>1 DEF Row
  <2>4. req[u].seen.cfg \in 0 .. MaxEdits
    BY <2>1 DEF Row
  <2>5. RowsFrom
    <3>1. CASE CancelWrite(u)
      BY <2>1, <2>2, <3>1, NoOutcome, WriteFrom DEF CancelWrite
    <3>2. CASE BackfillWrite(u)
      BY <2>1, <3>2, WriteFrom DEF BackfillWrite
    <3>3. CASE UpdateWrite(u)
      <4>1. PICK c \in req[u].seen.cfg + 1 .. MaxEdits :
              row' = WriteRow(req[u].path, [req[u].seen EXCEPT !.cfg = c])
        BY <3>3 DEF UpdateWrite
      <4>2. [req[u].seen EXCEPT !.cfg = c].status = req[u].seen.status
        BY <2>3, <2>4, SyncAssumption
      <4> QED
        BY <2>1, <4>1, <4>2, WriteFrom
    <3> QED
      BY <1>8, <3>1, <3>2, <3>3
  <2>6. run' = run /\ Answer(u)
    BY <1>8 DEF CancelWrite, BackfillWrite, UpdateWrite
  <2> QED
    BY <1>3, <2>5, <2>6, SameFrom
<1>9. CASE DeleteWrite(u)
  <2>1. req[u].path \in Paths
    BY <1>9, ReqPathType DEF DeleteWrite, Asks
  <2>2. RowsFrom
    BY <1>9, <2>1, NoOutcome DEF DeleteWrite, Blank, RowsFrom, CopiesAreRecorded, TypeOK
  <2> QED
    BY <1>3, <1>9, <2>2, SameFrom DEF DeleteWrite
<1> QED
  BY <1>1, <1>2, <1>4, <1>5, <1>6, <1>7, <1>8, <1>9 DEF RequestNext

LEMMA ProcessFrom ==
  ASSUME IInv,
         \/ \E p \in Paths : CreatePath(p) \/ RecoverWrite(p)
         \/ \E S \in SUBSET Runs : DeleteRecords(S)
         \/ Serve \/ Start \/ Stop \/ Die \/ UNCHANGED vars
  PROVE  RowsFrom /\ RequestsFrom /\ RunsFrom
<1> USE DEF IInv, database, bounds
<1>1. ASSUME NEW p \in Paths, CreatePath(p)
      PROVE  RowsFrom /\ RequestsFrom /\ RunsFrom
  <2>1. RowsFrom
    BY <1>1, NoOutcome DEF CreatePath, Blank, RowsFrom, CopiesAreRecorded, TypeOK
  <2> QED
    BY <1>1, <2>1, SameFrom DEF CreatePath
<1>2. ASSUME NEW p \in Paths, RecoverWrite(p)
      PROVE  RowsFrom /\ RequestsFrom /\ RunsFrom
  <2>1. heal[p] \in Row
    BY <1>2 DEF RecoverWrite, TypeOK
  <2>2. As(heal[p], "canceled").status = "canceled"
    BY <2>1, AsType DEF Status, Outcomes
  <2>3. RowsFrom
    BY <1>2, <2>2, NoOutcome, WriteFrom DEF RecoverWrite, WriteOrFault
  <2> QED
    BY <1>2, <2>3, SameFrom DEF RecoverWrite
<1>3. CASE (\E S \in SUBSET Runs : DeleteRecords(S)) \/ Serve \/ Start \/ UNCHANGED vars
  BY <1>3, SameFrom DEF DeleteRecords, Serve, Start, vars
<1>4. CASE Stop
  <2>1. RunsFrom
    BY <1>4, CancelsOnly DEF RunsFrom, CopiesAreRecorded
  <2> QED
    BY <1>4, <2>1, SameFrom DEF Stop
<1>5. CASE Die
  <2>1. RequestsFrom
    BY <1>5 DEF Die, RequestsFrom, NoReq, CopyKind
  <2>2. RunsFrom
    BY <1>5 DEF Die, RunsFrom, Live, Over, LiveStage
  <2> QED
    BY <1>5, <2>1, <2>2, SameFrom DEF Die
<1> QED
  BY <1>1, <1>2, <1>3, <1>4, <1>5

\* CopiesAreRecorded is inductive relative to the other three.
LEMMA StepCopies ==
  ASSUME IInv, [Next]_vars
  PROVE  CopiesAreRecorded'
<1>1. RowsFrom /\ RequestsFrom /\ RunsFrom
  BY RunFrom, RequestFrom, ProcessFrom DEF Next
<1>2. \A q \in Runs : Onward(q)
  BY StepOnward DEF IInv
<1> QED
  BY <1>1, <1>2, CopiesCarry

-----------------------------------------------------------------------------
\* The strengthening of the invariants below that is inductive: without RecordsFollow,
\* nothing would say that a run that reaches its last stages has closed its record.
THEOREM Inductive == Spec => []IInv
<1>1. Init => IInv
  <2> SUFFICES ASSUME Init PROVE IInv
    OBVIOUS
  <2>1. RunningIsLive /\ RecordsFollow
    BY DEF Init, RunningIsLive, RecordsFollow, Live, LiveStage, Unused
  <2>2. CopiesAreRecorded
    BY DEF Init, CopiesAreRecorded, Recorded, Blank, NoReq, CopyKind, Live, LiveStage, Unused
  <2> QED
    BY <2>1, <2>2, InitTypes DEF IInv
<1>2. IInv /\ [Next]_vars => IInv'
  BY StepTypes, StepRunning, StepRecords, StepCopies DEF IInv
<1> QED
  BY <1>1, <1>2, PTL DEF Spec

\* Rows, runs, requests and counters stay well formed, and a run whose goroutine walks
\* carries a copy of its row that is marked running.
THEOREM TypeCorrect == Spec => []TypeOK
<1>1. IInv => TypeOK
  BY DEF IInv
<1> QED
  BY <1>1, Inductive, PTL

\* The map of running syncs holds exactly the live runs, so StartSync refuses a second
\* run of a path for as long as the first one lives, and not longer.
THEOREM OneRunPerPath == Spec => []RunningIsLive
<1>1. IInv => RunningIsLive
  BY DEF IInv
<1> QED
  BY <1>1, Inductive, PTL

\* finishSync leaves no record open, unless the run was cut short by a panic or a crash,
\* or its write failed.
THEOREM RecordsClose == Spec => []RecordsAreClosed
<1>1. IInv => RecordsAreClosed
  <2> SUFFICES ASSUME IInv, NEW r \in Runs, record[r] = "running", ~Live(r)
               PROVE  r \in broken
    BY DEF RecordsAreClosed
  <2>1. run[r].stage \in {"unused", "over"}
    BY DEF IInv, TypeOK, Run, LiveRun, Live, Unused, Over
  <2> QED
    BY <2>1 DEF IInv, RecordsFollow
<1> QED
  BY <1>1, Inductive, PTL

\* A path shows an outcome only if one of its runs has recorded it, although runs, requests
\* and the recovery write back copies of the row that they read earlier.
THEOREM OutcomesRecorded == Spec => []OutcomeIsRecorded
<1>1. IInv => OutcomeIsRecorded
  BY DEF IInv, CopiesAreRecorded, Recorded, OutcomeIsRecorded
<1> QED
  BY <1>1, Inductive, PTL

-----------------------------------------------------------------------------
\* The refinement of SyncPromise, by the kinds of steps that change the map or a record.

\* The run that makes a step between its reservation and its end holds its path.
LEMMA HolderSteps ==
  ASSUME IInv, NEW r \in Runs, Live(r)
  PROVE  run[r].path \in Paths /\ running[run[r].path] = r /\ r # Nobody
BY LiveRunType, SyncAssumption DEF IInv, RunningIsLive, LiveRun

\* The steps of a run map to steps of SyncPromise, or to none.
LEMMA PromiseRunStep ==
  ASSUME IInv, NEW r \in Runs, RunNext(r) \/ Progress(r)
  PROVE  Promise!Next \/ UNCHANGED <<running, Log>>
<1> USE DEF database, bounds
<1>1. Live(r)
  BY DEF RunNext, Progress, CreateRecord, CreateRecordFails, Mark, CloseRecord, CloseRow,
         Panic, Leave, Live, LiveStage
<1>2. run[r].path \in Paths /\ running[run[r].path] = r /\ r # Nobody
  BY <1>1, HolderSteps
<1>3. CASE CreateRecord(r)
  <2>1. record[r] = "none" /\ Log[r] = "none"
    BY <1>3 DEF CreateRecord, IInv, RecordsFollow, Log
  <2>2. Log' = [Log EXCEPT ![r] = "open"]
    BY <1>3 DEF CreateRecord, Log, IInv, TypeOK
  <2>3. Promise!Open(run[r].path)
    BY <1>2, <1>3, <2>1, <2>2 DEF CreateRecord, Promise!Open
  <2> QED
    BY <1>2, <2>3 DEF Promise!Next
<1>4. CASE CreateRecordFails(r) \/ Leave(r)
  <2>1. running' = [p \in Paths |-> IF p \in {run[r].path} THEN Nobody ELSE running[p]]
    BY <1>2, <1>4 DEF CreateRecordFails, Leave, ClearRunning, IInv, TypeOK
  <2>2. Log' = Log
    BY <1>4 DEF CreateRecordFails, Leave, Log
  <2>3. Promise!Release({run[r].path})
    BY <2>1, <2>2 DEF Promise!Release
  <2> QED
    BY <1>2, <2>3 DEF Promise!Next
<1>5. ASSUME NEW outcome \in Outcomes, CloseRecord(r, outcome)
      PROVE  Promise!Next \/ UNCHANGED <<running, Log>>
  <2>1. record[r] \in {"running", "deleted"} /\ UNCHANGED running
    BY <1>5 DEF CloseRecord, IInv, RecordsFollow
  <2>2. CASE UNCHANGED record
    BY <2>1, <2>2 DEF Log
  <2>3. CASE record[r] = "running" /\ record' = [record EXCEPT ![r] = outcome]
    <3>1. Log[r] = "open" /\ Log' = [Log EXCEPT ![r] = outcome]
      BY <2>3 DEF Log, Outcomes, IInv, TypeOK
    <3>2. Promise!Close(run[r].path, outcome)
      BY <1>2, <2>1, <3>1 DEF Promise!Close
    <3> QED
      BY <1>2, <3>2 DEF Promise!Next, Promise!Outcomes, Outcomes
  <2> QED
    BY <1>5, <2>1, <2>2, <2>3 DEF CloseRecord, WriteRecord
<1>6. CASE Progress(r)
  <2>1. record[r] \in {"running", "deleted"}
    BY <1>6 DEF Progress, IInv, RecordsFollow
  <2>2. record' = record /\ running' = running
    BY <1>6, <2>1 DEF Progress, WriteRecord, IInv, TypeOK
  <2> QED
    BY <2>2 DEF Log
<1>7. CASE Mark(r) \/ CloseRow(r) \/ Panic(r)
  BY <1>7 DEF Mark, CloseRow, Panic, Log
<1> QED
  BY <1>3, <1>4, <1>5, <1>6, <1>7 DEF RunNext

\* The steps of a request: only a reservation takes a path.
LEMMA PromiseRequestStep ==
  ASSUME IInv, NEW u \in Users, RequestNext(u)
  PROVE  Promise!Next \/ UNCHANGED <<running, Log>>
<1> USE DEF database, bounds
<1>1. ASSUME NEW r \in Runs, Reserve(u, r)
      PROVE  Promise!Next
  <2>1. req[u].path \in Paths
    BY <1>1, CopyReqType DEF Reserve, IsNext, Asks, CopyKind, IInv
  <2>2. record[r] = "none" /\ ~Live(r)
    BY <1>1 DEF Reserve, IsNext, Unused, IInv, RecordsFollow, Live, LiveStage
  <2>3. \A q \in Paths : running[q] # r
    BY <2>2, SyncAssumption DEF IInv, RunningIsLive
  <2>4. Log[r] = "none" /\ Log' = Log
    BY <1>1, <2>2 DEF Reserve, IsNext, Log
  <2>5. Promise!Take(req[u].path, r)
    BY <1>1, <2>3, <2>4 DEF Reserve, IsNext, Promise!Take
  <2> QED
    BY <2>1, <2>5 DEF Promise!Next
<1>2. CASE UNCHANGED <<running, record>>
  BY <1>2 DEF Log
<1> QED
  BY <1>1, <1>2 DEF RequestNext, StartRead, CancelSignal, UpdateRead, DeleteCheck, BackfillRead,
     Refuse, CancelRead, CancelWrite, UpdateCheck, UpdateWrite, DeleteWrite, BackfillWrite, Abandon

\* All steps.
LEMMA PromiseStep ==
  ASSUME IInv, [Next]_vars
  PROVE  [Promise!Next]_<<running, Log>>
<1> USE DEF database, bounds
<1>1. ASSUME NEW S \in SUBSET Runs, DeleteRecords(S)
      PROVE  Promise!Next
  <2>1. UNCHANGED running /\ \A r \in S : Log[r] # "none"
    BY <1>1 DEF DeleteRecords, Log
  <2>2. Log' = [r \in Runs |-> IF r \in S THEN "deleted" ELSE Log[r]]
    BY <1>1 DEF DeleteRecords, Log
  <2>3. Promise!Erase(S)
    BY <2>1, <2>2 DEF Promise!Erase
  <2> QED
    BY <2>3 DEF Promise!Next
<1>2. CASE Die
  <2>1. running' = [p \in Paths |-> IF p \in Paths THEN Nobody ELSE running[p]] /\ Log' = Log
    BY <1>2 DEF Die, Log
  <2>2. Promise!Release(Paths)
    BY <2>1 DEF Promise!Release
  <2> QED
    BY <2>2 DEF Promise!Next
<1>3. CASE \/ \E p \in Paths : CreatePath(p) \/ RecoverWrite(p)
           \/ Serve \/ Start \/ Stop \/ UNCHANGED vars
  BY <1>3 DEF CreatePath, RecoverWrite, Serve, Start, Stop, vars, Log
<1> QED
  BY <1>1, <1>2, <1>3, PromiseRunStep, PromiseRequestStep DEF Next

\* What StartSync promises is kept by every behaviour: one run per path, and records
\* opened and closed only by the run that holds the path, closed for good.
THEOREM KeepsPromise == Spec => PromiseSpec
<1>1. Init => Promise!Init
  BY DEF Init, Promise!Init, Log
<1>2. IInv /\ [Next]_vars => [Promise!Next]_<<running, Log>>
  BY PromiseStep
<1> QED
  BY <1>1, <1>2, Inductive, PTL DEF Spec, PromiseSpec, Promise!Spec

-----------------------------------------------------------------------------
\* What the promise means for the history records.

\* A record shows an outcome only from its own run, while that run still holds its path;
\* once closed, or deleted by the user, it stays so.
RecordsAreFinal ==
  [][\A r \in Runs :
       /\ record[r] \in Outcomes => record'[r] \in {record[r], "deleted"}
       /\ record[r] = "deleted" => record'[r] = "deleted"
       /\ record'[r] \in Outcomes /\ record[r] \notin Outcomes =>
            record[r] = "running" /\ running[run[r].path] = r]_vars

LEMMA LogIsRecord ==
  ASSUME NEW r \in Runs
  PROVE  Log[r] = IF record[r] = "running" THEN "open" ELSE record[r]
BY DEF Log

LEMMA PromiseRecords ==
  ASSUME [Promise!Next]_<<running, Log>>, NEW r \in Runs, Log'[r] # Log[r]
  PROVE  \/ Log[r] # "none" /\ Log'[r] = "deleted"
         \/ Log[r] = "none" /\ Log'[r] = "open"
         \/ \E p \in Paths : running[p] = r /\ running[p] # Nobody /\ Log[r] = "open" /\ Log'[r] \in Outcomes
<1>0. DOMAIN Log = Runs
  BY DEF Log
<1>1. CASE UNCHANGED Log
  BY <1>1
<1>2. ASSUME NEW p \in Paths, Promise!Open(p)
      PROVE  Log[r] = "none" /\ Log'[r] = "open"
  <2>1. Log' = [Log EXCEPT ![running[p]] = "open"] /\ Log[running[p]] = "none"
    BY <1>2 DEF Promise!Open
  <2>2. r = running[p]
    BY <1>0, <2>1
  <2> QED
    BY <1>0, <2>1, <2>2
<1>3. ASSUME NEW p \in Paths, NEW outcome \in Promise!Outcomes, Promise!Close(p, outcome)
      PROVE  running[p] = r /\ running[p] # Nobody /\ Log[r] = "open" /\ Log'[r] \in Outcomes
  <2>1. Log' = [Log EXCEPT ![running[p]] = outcome] /\ Log[running[p]] = "open" /\ running[p] # Nobody
    BY <1>3 DEF Promise!Close
  <2>2. r = running[p]
    BY <1>0, <2>1
  <2> QED
    BY <1>0, <1>3, <2>1, <2>2 DEF Promise!Outcomes, Outcomes
<1>4. ASSUME NEW S \in SUBSET Runs, Promise!Erase(S)
      PROVE  Log[r] # "none" /\ Log'[r] = "deleted"
  BY <1>4 DEF Promise!Erase
<1>5. ASSUME \/ \E p \in Paths, q \in Runs : Promise!Take(p, q)
             \/ \E S \in SUBSET Paths : Promise!Release(S)
      PROVE  UNCHANGED Log
  BY <1>5 DEF Promise!Take, Promise!Release
<1> QED
  BY <1>1, <1>2, <1>3, <1>4, <1>5 DEF Promise!Next

LEMMA FinalStep ==
  ASSUME IInv, IInv', [Next]_vars, NEW r \in Runs
  PROVE  /\ record[r] \in Outcomes => record'[r] \in {record[r], "deleted"}
         /\ record[r] = "deleted" => record'[r] = "deleted"
         /\ record'[r] \in Outcomes /\ record[r] \notin Outcomes =>
              record[r] = "running" /\ running[run[r].path] = r
<1> USE DEF Outcomes, Status
<1>1. record[r] \in Status \union {"deleted"} /\ record'[r] \in Status \union {"deleted"}
  BY DEF IInv, TypeOK
<1>2. /\ Log[r] = IF record[r] = "running" THEN "open" ELSE record[r]
      /\ Log'[r] = IF record'[r] = "running" THEN "open" ELSE record'[r]
  BY DEF Log
<1>3. CASE Log'[r] = Log[r]
  BY <1>1, <1>2, <1>3
<1>4. CASE Log'[r] # Log[r]
  <2>1. \/ Log[r] # "none" /\ Log'[r] = "deleted"
        \/ Log[r] = "none" /\ Log'[r] = "open"
        \/ \E p \in Paths : running[p] = r /\ running[p] # Nobody /\ Log[r] = "open" /\ Log'[r] \in Outcomes
    BY <1>4, PromiseStep, PromiseRecords
  <2>2. CASE Log[r] # "none" /\ Log'[r] = "deleted"
    BY <1>1, <1>2, <2>2
  <2>3. CASE Log[r] = "none" /\ Log'[r] = "open"
    BY <1>1, <1>2, <2>3
  <2>4. ASSUME NEW p \in Paths, running[p] = r, running[p] # Nobody, Log[r] = "open", Log'[r] \in Outcomes
        PROVE  record[r] = "running" /\ running[run[r].path] = r
    <3>1. run[r].path = p
      BY <2>4 DEF IInv, RunningIsLive
    <3> QED
      BY <1>1, <1>2, <2>4, <3>1
  <2> QED
    BY <1>1, <1>2, <2>1, <2>2, <2>3, <2>4
<1> QED
  BY <1>3, <1>4

\* The history is not rewritten: no late finishSync, progress update or recovery changes a
\* closed record, brings a deleted one back, or closes the record of another run.
THEOREM RecordsStay == Spec => RecordsAreFinal
<1>1. IInv /\ IInv' /\ [Next]_vars =>
        [\A r \in Runs :
           /\ record[r] \in Outcomes => record'[r] \in {record[r], "deleted"}
           /\ record[r] = "deleted" => record'[r] = "deleted"
           /\ record'[r] \in Outcomes /\ record[r] \notin Outcomes =>
                record[r] = "running" /\ running[run[r].path] = r]_vars
  BY FinalStep
<1> QED
  BY <1>1, Inductive, PTL DEF Spec, RecordsAreFinal
=============================================================================
