--------------------------- MODULE DownloadToFile ---------------------------
(***************************************************************************)
(* downloadToFile (internal/service/strm_queue.go): the body of a link is  *)
(* copied into "<target>.tmp", which is then renamed over the target.  The *)
(* temporary name depends on the target only, so two executions for one    *)
(* target share it, and nothing in downloadToFile keeps them apart.  The   *)
(* directory maps names to inodes; a writer keeps its inode open whatever  *)
(* happens to the name.                                                    *)
(***************************************************************************)
EXTENDS Integers

CONSTANTS
  Writers,      \* executions of downloadToFile for the same target
  Blocks,       \* the body is blocks 1..Blocks
  Inodes,       \* inodes that os.Create may allocate
  None,         \* no inode
  MaxFailures   \* bound on failed copies, failed renames and crashes

ASSUME FileAssumption ==
  /\ Blocks \in Nat \ {0}
  /\ None \notin Inodes
  /\ MaxFailures \in Nat

VARIABLES
  tmp,          \* inode named "<target>.tmp", or None
  target,       \* inode named "<target>", or None
  content,      \* inode -> the blocks of the body it holds
  used,         \* inodes allocated so far
  pc,           \* writer -> where it is
  fd,           \* writer -> the inode it has open, or None
  pos,          \* writer -> blocks written so far
  returned,     \* writers whose last call returned without an error
  failures,     \* failures and crashes so far (bound)
  contended     \* history: inodes opened while another execution was yet to rename

fileVars == <<tmp, target, content, used, pc, fd, pos, returned, failures, contended>>

Body == 1..Blocks
PCs == {"idle", "copying", "discard", "rename"}

Failure == failures < MaxFailures /\ failures' = failures + 1

Goto(w, l) == pc' = [pc EXCEPT ![w] = l]

\* Executions between os.Create and os.Rename, which will rename whatever has the name
\* by then.
Renamers == {w \in Writers : pc[w] \in {"copying", "rename"}}

\* os.Create truncates the inode that has the name, or makes a new one.  A status
\* other than 2xx or an error before this point changes no file.
Create(w) ==
  /\ pc[w] = "idle"
  /\ \E i \in Inodes :
       /\ i = tmp \/ (tmp = None /\ i \notin used)
       /\ tmp' = i
       /\ used' = used \union {i}
       /\ fd' = [fd EXCEPT ![w] = i]
       /\ content' = [content EXCEPT ![i] = {}]
       /\ contended' = IF Renamers = {} THEN contended \ {i} ELSE contended \union {i}
  /\ pos' = [pos EXCEPT ![w] = 0]
  /\ returned' = returned \ {w}
  /\ Goto(w, "copying")
  /\ UNCHANGED <<target, failures>>

\* Mutant: one block too many.
WriteBlock_PastEnd(w) ==
  /\ pc[w] = "copying"
  /\ pos[w] <= Blocks
  /\ pos' = [pos EXCEPT ![w] = @ + 1]
  /\ UNCHANGED <<tmp, target, content, used, pc, fd, returned, failures, contended>>

\* io.Copy writes at the writer's own offset.
WriteBlock(w) ==
  /\ pc[w] = "copying"
  /\ pos[w] < Blocks
  /\ pos' = [pos EXCEPT ![w] = @ + 1]
  /\ content' = [content EXCEPT ![fd[w]] = @ \union {pos[w] + 1}]
  /\ UNCHANGED <<tmp, target, used, pc, fd, returned, failures, contended>>

\* Mutant: a short copy passes for a whole one.
CopyEnds_Short(w) ==
  /\ pc[w] = "copying"
  /\ fd' = [fd EXCEPT ![w] = None]
  /\ Goto(w, "rename")
  /\ UNCHANGED <<tmp, target, content, used, pos, returned, failures, contended>>

CopyEnds(w) ==
  /\ pc[w] = "copying"
  /\ pos[w] = Blocks
  /\ fd' = [fd EXCEPT ![w] = None]
  /\ Goto(w, "rename")
  /\ UNCHANGED <<tmp, target, content, used, pos, returned, failures, contended>>

\* The copy or the close fails.
CopyFails(w) ==
  /\ pc[w] = "copying"
  /\ Failure
  /\ fd' = [fd EXCEPT ![w] = None]
  /\ Goto(w, "discard")
  /\ UNCHANGED <<tmp, target, content, used, pos, returned, contended>>

\* Mutant: the error of the copy is swallowed.
Discard_NoError(w) ==
  /\ pc[w] = "discard"
  /\ tmp' = None
  /\ returned' = returned \union {w}
  /\ Goto(w, "idle")
  /\ UNCHANGED <<target, content, used, fd, pos, failures, contended>>

\* os.Remove(tmp): by name.
Discard(w) ==
  /\ pc[w] = "discard"
  /\ tmp' = None
  /\ Goto(w, "idle")
  /\ UNCHANGED <<target, content, used, fd, pos, returned, failures, contended>>

\* os.Rename(tmp, target): by name.
Rename(w) ==
  /\ pc[w] = "rename"
  /\ tmp # None
  /\ target' = tmp
  /\ tmp' = None
  /\ returned' = returned \union {w}
  /\ Goto(w, "idle")
  /\ UNCHANGED <<content, used, fd, pos, failures, contended>>

\* The name is gone, or the system refuses: the temporary file stays as it is.
RenameFails(w) ==
  /\ pc[w] = "rename"
  /\ \/ tmp = None /\ UNCHANGED failures
     \/ Failure
  /\ Goto(w, "idle")
  /\ UNCHANGED <<tmp, target, content, used, fd, pos, returned, contended>>

\* The process dies: the files stay as they are.
Crash ==
  /\ Failure
  /\ pc' = [w \in Writers |-> "idle"]
  /\ fd' = [w \in Writers |-> None]
  /\ UNCHANGED <<tmp, target, content, used, pos, returned, contended>>

FileInit ==
  /\ tmp = None
  /\ target = None
  /\ content = [i \in Inodes |-> {}]
  /\ used = {}
  /\ pc = [w \in Writers |-> "idle"]
  /\ fd = [w \in Writers |-> None]
  /\ pos = [w \in Writers |-> 0]
  /\ returned = {}
  /\ failures = 0
  /\ contended = {}

WriterNext(w) ==
  \/ Create(w)
  \/ WriteBlock(w)
  \/ CopyEnds(w)
  \/ CopyFails(w)
  \/ Discard(w)
  \/ Rename(w)
  \/ RenameFails(w)

FileNext == (\E w \in Writers : WriterNext(w)) \/ Crash

FileSpec == FileInit /\ [][FileNext]_fileVars

-----------------------------------------------------------------------------
\* The directory, the inodes and every writer's place in downloadToFile are well formed;
\* a writer never writes beyond the body.
FileTypeOK ==
  /\ tmp \in Inodes \union {None}
  /\ target \in Inodes \union {None}
  /\ content \in [Inodes -> SUBSET Body]
  /\ used \subseteq Inodes
  /\ pc \in [Writers -> PCs]
  /\ fd \in [Writers -> Inodes \union {None}]
  /\ pos \in [Writers -> 0..Blocks]
  /\ returned \subseteq Writers
  /\ failures \in 0..MaxFailures
  /\ contended \subseteq used

\* The point of the temporary file: whatever fails or dies, the target is absent or
\* holds the whole body.  Executions of one target that overlap share the temporary
\* file and may break it: only the inode that one of them opened while the other was yet
\* to rename is excepted.  An execution that succeeds alone makes the target whole again.
TargetIsWhole == target \notin contended \union {None} => content[target] = Body

\* A call that returned without an error has left a target, and a whole one unless
\* another execution was in its way.
ReturnedMeansWhole ==
  returned # {} => target \in contended \/ (target # None /\ content[target] = Body)
=============================================================================
