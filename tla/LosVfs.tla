------------------------------- MODULE LosVfs -------------------------------
(***************************************************************************)
(* The virtual file system (components/fs/vfs/los_vfs.c) with one file     *)
(* system.  fs_mutex protects the table of files and the list of mount     *)
(* points; each mount point has a mutex under which the operations of its  *)
(* file system run.  A call that works on a mount point takes the second   *)
(* mutex before it lets go of the first.                                   *)
(*                                                                         *)
(* A path is the sequence of its names.  The file system is external: an   *)
(* operation (f_fops->open and so on) takes its time and succeeds or not.  *)
(* A task uses the directory it has opened itself, one at a time.          *)
(*                                                                         *)
(* los_fs_unmount looks at m_refs without the mutex of the mount point,    *)
(* and an operation that opens something counts itself when it is over.    *)
(* Unless UnmountRaces, nobody unmounts a mount point that a call is at.   *)
(***************************************************************************)
EXTENDS Naturals, Sequences, SequencesExt, FiniteSets

CONSTANTS
  Task,
  NoTask,
  MountPoint,    \* memory for struct mount_point
  FD,            \* the table of files, LOS_MAX_FILES of them
  MountPath,     \* the paths file systems are mounted at
  Path,          \* the paths of the other calls
  None,          \* NULL
  UnmountRaces,
  MaxKept        \* bound: m_refs of a mount point where closing a file may fail

ASSUME VfsAssumption ==
  /\ NoTask \notin Task /\ None \notin MountPoint \cup MountPath \cup FD
  /\ IsFiniteSet(Task) /\ IsFiniteSet(MountPoint) /\ IsFiniteSet(FD)
  /\ \A path \in MountPath \cup Path : path \in Seq(ToSet(path))
  /\ UnmountRaces \in BOOLEAN /\ MaxKept \in Nat

VARIABLES
  fsMutex,     \* the owner of fs_mutex
  mp,          \* mount points: m_path (None when free), m_refs, the owner of m_mutex
  files,       \* files: f_status, f_mp, and (history) the path that was opened
  dir,         \* the directory a task has open: d_mp, and (history) its path
  fileSystem,  \* whether it is registered, and fs_refs
  pc,          \* where a task is in its call
  call         \* which call: its kind, path, file and mount point

vars == <<fsMutex, mp, files, dir, fileSystem, pc, call>>

NoMount == [path |-> None, refs |-> 0, mutex |-> NoTask]
NoFile  == [status |-> "NOT_USED", mp |-> None, path |-> <<>>]
NoDir   == [mp |-> None, path |-> <<>>]
Call(op, path, fd, m) == [op |-> op, path |-> path, fd |-> fd, mp |-> m]
NoCall  == Call("none", <<>>, None, None)

VfsInit ==
  /\ fsMutex = NoTask
  /\ mp = [m \in MountPoint |-> NoMount]
  /\ files = [fd \in FD |-> NoFile]
  /\ dir = [t \in Task |-> NoDir]
  /\ fileSystem = [registered |-> FALSE, refs |-> 0]
  /\ pc = [t \in Task |-> "user"]
  /\ call = [t \in Task |-> NoCall]
-----------------------------------------------------------------------------
(* Paths *)

Mounted == {m \in MountPoint : mp[m].path # None}

\* los_mp_find: the mount point with the longest path that path begins with.  The root has no
\* name to match and is never found.
los_mp_find(path) ==
  LET matches == {m \in Mounted : IsPrefix(mp[m].path, path) /\ mp[m].path # <<>>}
  IN  IF matches = {} THEN None
      ELSE CHOOSE m \in matches : \A n \in matches : Len(mp[n].path) <= Len(mp[m].path)

\* The mount point of something in it: path_in_mp is not empty.
Inside(path) ==
  LET m == los_mp_find(path) IN IF m # None /\ mp[m].path # path THEN m ELSE None

\* The mount point whose own path this is.
Exactly(path) ==
  LET m == los_mp_find(path) IN IF m # None /\ mp[m].path = path THEN m ELSE None
-----------------------------------------------------------------------------
(* Calls *)

OfFile   == {"use", "close"}        \* "use": los_read, los_write, los_lseek, los_ioctl, los_sync
OfPath   == {"open", "opendir", "mkdir", "bare"}  \* "bare": los_stat, los_unlink, los_rename
OfDir    == {"readdir", "closedir"}

Goto(t, at) == pc' = [pc EXCEPT ![t] = at]

Ask(t, c) ==
  /\ pc[t] = "user" /\ Goto(t, "fs_mutex")
  /\ call' = [call EXCEPT ![t] = c]
  /\ UNCHANGED <<fsMutex, mp, files, dir, fileSystem>>

\* los_readdir and los_closedir take the mutex of the mount point at once.
AskDir(t, op) ==
  /\ pc[t] = "user" /\ dir[t] # NoDir
  /\ call' = [call EXCEPT ![t] = Call(op, <<>>, None, dir[t].mp)]
  /\ Goto(t, "m_mutex")
  /\ UNCHANGED <<fsMutex, mp, files, dir, fileSystem>>

\* What the call of t finds with fs_mutex: its file and mount point, None if it has to fail.
Found(t) ==
  LET c == call[t]
      unused == {fd \in FD : files[fd].status = "NOT_USED"}
  IN  CASE c.op = "open" ->
             IF unused = {} THEN NoCall
             ELSE Call("open", c.path, CHOOSE fd \in unused : TRUE, Inside(c.path))
        [] c.op \in OfFile ->
             IF files[c.fd].status = "READY" THEN [c EXCEPT !.mp = files[c.fd].mp] ELSE NoCall
        [] c.op = "opendir" ->
             IF dir[t] = NoDir THEN [c EXCEPT !.mp = los_mp_find(c.path)] ELSE NoCall
        [] c.op \in {"mkdir", "bare"} -> [c EXCEPT !.mp = Inside(c.path)]

\* Mutant: fs_mutex is posted between the check of the file and LOS_MuxPend of m_mutex.
Enter_NotHeld(t) ==
  /\ pc[t] = "fs_mutex" /\ fsMutex = NoTask /\ Found(t).mp # None
  /\ fsMutex' = IF call[t].op \in OfFile THEN NoTask ELSE t
  /\ call' = [call EXCEPT ![t] = Found(t)]
  /\ files' = IF call[t].op = "open" THEN [files EXCEPT ![Found(t).fd].status = "INITING"] ELSE files
  /\ Goto(t, IF call[t].op = "bare" THEN "bare" ELSE "m_mutex")
  /\ UNCHANGED <<mp, dir, fileSystem>>

\* LOS_MuxPend of fs_mutex, los_file_get, los_mp_find and the checks.
Enter(t) ==
  /\ pc[t] = "fs_mutex" /\ fsMutex = NoTask /\ Found(t).mp # None
  /\ fsMutex' = t
  /\ call' = [call EXCEPT ![t] = Found(t)]
  /\ files' = IF call[t].op = "open" THEN [files EXCEPT ![Found(t).fd].status = "INITING"] ELSE files
  /\ Goto(t, IF call[t].op = "bare" THEN "bare" ELSE "m_mutex")
  /\ UNCHANGED <<mp, dir, fileSystem>>

Leave(t) == Goto(t, "user") /\ call' = [call EXCEPT ![t] = NoCall]

\* The checks fail; los_open may have got a file by then.
EnterFails(t) ==
  LET fd == Found(t).fd IN
  /\ pc[t] = "fs_mutex" /\ fsMutex = NoTask /\ Found(t).mp = None
  /\ fsMutex' = t
  /\ call' = [call EXCEPT ![t] = Found(t)]
  /\ files' = IF fd # None THEN [files EXCEPT ![fd].status = "INITING"] ELSE files
  /\ Goto(t, "fail")
  /\ UNCHANGED <<mp, dir, fileSystem>>

\* Mutant: a call whose file is not ready (EBADF) returns without LOS_MuxPost.
Fail_NotPosted(t) ==
  /\ pc[t] = "fail"
  /\ fsMutex' = IF call[t] = NoCall THEN fsMutex ELSE NoTask
  /\ IF call[t].fd # None THEN Goto(t, "put") /\ UNCHANGED call ELSE Leave(t)
  /\ UNCHANGED <<mp, files, dir, fileSystem>>

\* LOS_MuxPost of fs_mutex on the error paths; los_open has yet to give the file back.
Fail(t) ==
  /\ pc[t] = "fail" /\ fsMutex' = NoTask
  /\ IF call[t].fd # None THEN Goto(t, "put") /\ UNCHANGED call ELSE Leave(t)
  /\ UNCHANGED <<mp, files, dir, fileSystem>>

\* LOS_MuxPend of m_mutex, the status that _los_attach_file sets, LOS_MuxPost of fs_mutex, and
\* what los_open writes into the file.
LockMountPoint(t) ==
  LET c == call[t] IN
  /\ pc[t] = "m_mutex" /\ mp[c.mp].mutex = NoTask
  /\ mp' = [mp EXCEPT ![c.mp].mutex = t]
  /\ fsMutex' = IF fsMutex = t THEN NoTask ELSE fsMutex
  /\ files' = CASE c.op = "close" -> [files EXCEPT ![c.fd].status = "CLOSING"]
                [] c.op = "open"  -> [files EXCEPT ![c.fd].mp = c.mp, ![c.fd].path = c.path]
                [] OTHER          -> files
  /\ Goto(t, "operation")
  /\ UNCHANGED <<dir, fileSystem, call>>

Count(c, n) == mp' = [mp EXCEPT ![c.mp].refs = n]

\* Mutant: an open directory does not count.
OperationDone_DirNotCounted(t) ==
  LET c == call[t]  refs == mp[c.mp].refs IN
  /\ pc[t] = "operation" /\ Goto(t, "post")
  /\ CASE c.op = "open"     -> /\ Count(c, refs + 1)
                               /\ files' = [files EXCEPT ![c.fd].status = "READY"]
                               /\ UNCHANGED dir
       [] c.op = "close"    -> Count(c, refs - 1) /\ UNCHANGED <<files, dir>>
       [] c.op = "opendir"  -> /\ dir' = [dir EXCEPT ![t] = [mp |-> c.mp, path |-> c.path]]
                               /\ UNCHANGED <<mp, files>>
       [] c.op = "closedir" -> dir' = [dir EXCEPT ![t] = NoDir] /\ UNCHANGED <<mp, files>>
       [] OTHER             -> UNCHANGED <<mp, files, dir>>
  /\ UNCHANGED <<fsMutex, fileSystem, call>>

\* The operation of the file system succeeds.
OperationDone(t) ==
  LET c == call[t]  refs == mp[c.mp].refs IN
  /\ pc[t] = "operation" /\ Goto(t, "post")
  /\ CASE c.op = "open"     -> /\ Count(c, refs + 1)
                               /\ files' = [files EXCEPT ![c.fd].status = "READY"]
                               /\ UNCHANGED dir
       [] c.op = "close"    -> Count(c, refs - 1) /\ UNCHANGED <<files, dir>>
       [] c.op = "opendir"  -> /\ dir' = [dir EXCEPT ![t] = [mp |-> c.mp, path |-> c.path]]
                               /\ Count(c, refs + 1) /\ UNCHANGED files
       [] c.op = "closedir" -> /\ dir' = [dir EXCEPT ![t] = NoDir]
                               /\ Count(c, refs - 1) /\ UNCHANGED files
       [] OTHER             -> UNCHANGED <<mp, files, dir>>
  /\ UNCHANGED <<fsMutex, fileSystem, call>>

\* It fails.  A file that could not be closed stays counted, and is no file any more.
OperationFails(t) ==
  /\ pc[t] = "operation" /\ Goto(t, "post")
  /\ call[t].op \in {"open", "opendir", "close", "closedir"}
  /\ call[t].op = "close" => mp[call[t].mp].refs <= MaxKept
  /\ files' = IF call[t].op = "open" THEN [files EXCEPT ![call[t].fd] = NoFile] ELSE files
  /\ UNCHANGED <<fsMutex, mp, dir, fileSystem, call>>

\* LOS_MuxPost of m_mutex; los_close has yet to give the file back.
PostMountPoint(t) ==
  /\ pc[t] = "post"
  /\ mp' = [mp EXCEPT ![call[t].mp].mutex = NoTask]
  /\ IF call[t].op = "close" THEN Goto(t, "put") /\ UNCHANGED call ELSE Leave(t)
  /\ UNCHANGED <<fsMutex, files, dir, fileSystem>>

los_file_put(t) ==
  /\ pc[t] = "put"
  /\ files' = [files EXCEPT ![call[t].fd] = NoFile]
  /\ Leave(t)
  /\ UNCHANGED <<fsMutex, mp, dir, fileSystem>>

\* los_stat, los_unlink and los_rename run their operation with fs_mutex only.
BareDone(t) ==
  /\ pc[t] = "bare" /\ fsMutex' = NoTask
  /\ Leave(t)
  /\ UNCHANGED <<mp, files, dir, fileSystem>>
-----------------------------------------------------------------------------
(* Calls that hold fs_mutex from end to end *)

Administers(t) == pc[t] = "user" /\ fsMutex = NoTask /\ UNCHANGED <<fsMutex, files, dir, pc, call>>

los_fs_register(t) ==
  /\ Administers(t)
  /\ ~fileSystem.registered /\ fileSystem' = [registered |-> TRUE, refs |-> 0]
  /\ UNCHANGED mp

los_fs_unregister(t) ==
  /\ Administers(t)
  /\ fileSystem.registered /\ fileSystem.refs = 0
  /\ fileSystem' = [fileSystem EXCEPT !.registered = FALSE]
  /\ UNCHANGED mp

los_fs_mount(t, path) ==
  /\ Administers(t)
  /\ fileSystem.registered /\ Exactly(path) = None
  /\ Mounted # MountPoint
  /\ LET m == CHOOSE m \in MountPoint \ Mounted : TRUE
     IN  mp' = [mp EXCEPT ![m] = [NoMount EXCEPT !.path = path]]
  /\ fileSystem' = [fileSystem EXCEPT !.refs = @ + 1]

\* A task is between the two mutexes of a call, or has not posted the second.
IsAt(t, m) == call[t].mp = m /\ pc[t] \in {"m_mutex", "operation", "post"}

\* The mount point is freed even if its mutex is held, so that LOS_MuxDelete refuses; what a
\* call that is at it does with the freed memory is left open.
los_fs_unmount(t, path) ==
  LET m == Exactly(path) IN
  /\ Administers(t)
  /\ m # None /\ mp[m].refs = 0
  /\ UnmountRaces \/ \A u \in Task : ~IsAt(u, m)
  /\ mp' = [mp EXCEPT ![m] = NoMount]
  /\ fileSystem' = [fileSystem EXCEPT !.refs = @ - 1]
-----------------------------------------------------------------------------
Begin(t) ==
  \/ \E op \in OfPath, path \in Path : Ask(t, Call(op, path, None, None))
  \/ \E op \in OfFile, fd \in FD : Ask(t, Call(op, <<>>, fd, None))
  \/ \E op \in OfDir : AskDir(t, op)

Administration(t) ==
  \/ los_fs_register(t) \/ los_fs_unregister(t)
  \/ \E path \in MountPath : los_fs_mount(t, path) \/ los_fs_unmount(t, path)

Lock(t) == Enter(t) \/ EnterFails(t) \/ LockMountPoint(t)
Proceed(t) ==
  \/ OperationDone(t) \/ OperationFails(t) \/ PostMountPoint(t) \/ BareDone(t)
  \/ Fail(t) \/ los_file_put(t)

Next == \E t \in Task : Begin(t) \/ Administration(t) \/ Lock(t) \/ Proceed(t)

Spec == VfsInit /\ [][Next]_vars

\* A task that waits for a mutex is given it in its turn (LOS_MuxPost hands it to the first in
\* the list), and the operations of the file system come to an end.
FairSpec == Spec /\ \A t \in Task : SF_vars(Lock(t)) /\ WF_vars(Proceed(t))
-----------------------------------------------------------------------------
(* Properties *)

\* The files and directories that are open at mount point m.
OpenAt(m) ==
  Cardinality({fd \in FD : files[fd].status = "READY" /\ files[fd].mp = m})
    + Cardinality({t \in Task : dir[t].mp = m})

\* Whatever is open keeps its mount point: it is mounted where the path led, and counts every
\* file and directory open in it, so that los_fs_unmount cannot take it away; and what is
\* mounted keeps the file system registered.
OpenKeepsMount ==
  /\ \A fd \in FD : files[fd].status = "READY" =>
       files[fd].mp \in Mounted /\ IsPrefix(mp[files[fd].mp].path, files[fd].path)
  /\ \A t \in Task : dir[t] # NoDir =>
       dir[t].mp \in Mounted /\ IsPrefix(mp[dir[t].mp].path, dir[t].path)
  /\ \A m \in Mounted : mp[m].refs >= OpenAt(m)
  /\ fileSystem.refs = Cardinality(Mounted) /\ (Mounted # {} => fileSystem.registered)

\* The file an operation works on is not closed, or used for another path, under its hands
\* (_los_attach_file): until it posts m_mutex the file is what the call found, and nobody
\* else is at work at that mount point.
FileStaysAttached ==
  \A t \in Task : pc[t] = "operation" =>
    /\ \A u \in Task \ {t} : pc[u] = "operation" => call[u].mp # call[t].mp
    /\ call[t].op \in OfFile =>
         /\ files[call[t].fd].mp = call[t].mp
         /\ files[call[t].fd].status = IF call[t].op = "use" THEN "READY" ELSE "CLOSING"

\* Every call returns: the two mutexes are always taken in the same order, and given back on
\* the error paths too.
CallReturns == \A t \in Task : pc[t] # "user" ~> pc[t] = "user"

\* A mount point is not removed while a call is at it ("prevent fs/mp being removed while
\* opening", los_open).
MountHeld == \A t \in Task : pc[t] \in {"operation", "post"} => call[t].mp \in Mounted
=============================================================================
