---------------------------- MODULE LosVfsProofs ----------------------------
(***************************************************************************)
(* Proofs about the virtual file system: that whatever is open keeps its   *)
(* mount point, and that the file an operation works on is not taken away, *)
(* for every number of tasks, files and mount points and all paths, as     *)
(* long as nobody unmounts a mount point that a call is at.                *)
(***************************************************************************)
EXTENDS LosVfs, Integers, FiniteSetTheorems, WellFoundedInduction, NaturalsInduction, TLAPS

USE DEF OfFile, OfPath, OfDir
-----------------------------------------------------------------------------
(* The inductive invariant *)

Places == {"user", "fs_mutex", "fail", "bare", "m_mutex", "operation", "post", "put"}

VfsTypeOK ==
  /\ fsMutex \in Task \cup {NoTask}
  /\ mp \in [MountPoint -> [path : MountPath \cup {None}, refs : Int, mutex : Task \cup {NoTask}]]
  /\ files \in [FD -> [status : {"NOT_USED", "INITING", "READY", "CLOSING"},
                       mp : MountPoint \cup {None}, path : Path \cup {<<>>}]]
  /\ dir \in [Task -> [mp : MountPoint \cup {None}, path : Path \cup {<<>>}]]
  /\ fileSystem \in [registered : BOOLEAN, refs : Int]
  /\ pc \in [Task -> Places]
  /\ call \in [Task -> [op : OfPath \cup OfFile \cup OfDir \cup {"none"}, path : Path \cup {<<>>},
                        fd : FD \cup {None}, mp : MountPoint \cup {None}]]

\* Which calls get where.
Doing(t, ops, places) == call[t].op \in ops /\ pc[t] \in places

CallsOK ==
  \A t \in Task :
    /\ pc[t] = "fs_mutex" => call[t].op \in OfPath \cup OfFile
    /\ pc[t] = "fs_mutex" /\ call[t].op \in OfPath => call[t].fd = None
    /\ pc[t] = "bare" => call[t].op = "bare"
    /\ pc[t] = "put" => call[t].op \in {"open", "close"} /\ call[t].fd \in FD
    /\ pc[t] = "fail" => call[t].fd = None \/ call[t].op = "open"
    /\ pc[t] \in {"m_mutex", "operation", "post"} =>
         call[t].op \in (OfPath \ {"bare"}) \cup OfFile \cup OfDir /\ call[t].mp \in Mounted
    /\ call[t].op \in OfFile => call[t].fd \in FD
    /\ call[t].op \in OfPath => call[t].path \in Path
    /\ Doing(t, {"open"}, {"m_mutex", "operation"}) => call[t].fd \in FD

\* The two mutexes: a call waits for the second with the first in its hands, unless it came
\* by an open directory, and works with the second.
LocksOK ==
  \A t \in Task :
    /\ pc[t] \in {"bare", "fail"} \/ (pc[t] = "m_mutex" /\ call[t].op \notin OfDir) => fsMutex = t
    /\ pc[t] \in {"operation", "post"} => mp[call[t].mp].mutex = t

\* The file of a call: being opened, also in vain, in use or being closed, by one task if not
\* in use.
Opening == {"m_mutex", "operation", "fail", "put"}
FilesOK ==
  \A t \in Task :
    LET c == call[t]  file == files[c.fd] IN
    /\ Doing(t, {"open"}, Opening) /\ c.fd \in FD => file.status = "INITING"
    /\ Doing(t, OfFile, {"m_mutex"}) \/ Doing(t, {"use"}, {"operation"}) =>
         file.status = "READY" /\ file.mp = c.mp
    /\ Doing(t, {"close"}, {"operation", "post", "put"}) => file.status = "CLOSING"
    /\ Doing(t, {"open", "close"}, {"operation"}) => file.mp = c.mp
    /\ Doing(t, {"open"}, {"operation"}) => file.path = c.path
    /\ Doing(t, {"open", "opendir"}, {"m_mutex", "operation"}) => IsPrefix(mp[c.mp].path, c.path)
    /\ Doing(t, OfDir, {"m_mutex"}) \/ Doing(t, {"closedir"}, {"operation"}) =>
         dir[t].mp = c.mp
    /\ \A u \in Task \ {t} : call[u].fd = c.fd /\ c.fd \in FD =>
         /\ ~(Doing(t, {"open"}, Opening) /\ Doing(u, {"open"}, Opening))
         /\ ~(Doing(t, {"close"}, {"operation", "post", "put"})
                /\ Doing(u, {"close"}, {"operation", "post", "put"}))

\* What a mount point has to count: open files, those that are being closed until the file
\* system says so, and open directories.
Closing(fd) == \E t \in Task : Doing(t, {"close"}, {"operation"}) /\ call[t].fd = fd
FilesAt(m) == {fd \in FD : files[fd].mp = m /\ (files[fd].status = "READY" \/ Closing(fd))}
DirsAt(m)  == {t \in Task : dir[t].mp = m}

CountsOK ==
  /\ \A m \in Mounted : mp[m].refs >= Cardinality(FilesAt(m)) + Cardinality(DirsAt(m))
  /\ \A fd \in FD : files[fd].status = "READY" =>
       files[fd].mp \in Mounted /\ IsPrefix(mp[files[fd].mp].path, files[fd].path)
  /\ \A t \in Task : dir[t].mp # None =>
       dir[t].mp \in Mounted /\ IsPrefix(mp[dir[t].mp].path, dir[t].path)
  /\ \A t \in Task : dir[t].mp = None => dir[t] = NoDir
  /\ fileSystem.refs = Cardinality(Mounted)
  /\ Mounted # {} => fileSystem.registered

IInv == VfsTypeOK /\ CallsOK /\ LocksOK /\ FilesOK /\ CountsOK
-----------------------------------------------------------------------------
USE DEF Opening
(* Paths and counts *)

\* A set of mount points on one path has one with the longest path.
LEMMA LongestPath ==
  ASSUME NEW S, S # {}, NEW len, NEW n \in Nat, \A m \in S : len[m] \in Nat /\ len[m] <= n
  PROVE  \E m \in S : \A k \in S : len[k] <= len[m]
<1> DEFINE R == OpToRel(<, Nat)
           Short == {n - len[m] : m \in S}
<1>1. IsWellFoundedOn(R, Nat)
  BY NatLessThanWellFounded
<1>2. \A p, q \in Nat : <<q, p>> \in R <=> q < p
  BY DEF OpToRel
<1> HIDE DEF R
<1>3. Short \in SUBSET Nat /\ Short # {}
  OBVIOUS
<1>4. PICK p \in Short : \A q \in Short : <<q, p>> \notin R
  BY <1>1, <1>3, WFMin
<1>5. PICK m \in S : p = n - len[m]
  OBVIOUS
<1>6. ASSUME NEW k \in S
      PROVE  len[k] <= len[m]
  <2>1. n - len[k] \in Short
    OBVIOUS
  <2>2. ~(n - len[k] < p)
    BY <1>2, <1>3, <1>4, <2>1, Zenon
  <2> QED BY <1>5, <2>2
<1> QED BY <1>6

\* los_mp_find returns a mount point that is mounted where the path leads.
LEMMA FindFacts ==
  ASSUME VfsTypeOK, NEW path \in MountPath \cup Path
  PROVE  LET m == los_mp_find(path)
         IN  m = None \/ (m \in Mounted /\ IsPrefix(mp[m].path, path))
<1> DEFINE matches == {m \in Mounted : IsPrefix(mp[m].path, path) /\ mp[m].path # <<>>}
           len == [m \in matches |-> Len(mp[m].path)]
<1>1. CASE matches = {}
  BY <1>1 DEF los_mp_find
<1>2. CASE matches # {}
  <2>1. Len(path) \in Nat
    <3>1. path \in Seq(ToSet(path))
      BY VfsAssumption
    <3> QED BY <3>1
  <2>2. \A m \in matches : len[m] \in Nat /\ len[m] <= Len(path)
    <3> TAKE m \in matches
    <3>1. mp[m].path \in MountPath
      BY DEF VfsTypeOK, Mounted
    <3>2. mp[m].path \in Seq(ToSet(mp[m].path))
      BY <3>1, VfsAssumption
    <3>3. Len(mp[m].path) <= Len(path)
      BY DEF IsPrefix
    <3> QED BY <3>2, <3>3
  <2> HIDE DEF matches
  <2>3. \E m \in matches : \A n \in matches : len[n] <= len[m]
    BY <1>2, <2>1, <2>2, LongestPath
  <2>4. \E m \in matches : \A n \in matches : Len(mp[n].path) <= Len(mp[m].path)
    BY <2>3
  <2>5. los_mp_find(path) \in matches
    BY <1>2, <2>4 DEF los_mp_find, matches
  <2> QED BY <2>5 DEF matches
<1> QED BY <1>1, <1>2

\* What a path is inside of is a mount point whose path it begins with.
LEMMA InsideFacts ==
  ASSUME VfsTypeOK, NEW path \in Path
  PROVE  Inside(path) = None \/ (Inside(path) \in Mounted /\ IsPrefix(mp[Inside(path)].path, path))
BY FindFacts DEF Inside

\* The mount point with a given path is mounted.
LEMMA ExactlyFacts ==
  ASSUME VfsTypeOK, NEW path \in MountPath, Exactly(path) # None
  PROVE  Exactly(path) \in Mounted
BY FindFacts DEF Exactly

\* A finite set grows by one at most when one thing is added.
LEMMA OneMore ==
  ASSUME NEW S, NEW x, NEW T, IsFiniteSet(S), T \subseteq S \cup {x}
  PROVE  Cardinality(T) \in Nat /\ Cardinality(T) <= Cardinality(S) + 1
<1>1. /\ IsFiniteSet(S \cup {x})
      /\ Cardinality(S \cup {x}) = IF x \in S THEN Cardinality(S) ELSE Cardinality(S) + 1
  BY FS_AddElement
<1>2. IsFiniteSet(T) /\ Cardinality(T) <= Cardinality(S \cup {x})
  BY <1>1, FS_Subset
<1> QED BY <1>1, <1>2, FS_CardinalityType

\* What m_refs and fs_refs count is finite.
LEMMA CountsFinite ==
  /\ \A m : IsFiniteSet(FilesAt(m)) /\ IsFiniteSet(DirsAt(m))
  /\ \A m : Cardinality(FilesAt(m)) \in Nat /\ Cardinality(DirsAt(m)) \in Nat
  /\ IsFiniteSet(Mounted) /\ Cardinality(Mounted) \in Nat
<1>1. ASSUME NEW m PROVE IsFiniteSet(FilesAt(m)) /\ IsFiniteSet(DirsAt(m))
  <2>1. FilesAt(m) \in SUBSET FD /\ DirsAt(m) \in SUBSET Task
    BY DEF FilesAt, DirsAt
  <2> QED BY <2>1, VfsAssumption, FS_Subset
<1>2. IsFiniteSet(Mounted)
  <2>1. Mounted \in SUBSET MountPoint
    BY DEF Mounted
  <2> QED BY <2>1, VfsAssumption, FS_Subset
<1> QED BY <1>1, <1>2, FS_CardinalityType

\* A step that leaves paths, counters and directories alone, and opens no file, keeps the
\* counts right.
LEMMA CountsFrame ==
  ASSUME VfsTypeOK, VfsTypeOK', CountsOK, UNCHANGED <<dir, fileSystem>>,
         \A m \in MountPoint : mp'[m].path = mp[m].path /\ mp'[m].refs = mp[m].refs,
         \A m \in Mounted : FilesAt(m)' \subseteq FilesAt(m),
         \A fd \in FD : files'[fd].status = "READY" =>
           /\ files[fd].status = "READY"
           /\ files'[fd].mp = files[fd].mp /\ files'[fd].path = files[fd].path
  PROVE  CountsOK'
<1>1. Mounted' = Mounted
  BY DEF Mounted
<1>2. \A m \in Mounted : mp'[m].path = mp[m].path /\ mp'[m].refs = mp[m].refs
  BY DEF Mounted
<1>3. \A m : DirsAt(m)' = DirsAt(m)
  BY DEF DirsAt
<1>4. ASSUME NEW m \in Mounted'
      PROVE  mp'[m].refs >= Cardinality(FilesAt(m)') + Cardinality(DirsAt(m)')
  <2>1. FilesAt(m)' \in SUBSET FilesAt(m)
    BY <1>1
  <2>2. Cardinality(FilesAt(m)') <= Cardinality(FilesAt(m))
    BY <2>1, CountsFinite, FS_Subset
  <2>3. Cardinality(FilesAt(m)') \in Nat
    BY <2>1, CountsFinite, FS_Subset, FS_CardinalityType
  <2>4. mp[m].refs \in Int
    BY <1>1 DEF VfsTypeOK, Mounted
  <2> QED BY <1>1, <1>2, <1>3, <2>2, <2>3, <2>4, CountsFinite DEF CountsOK
<1>5. \A fd \in FD : files'[fd].status = "READY" =>
        files'[fd].mp \in Mounted' /\ IsPrefix(mp'[files'[fd].mp].path, files'[fd].path)
  BY <1>1, <1>2 DEF CountsOK
<1>6. \A u \in Task : dir'[u].mp # None =>
        dir'[u].mp \in Mounted' /\ IsPrefix(mp'[dir'[u].mp].path, dir'[u].path)
  BY <1>1, <1>2 DEF CountsOK
<1> QED BY <1>1, <1>4, <1>5, <1>6 DEF CountsOK

\* A step that changes the owner of one mount point's mutex.
LEMMA MutexKept ==
  ASSUME VfsTypeOK, NEW m \in MountPoint, NEW t \in Task \cup {NoTask},
         mp' = [mp EXCEPT ![m].mutex = t]
  PROVE  /\ mp' \in [MountPoint -> [path : MountPath \cup {None}, refs : Int, mutex : Task \cup {NoTask}]]
         /\ \A n \in MountPoint :
              /\ mp'[n].path = mp[n].path /\ mp'[n].refs = mp[n].refs
              /\ mp'[n].mutex = IF n = m THEN t ELSE mp[n].mutex
BY DEF VfsTypeOK
\* A call that is over, or goes on to give its file back.
LEMMA OverOrOn ==
  ASSUME VfsTypeOK, NEW t \in Task, NEW p,
         IF p THEN Goto(t, "put") /\ UNCHANGED call ELSE Leave(t)
  PROVE  /\ pc' \in [Task -> Places]
         /\ call' \in [Task -> [op : OfPath \cup OfFile \cup OfDir \cup {"none"}, path : Path \cup {<<>>},
                            fd : FD \cup {None}, mp : MountPoint \cup {None}]]
         /\ \A u \in Task \ {t} : pc'[u] = pc[u] /\ call'[u] = call[u]
         /\ p => pc'[t] = "put" /\ call'[t] = call[t]
         /\ ~p => pc'[t] = "user" /\ call'[t] = NoCall
<1>1. NoCall \in [op : OfPath \cup OfFile \cup OfDir \cup {"none"}, path : Path \cup {<<>>},
                  fd : FD \cup {None}, mp : MountPoint \cup {None}]
  BY DEF NoCall, Call
<1>2. CASE p
  BY <1>2 DEF VfsTypeOK, Goto, Places
<1>3. CASE ~p
  <2>1. pc' = [pc EXCEPT ![t] = "user"] /\ call' = [call EXCEPT ![t] = NoCall]
    BY <1>3 DEF Goto, Leave
  <2>2. pc' \in [Task -> Places] /\ pc'[t] = "user" /\ \A u \in Task \ {t} : pc'[u] = pc[u]
    BY <2>1 DEF VfsTypeOK, Places
  <2> QED BY <1>1, <1>3, <2>1, <2>2 DEF VfsTypeOK
<1> QED BY <1>2, <1>3
-----------------------------------------------------------------------------
(* The steps *)

\* A call that starts with a path or a file holds nothing yet.
LEMMA AskInv ==
  ASSUME IInv, NEW t \in Task, NEW c \in [op : OfPath \cup OfFile, path : Path \cup {<<>>}, fd : FD \cup {None}, mp : {None}],
         c.op \in OfFile => c.fd \in FD, c.op \in OfPath => c.path \in Path /\ c.fd = None,
         Ask(t, c)
  PROVE  IInv'
<1> USE DEF IInv, Places, Ask, Goto
<1>1. VfsTypeOK'
  BY VfsAssumption DEF VfsTypeOK
<1>2. CallsOK'
  BY VfsAssumption DEF VfsTypeOK, CallsOK, Doing, Mounted
<1>3. LocksOK'
  BY VfsAssumption DEF VfsTypeOK, CallsOK, LocksOK
<1>4. FilesOK'
  BY VfsAssumption DEF VfsTypeOK, CallsOK, LocksOK, FilesOK, Doing
<1>5. CountsOK'
  <2>1. \A m \in Mounted : FilesAt(m)' \subseteq FilesAt(m)
    BY DEF VfsTypeOK, CallsOK, FilesOK, FilesAt, Closing, Doing, Mounted
  <2>2. /\ \A m \in MountPoint : mp'[m].path = mp[m].path /\ mp'[m].refs = mp[m].refs
        /\ \A fd \in FD : files'[fd].status = "READY" =>
             /\ files[fd].status = "READY"
             /\ files'[fd].mp = files[fd].mp /\ files'[fd].path = files[fd].path
    BY DEF VfsTypeOK, CallsOK, FilesOK, Doing
  <2> QED BY <1>1, <2>1, <2>2, CountsFrame
<1> QED BY <1>1, <1>2, <1>3, <1>4, <1>5

\* A directory call goes straight to the mutex of its mount point, which the open
\* directory keeps mounted.
LEMMA AskDirInv ==
  ASSUME IInv, NEW t \in Task, NEW op \in OfDir, AskDir(t, op)
  PROVE  IInv'
<1> USE DEF IInv, Places, AskDir, Goto, NoDir, Call
<1>1. VfsTypeOK'
  BY VfsAssumption DEF VfsTypeOK
<1>2. CallsOK'
  <2>1. dir[t].mp \in Mounted
    BY DEF VfsTypeOK, CountsOK
  <2> QED BY <2>1 DEF VfsTypeOK, CallsOK, Doing, Mounted
<1>3. LocksOK'
  BY VfsAssumption DEF VfsTypeOK, CallsOK, LocksOK
<1>4. FilesOK'
  BY VfsAssumption DEF VfsTypeOK, CallsOK, LocksOK, FilesOK, Doing
<1>5. CountsOK'
  <2>1. \A m \in Mounted : FilesAt(m)' \subseteq FilesAt(m)
    BY DEF VfsTypeOK, CallsOK, FilesOK, FilesAt, Closing, Doing, Mounted
  <2>2. /\ \A m \in MountPoint : mp'[m].path = mp[m].path /\ mp'[m].refs = mp[m].refs
        /\ \A fd \in FD : files'[fd].status = "READY" =>
             /\ files[fd].status = "READY"
             /\ files'[fd].mp = files[fd].mp /\ files'[fd].path = files[fd].path
    BY DEF VfsTypeOK, CallsOK, FilesOK, Doing
  <2> QED BY <1>1, <2>1, <2>2, CountsFrame
<1> QED BY <1>1, <1>2, <1>3, <1>4, <1>5

\* The error path gives fs_mutex back.
LEMMA FailInv ==
  ASSUME IInv, NEW t \in Task, Fail(t)
  PROVE  IInv'
<1> USE DEF IInv
<1>0. /\ pc[t] = "fail" /\ fsMutex' = NoTask /\ UNCHANGED <<mp, files, dir, fileSystem>>
      /\ IF call[t].fd # None THEN Goto(t, "put") /\ UNCHANGED call ELSE Leave(t)
  BY DEF Fail
<1>a. /\ pc' \in [Task -> Places]
      /\ call' \in [Task -> [op : OfPath \cup OfFile \cup OfDir \cup {"none"}, path : Path \cup {<<>>},
                         fd : FD \cup {None}, mp : MountPoint \cup {None}]]
      /\ \A u \in Task \ {t} : pc'[u] = pc[u] /\ call'[u] = call[u]
      /\ call[t].fd # None => pc'[t] = "put" /\ call'[t] = call[t]
      /\ call[t].fd = None => pc'[t] = "user" /\ call'[t] = NoCall
  BY <1>0, OverOrOn
<1>b. NoCall.op = "none" /\ NoCall.fd = None /\ call[t].fd \in FD \cup {None}
  BY DEF NoCall, Call, VfsTypeOK
<1>1. VfsTypeOK'
  BY <1>0, <1>a DEF VfsTypeOK
<1>2. CallsOK'
  BY <1>0, <1>a, <1>b, VfsAssumption DEF CallsOK, Doing, Mounted
<1>3. LocksOK'
  BY <1>0, <1>a, VfsAssumption DEF CallsOK, LocksOK
<1>4. FilesOK'
  BY <1>0, <1>a, <1>b, VfsAssumption DEF CallsOK, FilesOK, Doing
<1>5. CountsOK'
  <2>1. \A m \in Mounted : FilesAt(m)' \subseteq FilesAt(m)
    BY <1>0, <1>a, <1>b DEF CallsOK, FilesAt, Closing, Doing, Mounted
  <2>2. /\ \A m \in MountPoint : mp'[m].path = mp[m].path /\ mp'[m].refs = mp[m].refs
        /\ \A fd \in FD : files'[fd].status = "READY" =>
             /\ files[fd].status = "READY"
             /\ files'[fd].mp = files[fd].mp /\ files'[fd].path = files[fd].path
    BY <1>0
  <2> QED BY <1>0, <1>1, <2>1, <2>2, CountsFrame
<1> QED BY <1>1, <1>2, <1>3, <1>4, <1>5

\* los_file_put frees the slot of the file that this call closed, or failed to open.
LEMMA FilePutInv ==
  ASSUME IInv, NEW t \in Task, los_file_put(t)
  PROVE  IInv'
<1> USE DEF IInv, Places, los_file_put, Goto, Leave, NoCall, Call, NoFile
<1>1. VfsTypeOK'
  BY VfsAssumption DEF VfsTypeOK
<1>2. CallsOK'
  BY VfsAssumption DEF VfsTypeOK, CallsOK, Doing, Mounted
<1>3. LocksOK'
  BY VfsAssumption DEF VfsTypeOK, CallsOK, LocksOK
<1>4. FilesOK'
  BY VfsAssumption DEF VfsTypeOK, CallsOK, LocksOK, FilesOK, Doing
<1>5. CountsOK'
  <2>1. \A m \in Mounted : FilesAt(m)' \subseteq FilesAt(m)
    BY DEF VfsTypeOK, CallsOK, FilesOK, FilesAt, Closing, Doing, Mounted
  <2>2. /\ \A m \in MountPoint : mp'[m].path = mp[m].path /\ mp'[m].refs = mp[m].refs
        /\ \A fd \in FD : files'[fd].status = "READY" =>
             /\ files[fd].status = "READY"
             /\ files'[fd].mp = files[fd].mp /\ files'[fd].path = files[fd].path
    BY DEF VfsTypeOK, CallsOK, FilesOK, Doing
  <2> QED BY <1>1, <2>1, <2>2, CountsFrame
<1> QED BY <1>1, <1>2, <1>3, <1>4, <1>5

\* A call that only needs fs_mutex gives it back and leaves the rest as it was.
LEMMA BareDoneInv ==
  ASSUME IInv, NEW t \in Task, BareDone(t)
  PROVE  IInv'
<1> USE DEF IInv, Places, BareDone, Goto, Leave, NoCall, Call
<1>1. VfsTypeOK'
  BY VfsAssumption DEF VfsTypeOK
<1>2. CallsOK'
  BY VfsAssumption DEF VfsTypeOK, CallsOK, Doing, Mounted
<1>3. LocksOK'
  BY VfsAssumption DEF VfsTypeOK, CallsOK, LocksOK
<1>4. FilesOK'
  BY VfsAssumption DEF VfsTypeOK, CallsOK, LocksOK, FilesOK, Doing
<1>5. CountsOK'
  <2>1. \A m \in Mounted : FilesAt(m)' \subseteq FilesAt(m)
    BY DEF VfsTypeOK, CallsOK, FilesOK, FilesAt, Closing, Doing, Mounted
  <2>2. /\ \A m \in MountPoint : mp'[m].path = mp[m].path /\ mp'[m].refs = mp[m].refs
        /\ \A fd \in FD : files'[fd].status = "READY" =>
             /\ files[fd].status = "READY"
             /\ files'[fd].mp = files[fd].mp /\ files'[fd].path = files[fd].path
    BY DEF VfsTypeOK, CallsOK, FilesOK, Doing
  <2> QED BY <1>1, <2>1, <2>2, CountsFrame
<1> QED BY <1>1, <1>2, <1>3, <1>4, <1>5

\* An operation that fails leaves m_refs and the mount points as they were.
LEMMA OperationFailsInv ==
  ASSUME IInv, NEW t \in Task, OperationFails(t)
  PROVE  IInv'
<1> USE DEF IInv, Places, OperationFails, Goto, NoFile
<1>1. VfsTypeOK'
  BY VfsAssumption DEF VfsTypeOK
<1>2. CallsOK'
  BY VfsAssumption DEF VfsTypeOK, CallsOK, Doing, Mounted
<1>3. LocksOK'
  BY VfsAssumption DEF VfsTypeOK, CallsOK, LocksOK
<1>4. FilesOK'
  BY VfsAssumption DEF VfsTypeOK, CallsOK, LocksOK, FilesOK, Doing
<1>5. CountsOK'
  <2>1. \A m \in Mounted : FilesAt(m)' \subseteq FilesAt(m)
    BY DEF VfsTypeOK, CallsOK, FilesOK, FilesAt, Closing, Doing, Mounted
  <2>2. /\ \A m \in MountPoint : mp'[m].path = mp[m].path /\ mp'[m].refs = mp[m].refs
        /\ \A fd \in FD : files'[fd].status = "READY" =>
             /\ files[fd].status = "READY"
             /\ files'[fd].mp = files[fd].mp /\ files'[fd].path = files[fd].path
    BY DEF VfsTypeOK, CallsOK, FilesOK, Doing
  <2> QED BY <1>1, <2>1, <2>2, CountsFrame
<1> QED BY <1>1, <1>2, <1>3, <1>4, <1>5

\* The end of a call gives the mutex of the mount point back.
LEMMA PostMountPointInv ==
  ASSUME IInv, NEW t \in Task, PostMountPoint(t)
  PROVE  IInv'
<1> USE DEF IInv
<1>0. /\ pc[t] = "post" /\ mp' = [mp EXCEPT ![call[t].mp].mutex = NoTask]
      /\ UNCHANGED <<fsMutex, files, dir, fileSystem>>
      /\ IF call[t].op = "close" THEN Goto(t, "put") /\ UNCHANGED call ELSE Leave(t)
  BY DEF PostMountPoint
<1>a. /\ pc' \in [Task -> Places]
      /\ call' \in [Task -> [op : OfPath \cup OfFile \cup OfDir \cup {"none"}, path : Path \cup {<<>>},
                         fd : FD \cup {None}, mp : MountPoint \cup {None}]]
      /\ \A u \in Task \ {t} : pc'[u] = pc[u] /\ call'[u] = call[u]
      /\ call[t].op = "close" => pc'[t] = "put" /\ call'[t] = call[t]
      /\ call[t].op # "close" => pc'[t] = "user" /\ call'[t] = NoCall
  BY <1>0, OverOrOn
<1>b. NoCall.op = "none" /\ NoCall.fd = None /\ call[t].mp \in MountPoint
  BY <1>0 DEF NoCall, Call, CallsOK, Mounted
<1>c. /\ mp' \in [MountPoint -> [path : MountPath \cup {None}, refs : Int, mutex : Task \cup {NoTask}]]
      /\ \A m \in MountPoint : /\ mp'[m].path = mp[m].path /\ mp'[m].refs = mp[m].refs
                              /\ mp'[m].mutex = IF m = call[t].mp THEN NoTask ELSE mp[m].mutex
  <2>1. VfsTypeOK /\ call[t].mp \in MountPoint /\ NoTask \in Task \cup {NoTask}
    BY <1>b
  <2>2. mp' = [mp EXCEPT ![call[t].mp].mutex = NoTask]
    BY <1>0
  <2> QED BY ZenonT(60), <2>1, <2>2, MutexKept
<1>d. Mounted' = Mounted /\ \A u \in Task : pc[u] \in {"m_mutex", "operation", "post"} =>
        call[u].mp \in MountPoint
  BY <1>c DEF Mounted, CallsOK
<1>1. VfsTypeOK'
  BY <1>0, <1>a, <1>c DEF VfsTypeOK
<1>2. CallsOK'
  BY <1>0, <1>a, <1>b, <1>d, VfsAssumption DEF CallsOK, Doing
<1>3. LocksOK'
  BY <1>0, <1>a, <1>c, <1>d DEF LocksOK
<1>4. FilesOK'
  BY <1>0, <1>a, <1>b, <1>c, <1>d DEF CallsOK, FilesOK, Doing
<1>5. CountsOK'
  <2>1. \A m \in Mounted : FilesAt(m)' \subseteq FilesAt(m)
    BY <1>0, <1>a, <1>b DEF FilesAt, Closing, Doing
  <2> QED BY <1>0, <1>1, <1>c, <2>1, CountsFrame
<1> QED BY <1>1, <1>2, <1>3, <1>4, <1>5

\* What a call finds is mounted, and is a file in the right state.
LEMMA FoundFacts ==
  ASSUME IInv, NEW t \in Task, pc[t] = "fs_mutex", Found(t).mp # None
  PROVE  LET c == Found(t) IN
         /\ c.op = call[t].op /\ c.path = call[t].path /\ c.mp \in Mounted
         /\ c \in [op : OfPath \cup OfFile, path : Path \cup {<<>>}, fd : FD \cup {None}, mp : MountPoint]
         /\ c.op = "open" => c.fd \in FD /\ files[c.fd].status = "NOT_USED"
         /\ c.op \in OfFile =>
              c.fd \in FD /\ files[c.fd].status = "READY" /\ files[c.fd].mp = c.mp
         /\ c.op \in {"open", "opendir"} => IsPrefix(mp[c.mp].path, c.path)
<1> USE DEF IInv
<1>0. /\ call[t] \in [op : OfPath \cup OfFile, path : Path \cup {<<>>}, fd : FD \cup {None},
                     mp : MountPoint \cup {None}]
      /\ Mounted \subseteq MountPoint
  BY DEF VfsTypeOK, CallsOK, Mounted
<1>1. CASE call[t].op = "open"
  <2> DEFINE unused == {fd \in FD : files[fd].status = "NOT_USED"}
             fd == CHOOSE fd \in unused : TRUE
  <2>1. unused # {} /\ Found(t) = [op |-> "open", path |-> call[t].path, fd |-> fd,
                                  mp |-> Inside(call[t].path)]
    BY <1>1 DEF Found, NoCall, Call
  <2>2. fd \in FD /\ files[fd].status = "NOT_USED"
    BY <2>1
  <2> HIDE DEF fd, unused
  <2>3. Found(t).mp = Inside(call[t].path)
    BY <2>1
  <2>4. /\ Inside(call[t].path) \in Mounted
        /\ IsPrefix(mp[Inside(call[t].path)].path, call[t].path)
    BY <1>1, <2>3, InsideFacts DEF CallsOK
  <2> QED BY <1>0, <1>1, <2>1, <2>2, <2>4
<1>2. CASE call[t].op \in OfFile
  <2>1. files[call[t].fd].status = "READY" /\ Found(t) = [call[t] EXCEPT !.mp = files[call[t].fd].mp]
    BY <1>2 DEF Found, NoCall, Call
  <2>2. call[t].fd \in FD /\ files[call[t].fd].mp \in Mounted
    BY <1>2, <2>1 DEF CallsOK, CountsOK
  <2> QED BY <1>0, <1>2, <2>1, <2>2
<1>3. CASE call[t].op = "opendir"
  <2>1. Found(t) = [call[t] EXCEPT !.mp = los_mp_find(call[t].path)]
    BY <1>3 DEF Found, NoCall, Call
  <2>2. Found(t).mp = los_mp_find(call[t].path)
    BY <1>0, <2>1
  <2>3. /\ los_mp_find(call[t].path) \in Mounted
        /\ IsPrefix(mp[los_mp_find(call[t].path)].path, call[t].path)
    BY <1>3, <2>2, FindFacts DEF CallsOK
  <2> QED BY <1>0, <1>3, <2>1, <2>3
<1>4. CASE call[t].op \in {"mkdir", "bare"}
  <2>1. Found(t) = [call[t] EXCEPT !.mp = Inside(call[t].path)]
    BY <1>4 DEF Found
  <2>2. Found(t).mp = Inside(call[t].path)
    BY <1>0, <2>1
  <2>3. Inside(call[t].path) \in Mounted
    BY <1>4, <2>2, InsideFacts DEF CallsOK
  <2> QED BY <1>0, <1>4, <2>1, <2>3
<1> QED BY <1>0, <1>1, <1>2, <1>3, <1>4

\* A call that has fs_mutex and has found its mount point is on its way to m_mutex.
LEMMA EnterInv ==
  ASSUME IInv, NEW t \in Task, Enter(t)
  PROVE  IInv'
<1> USE DEF IInv
<1> DEFINE c == Found(t)
<1>0. /\ pc[t] = "fs_mutex" /\ fsMutex = NoTask /\ fsMutex' = t
      /\ call' = [call EXCEPT ![t] = c]
      /\ files' = IF call[t].op = "open" THEN [files EXCEPT ![c.fd].status = "INITING"] ELSE files
      /\ pc' = [pc EXCEPT ![t] = IF call[t].op = "bare" THEN "bare" ELSE "m_mutex"]
      /\ UNCHANGED <<mp, dir, fileSystem>>
  BY DEF Enter, Goto
<1>a. /\ c.op = call[t].op /\ c.path = call[t].path /\ c.mp \in Mounted
      /\ c \in [op : OfPath \cup OfFile, path : Path \cup {<<>>}, fd : FD \cup {None}, mp : MountPoint]
      /\ c.op = "open" => c.fd \in FD /\ files[c.fd].status = "NOT_USED"
      /\ c.op \in OfFile =>
           c.fd \in FD /\ files[c.fd].status = "READY" /\ files[c.fd].mp = c.mp
      /\ c.op \in {"open", "opendir"} => IsPrefix(mp[c.mp].path, c.path)
  BY FoundFacts DEF Enter
<1> HIDE DEF c
<1>b. /\ files' \in [FD -> [status : {"NOT_USED", "INITING", "READY", "CLOSING"},
                            mp : MountPoint \cup {None}, path : Path \cup {<<>>}]]
      /\ \A fd \in FD : /\ files'[fd].mp = files[fd].mp /\ files'[fd].path = files[fd].path
                        /\ files'[fd].status = IF c.op = "open" /\ fd = c.fd THEN "INITING"
                                                                             ELSE files[fd].status
  BY <1>0, <1>a DEF VfsTypeOK
<1>c. /\ call'[t] = c /\ pc'[t] = IF c.op = "bare" THEN "bare" ELSE "m_mutex"
      /\ \A u \in Task \ {t} : call'[u] = call[u] /\ pc'[u] = pc[u]
  BY <1>0, <1>a DEF VfsTypeOK
<1>1. VfsTypeOK'
  BY <1>0, <1>a, <1>b DEF VfsTypeOK, Places
<1>2. CallsOK'
  BY <1>0, <1>a, <1>c DEF CallsOK, Doing, Mounted
<1>3. LocksOK'
  BY <1>0, <1>a, <1>c, VfsAssumption DEF LocksOK
<1>4. FilesOK'
  <2> SUFFICES ASSUME NEW u \in Task
               PROVE  (FilesOK!(u))'
    BY DEF FilesOK
  <2> QED BY <1>0, <1>a, <1>b, <1>c, VfsAssumption DEF CallsOK, LocksOK, FilesOK, Doing
<1>5. CountsOK'
  <2>1. \A m \in Mounted : FilesAt(m)' \subseteq FilesAt(m)
    BY <1>0, <1>a, <1>b, <1>c DEF CallsOK, FilesOK, FilesAt, Closing, Doing, Mounted
  <2>2. /\ \A m \in MountPoint : mp'[m].path = mp[m].path /\ mp'[m].refs = mp[m].refs
        /\ \A fd \in FD : files'[fd].status = "READY" =>
             /\ files[fd].status = "READY"
             /\ files'[fd].mp = files[fd].mp /\ files'[fd].path = files[fd].path
    BY <1>0, <1>b
  <2> QED BY <1>0, <1>1, <2>1, <2>2, CountsFrame
<1> QED BY <1>1, <1>2, <1>3, <1>4, <1>5

\* What a call that has to fail has got is at most a file for los_open.
LEMMA FailedFacts ==
  ASSUME IInv, NEW t \in Task, pc[t] = "fs_mutex", Found(t).mp = None
  PROVE  LET c == Found(t) IN
         /\ c \in [op : OfPath \cup {"none"}, path : Path \cup {<<>>}, fd : FD \cup {None}, mp : {None}]
         /\ c.fd # None => c.op = "open" /\ c.fd \in FD /\ files[c.fd].status = "NOT_USED"
         /\ c.op \in OfPath => c.path \in Path
<1> USE DEF IInv
<1>0. /\ call[t] \in [op : OfPath \cup OfFile, path : Path \cup {<<>>}, fd : FD \cup {None},
                     mp : MountPoint \cup {None}]
      /\ call[t].op \in OfPath => call[t].path \in Path /\ call[t].fd = None
  BY DEF VfsTypeOK, CallsOK
<1>1. NoCall = [op |-> "none", path |-> <<>>, fd |-> None, mp |-> None]
  BY DEF NoCall, Call
<1>2. CASE call[t].op = "open"
  <2> DEFINE unused == {fd \in FD : files[fd].status = "NOT_USED"}
             fd == CHOOSE fd \in unused : TRUE
  <2>1. CASE unused = {}
    BY <1>1, <1>2, <2>1 DEF Found
  <2>2. CASE unused # {}
    <3>1. Found(t) = [op |-> "open", path |-> call[t].path, fd |-> fd, mp |-> Inside(call[t].path)]
      BY <1>2, <2>2 DEF Found, Call
    <3>2. fd \in FD /\ files[fd].status = "NOT_USED"
      BY <2>2
    <3> HIDE DEF fd, unused
    <3>3. Inside(call[t].path) = None
      BY <3>1
    <3> QED BY <1>0, <1>2, <3>1, <3>2, <3>3
  <2> QED BY <2>1, <2>2
<1>3. CASE call[t].op \in OfFile
  <2>1. CASE files[call[t].fd].status = "READY"
    <3>1. Found(t) = [call[t] EXCEPT !.mp = files[call[t].fd].mp]
      BY <1>3, <2>1 DEF Found
    <3>2. files[call[t].fd].mp \in Mounted
      BY <1>3, <2>1 DEF CallsOK, CountsOK
    <3>3. Found(t).mp = files[call[t].fd].mp
      BY <1>0, <3>1
    <3> QED BY <3>2, <3>3, VfsAssumption DEF Mounted
  <2>2. CASE files[call[t].fd].status # "READY"
    BY <1>1, <1>3, <2>2 DEF Found
  <2> QED BY <2>1, <2>2
<1>4. CASE call[t].op = "opendir"
  <2>1. Found(t) = NoCall \/ Found(t) = [call[t] EXCEPT !.mp = los_mp_find(call[t].path)]
    BY <1>4 DEF Found
  <2> QED BY <1>0, <1>1, <1>4, <2>1
<1>5. CASE call[t].op \in {"mkdir", "bare"}
  <2>1. Found(t) = [call[t] EXCEPT !.mp = Inside(call[t].path)]
    BY <1>5 DEF Found
  <2> QED BY <1>0, <1>5, <2>1
<1> QED BY <1>0, <1>2, <1>3, <1>4, <1>5

\* A call that fails has fs_mutex and perhaps a file, and counts nothing.
LEMMA EnterFailsInv ==
  ASSUME IInv, NEW t \in Task, EnterFails(t)
  PROVE  IInv'
<1> USE DEF IInv
<1> DEFINE c == Found(t)
<1>0. /\ pc[t] = "fs_mutex" /\ fsMutex = NoTask /\ fsMutex' = t
      /\ call' = [call EXCEPT ![t] = c]
      /\ files' = IF c.fd # None THEN [files EXCEPT ![c.fd].status = "INITING"] ELSE files
      /\ pc' = [pc EXCEPT ![t] = "fail"]
      /\ UNCHANGED <<mp, dir, fileSystem>>
  BY DEF EnterFails, Goto
<1>a. /\ c \in [op : OfPath \cup {"none"}, path : Path \cup {<<>>}, fd : FD \cup {None}, mp : {None}]
      /\ c.fd # None => c.op = "open" /\ c.fd \in FD /\ files[c.fd].status = "NOT_USED"
      /\ c.op \in OfPath => c.path \in Path
  BY FailedFacts DEF EnterFails
<1> HIDE DEF c
<1>b. /\ files' \in [FD -> [status : {"NOT_USED", "INITING", "READY", "CLOSING"},
                            mp : MountPoint \cup {None}, path : Path \cup {<<>>}]]
      /\ \A fd \in FD : /\ files'[fd].mp = files[fd].mp /\ files'[fd].path = files[fd].path
                        /\ files'[fd].status = IF fd = c.fd THEN "INITING" ELSE files[fd].status
  BY <1>0, <1>a, VfsAssumption DEF VfsTypeOK
<1>c. /\ call'[t] = c /\ pc'[t] = "fail"
      /\ \A u \in Task \ {t} : call'[u] = call[u] /\ pc'[u] = pc[u]
  BY <1>0, <1>a DEF VfsTypeOK
<1>1. VfsTypeOK'
  BY <1>0, <1>a, <1>b DEF VfsTypeOK, Places
<1>2. CallsOK'
  BY <1>0, <1>a, <1>c DEF CallsOK, Doing, Mounted
<1>3. LocksOK'
  BY <1>0, <1>a, <1>c, VfsAssumption DEF LocksOK
<1>4. FilesOK'
  <2> SUFFICES ASSUME NEW u \in Task
               PROVE  (FilesOK!(u))'
    BY DEF FilesOK
  <2> QED BY <1>0, <1>a, <1>b, <1>c, VfsAssumption DEF CallsOK, LocksOK, FilesOK, Doing
<1>5. CountsOK'
  <2>1. \A m \in Mounted : FilesAt(m)' \subseteq FilesAt(m)
    BY <1>0, <1>a, <1>b, <1>c DEF CallsOK, FilesOK, FilesAt, Closing, Doing, Mounted
  <2>2. /\ \A m \in MountPoint : mp'[m].path = mp[m].path /\ mp'[m].refs = mp[m].refs
        /\ \A fd \in FD : files'[fd].status = "READY" =>
             /\ files[fd].status = "READY"
             /\ files'[fd].mp = files[fd].mp /\ files'[fd].path = files[fd].path
    BY <1>0, <1>b
  <2> QED BY <1>0, <1>1, <2>1, <2>2, CountsFrame
<1> QED BY <1>1, <1>2, <1>3, <1>4, <1>5

\* The mutexes are taken hand over hand: fs_mutex goes when m_mutex is held.
LEMMA LockMountPointInv ==
  ASSUME IInv, NEW t \in Task, LockMountPoint(t)
  PROVE  IInv'
<1> USE DEF IInv
<1> DEFINE c == call[t]
<1>0. /\ pc[t] = "m_mutex" /\ mp[c.mp].mutex = NoTask
      /\ mp' = [mp EXCEPT ![c.mp].mutex = t]
      /\ fsMutex' = IF fsMutex = t THEN NoTask ELSE fsMutex
      /\ c.op = "close" => files' = [files EXCEPT ![c.fd].status = "CLOSING"]
      /\ c.op = "open" => files' = [files EXCEPT ![c.fd].mp = c.mp, ![c.fd].path = c.path]
      /\ c.op \notin {"open", "close"} => files' = files
      /\ pc' = [pc EXCEPT ![t] = "operation"]
      /\ UNCHANGED <<dir, fileSystem, call>>
  BY DEF LockMountPoint, Goto
<1>a. /\ c.mp \in MountPoint /\ c.mp \in Mounted
      /\ c \in [op : OfPath \cup OfFile \cup OfDir \cup {"none"}, path : Path \cup {<<>>},
                fd : FD \cup {None}, mp : MountPoint \cup {None}]
      /\ c.op \in {"open", "close"} => c.fd \in FD
      /\ c.op = "open" => c.path \in Path
  BY <1>0 DEF VfsTypeOK, CallsOK, Doing, Mounted
<1> HIDE DEF c
<1>e. /\ call[t].op = c.op /\ call[t].fd = c.fd /\ call[t].mp = c.mp /\ call[t].path = c.path
  BY DEF c
<1>b. /\ mp' \in [MountPoint -> [path : MountPath \cup {None}, refs : Int, mutex : Task \cup {NoTask}]]
      /\ \A m \in MountPoint : /\ mp'[m].path = mp[m].path /\ mp'[m].refs = mp[m].refs
                              /\ mp'[m].mutex = IF m = c.mp THEN t ELSE mp[m].mutex
  <2>1. VfsTypeOK /\ c.mp \in MountPoint /\ t \in Task \cup {NoTask}
    BY <1>a
  <2>2. mp' = [mp EXCEPT ![c.mp].mutex = t]
    BY <1>0
  <2> QED BY ZenonT(60), <2>1, <2>2, MutexKept
<1>c. /\ files' \in [FD -> [status : {"NOT_USED", "INITING", "READY", "CLOSING"},
                            mp : MountPoint \cup {None}, path : Path \cup {<<>>}]]
      /\ \A fd \in FD :
           /\ files'[fd].status = IF c.op = "close" /\ fd = c.fd THEN "CLOSING" ELSE files[fd].status
           /\ files'[fd].mp = IF c.op = "open" /\ fd = c.fd THEN c.mp ELSE files[fd].mp
           /\ files'[fd].path = IF c.op = "open" /\ fd = c.fd THEN c.path ELSE files[fd].path
  <2>1. CASE c.op = "close"
    <3>1. files' = [files EXCEPT ![c.fd].status = "CLOSING"] /\ c.fd \in FD
      BY <1>0, <1>a, <2>1
    <3> QED BY <2>1, <3>1 DEF VfsTypeOK
  <2>2. CASE c.op = "open"
    <3> DEFINE opened == [status |-> files[c.fd].status, mp |-> c.mp, path |-> c.path]
    <3>1. files' = [files EXCEPT ![c.fd] = opened]
      BY <1>0, <1>a, <2>2 DEF VfsTypeOK
    <3>2. opened \in [status : {"NOT_USED", "INITING", "READY", "CLOSING"},
                     mp : MountPoint \cup {None}, path : Path \cup {<<>>}]
      BY <1>a, <2>2 DEF VfsTypeOK
    <3>3. opened.status = files[c.fd].status /\ opened.mp = c.mp /\ opened.path = c.path
      OBVIOUS
    <3> HIDE DEF opened
    <3> QED BY <1>a, <2>2, <3>1, <3>2, <3>3 DEF VfsTypeOK
  <2>3. CASE c.op \notin {"open", "close"}
    BY <1>0, <2>3 DEF VfsTypeOK
  <2> QED BY <2>1, <2>2, <2>3
<1>d. /\ pc'[t] = "operation" /\ \A u \in Task \ {t} : pc'[u] = pc[u]
      /\ \A u \in Task : call'[u] = call[u] /\ dir'[u] = dir[u]
      /\ Mounted' = Mounted
  BY <1>0, <1>b DEF VfsTypeOK, Mounted
<1>1. VfsTypeOK'
  BY <1>0, <1>b, <1>c DEF VfsTypeOK, Places
<1>2. CallsOK'
  BY <1>0, <1>d DEF CallsOK, Doing
<1>3. LocksOK'
  <2> SUFFICES ASSUME NEW u \in Task
               PROVE  (LocksOK!(u))'
    BY DEF LocksOK
  <2>1. CASE u = t
    BY <1>a, <1>b, <1>d, <1>e, <2>1
  <2>2. CASE u # t
    <3>1. pc[u] \in {"operation", "post"} => call[u].mp # c.mp
      BY <1>0, <1>e, VfsAssumption DEF LocksOK
    <3>2. pc[u] \in {"operation", "post"} => call[u].mp \in MountPoint
      BY DEF CallsOK, Mounted
    <3> QED BY <1>0, <1>b, <1>d, <2>2, <3>1, <3>2 DEF LocksOK
  <2> QED BY <2>1, <2>2
<1>4. FilesOK'
  <2> SUFFICES ASSUME NEW u \in Task
               PROVE  (FilesOK!(u))'
    BY DEF FilesOK
  <2>0. \A v \in Task : pc[v] \in {"m_mutex", "operation"} => call[v].mp \in MountPoint
    BY DEF CallsOK, Mounted
  <2>1. CASE u = t
    BY <1>0, <1>a, <1>b, <1>c, <1>d, <1>e, <2>1 DEF CallsOK, LocksOK, FilesOK, Doing
  <2>2. CASE u # t
    <3>1. Doing(u, {"use"}, {"operation"}) => call[u].mp # c.mp
      BY <1>0, <1>e, VfsAssumption DEF LocksOK, Doing
    <3> QED BY <1>0, <1>a, <1>b, <1>c, <1>d, <1>e, <2>0, <2>2, <3>1
            DEF CallsOK, LocksOK, FilesOK, Doing
  <2> QED BY <2>1, <2>2
<1>5. CountsOK'
  <2>1. \A m \in Mounted : FilesAt(m)' \subseteq FilesAt(m)
    BY <1>0, <1>a, <1>c, <1>d, <1>e DEF CallsOK, FilesOK, FilesAt, Closing, Doing, Mounted
  <2>2. \A fd \in FD : files'[fd].status = "READY" =>
             /\ files[fd].status = "READY"
             /\ files'[fd].mp = files[fd].mp /\ files'[fd].path = files[fd].path
    BY <1>0, <1>a, <1>c, <1>e DEF FilesOK, Doing
  <2> QED BY <1>0, <1>1, <1>b, <2>1, <2>2, CountsFrame
<1> QED BY <1>1, <1>2, <1>3, <1>4, <1>5

\* The counter of the mount point an operation is over at.
LEMMA CountFacts ==
  ASSUME VfsTypeOK, NEW m \in MountPoint, NEW n \in Int, mp' = [mp EXCEPT ![m].refs = n]
  PROVE  /\ mp' \in [MountPoint -> [path : MountPath \cup {None}, refs : Int, mutex : Task \cup {NoTask}]]
         /\ \A k \in MountPoint :
              /\ mp'[k].path = mp[k].path /\ mp'[k].mutex = mp[k].mutex
              /\ mp'[k].refs = IF k = m THEN n ELSE mp[k].refs
BY DEF VfsTypeOK

\* What the end of an operation changes.
LEMMA OperationFacts ==
  ASSUME IInv, NEW t \in Task, OperationDone(t)
  PROVE  LET c == call[t] IN
         /\ c.mp \in Mounted /\ c.mp \in MountPoint
         /\ c.op \in {"open", "close"} => c.fd \in FD
         /\ mp' \in [MountPoint -> [path : MountPath \cup {None}, refs : Int, mutex : Task \cup {NoTask}]]
         /\ \A m \in MountPoint :
              /\ mp'[m].path = mp[m].path /\ mp'[m].mutex = mp[m].mutex
              /\ mp'[m].refs = IF m # c.mp THEN mp[m].refs
                               ELSE IF c.op \in {"open", "opendir"} THEN mp[m].refs + 1
                               ELSE IF c.op \in {"close", "closedir"} THEN mp[m].refs - 1
                               ELSE mp[m].refs
         /\ files' = IF c.op = "open" THEN [files EXCEPT ![c.fd].status = "READY"] ELSE files
         /\ dir' = IF c.op = "opendir" THEN [dir EXCEPT ![t] = [mp |-> c.mp, path |-> c.path]]
                   ELSE IF c.op = "closedir" THEN [dir EXCEPT ![t] = NoDir] ELSE dir
         /\ pc[t] = "operation" /\ pc' = [pc EXCEPT ![t] = "post"]
         /\ UNCHANGED <<fsMutex, fileSystem, call>>
<1> USE DEF IInv
<1> DEFINE c == call[t]
           refs == mp[c.mp].refs
<1>1. /\ c.mp \in Mounted /\ c.mp \in MountPoint
      /\ c.op \in {"open", "close"} => c.fd \in FD
      /\ refs \in Int
      /\ c.op \in (OfPath \ {"bare"}) \cup OfFile \cup OfDir
  BY DEF VfsTypeOK, CallsOK, Doing, Mounted, OperationDone
<1>2. /\ pc[t] = "operation" /\ pc' = [pc EXCEPT ![t] = "post"]
      /\ UNCHANGED <<fsMutex, fileSystem, call>>
  BY DEF OperationDone, Goto
<1>3. CASE c.op \in {"open", "opendir"}
  <2>1. mp' = [mp EXCEPT ![c.mp].refs = refs + 1]
    BY <1>3 DEF OperationDone, Count
  <2>2. /\ files' = IF c.op = "open" THEN [files EXCEPT ![c.fd].status = "READY"] ELSE files
        /\ dir' = IF c.op = "opendir" THEN [dir EXCEPT ![t] = [mp |-> c.mp, path |-> c.path]] ELSE dir
    BY <1>3 DEF OperationDone
  <2>3. refs + 1 \in Int
    BY <1>1
  <2>4. VfsTypeOK
    OBVIOUS
  <2>5. /\ mp' \in [MountPoint -> [path : MountPath \cup {None}, refs : Int, mutex : Task \cup {NoTask}]]
        /\ \A m \in MountPoint :
             /\ mp'[m].path = mp[m].path /\ mp'[m].mutex = mp[m].mutex
             /\ mp'[m].refs = IF m = c.mp THEN refs + 1 ELSE mp[m].refs
    <3> HIDE DEF c, refs, IInv
    <3>1. PICK m \in MountPoint : m = c.mp
      BY <1>1
    <3>2. PICK n \in Int : n = refs + 1
      BY <2>3
    <3>3. mp' = [mp EXCEPT ![m].refs = n]
      BY ONLY <2>1, <3>1, <3>2
    <3>4. /\ mp' \in [MountPoint -> [path : MountPath \cup {None}, refs : Int, mutex : Task \cup {NoTask}]]
          /\ \A j \in MountPoint : /\ mp'[j].path = mp[j].path /\ mp'[j].mutex = mp[j].mutex
                                  /\ mp'[j].refs = IF j = m THEN n ELSE mp[j].refs
      BY ONLY ZenonT(60), <2>4, <3>3, m \in MountPoint, n \in Int, CountFacts
    <3> QED BY ONLY <3>1, <3>2, <3>4
  <2> QED BY <1>1, <1>2, <1>3, <2>2, <2>5
<1>4. CASE c.op \in {"close", "closedir"}
  <2>1. mp' = [mp EXCEPT ![c.mp].refs = refs - 1]
    BY <1>4 DEF OperationDone, Count
  <2>2. /\ files' = files
        /\ dir' = IF c.op = "closedir" THEN [dir EXCEPT ![t] = NoDir] ELSE dir
    BY <1>4 DEF OperationDone
  <2>3. refs - 1 \in Int
    BY <1>1
  <2>4. VfsTypeOK
    OBVIOUS
  <2>5. /\ mp' \in [MountPoint -> [path : MountPath \cup {None}, refs : Int, mutex : Task \cup {NoTask}]]
        /\ \A m \in MountPoint :
             /\ mp'[m].path = mp[m].path /\ mp'[m].mutex = mp[m].mutex
             /\ mp'[m].refs = IF m = c.mp THEN refs - 1 ELSE mp[m].refs
    <3> HIDE DEF c, refs, IInv
    <3>1. PICK m \in MountPoint : m = c.mp
      BY <1>1
    <3>2. PICK n \in Int : n = refs - 1
      BY <2>3
    <3>3. mp' = [mp EXCEPT ![m].refs = n]
      BY ONLY <2>1, <3>1, <3>2
    <3>4. /\ mp' \in [MountPoint -> [path : MountPath \cup {None}, refs : Int, mutex : Task \cup {NoTask}]]
          /\ \A j \in MountPoint : /\ mp'[j].path = mp[j].path /\ mp'[j].mutex = mp[j].mutex
                                  /\ mp'[j].refs = IF j = m THEN n ELSE mp[j].refs
      BY ONLY <2>4, <3>3, m \in MountPoint, n \in Int, CountFacts
    <3> QED BY ONLY <3>1, <3>2, <3>4
  <2> QED BY <1>1, <1>2, <1>4, <2>2, <2>5
<1>5. CASE c.op \notin {"open", "opendir", "close", "closedir"}
  <2>1. mp' = mp /\ files' = files /\ dir' = dir
    BY <1>5 DEF OperationDone
  <2> QED BY <1>1, <1>2, <1>5, <2>1 DEF VfsTypeOK
<1> QED BY <1>3, <1>4, <1>5

\* m_refs follows what is open: it changes with the file or the directory.
LEMMA OperationDoneInv ==
  ASSUME IInv, NEW t \in Task, OperationDone(t)
  PROVE  IInv'
<1> USE DEF IInv
<1> DEFINE c == call[t]
<1>0. /\ c.mp \in Mounted /\ c.mp \in MountPoint
      /\ c.op \in {"open", "close"} => c.fd \in FD
      /\ mp' \in [MountPoint -> [path : MountPath \cup {None}, refs : Int, mutex : Task \cup {NoTask}]]
      /\ \A m \in MountPoint :
           /\ mp'[m].path = mp[m].path /\ mp'[m].mutex = mp[m].mutex
           /\ mp'[m].refs = IF m # c.mp THEN mp[m].refs
                            ELSE IF c.op \in {"open", "opendir"} THEN mp[m].refs + 1
                            ELSE IF c.op \in {"close", "closedir"} THEN mp[m].refs - 1
                            ELSE mp[m].refs
      /\ files' = IF c.op = "open" THEN [files EXCEPT ![c.fd].status = "READY"] ELSE files
      /\ dir' = IF c.op = "opendir" THEN [dir EXCEPT ![t] = [mp |-> c.mp, path |-> c.path]]
                ELSE IF c.op = "closedir" THEN [dir EXCEPT ![t] = NoDir] ELSE dir
      /\ pc[t] = "operation" /\ pc' = [pc EXCEPT ![t] = "post"]
      /\ UNCHANGED <<fsMutex, fileSystem, call>>
  BY OperationFacts
<1>a. /\ c.op \in {"open", "opendir"} => c.path \in Path /\ IsPrefix(mp[c.mp].path, c.path)
      /\ c.op \in OfPath \cup OfFile \cup OfDir
      /\ c.op = "closedir" => dir[t].mp = c.mp
      /\ c.op = "open" => files[c.fd].status = "INITING" /\ files[c.fd].mp = c.mp
                            /\ files[c.fd].path = c.path
      /\ c.op = "close" => files[c.fd].status = "CLOSING" /\ files[c.fd].mp = c.mp
  BY <1>0 DEF CallsOK, FilesOK, Doing
<1>b. /\ files' \in [FD -> [status : {"NOT_USED", "INITING", "READY", "CLOSING"},
                            mp : MountPoint \cup {None}, path : Path \cup {<<>>}]]
      /\ \A fd \in FD : /\ files'[fd].mp = files[fd].mp /\ files'[fd].path = files[fd].path
                        /\ files'[fd].status = IF c.op = "open" /\ fd = c.fd THEN "READY"
                                                                             ELSE files[fd].status
  BY <1>0, <1>a DEF VfsTypeOK
<1>c. /\ dir' \in [Task -> [mp : MountPoint \cup {None}, path : Path \cup {<<>>}]]
      /\ dir'[t] = IF c.op = "opendir" THEN [mp |-> c.mp, path |-> c.path]
                   ELSE IF c.op = "closedir" THEN NoDir ELSE dir[t]
      /\ \A u \in Task \ {t} : dir'[u] = dir[u]
  BY <1>0, <1>a DEF VfsTypeOK, NoDir
<1>d. /\ pc'[t] = "post" /\ \A u \in Task \ {t} : pc'[u] = pc[u]
      /\ \A u \in Task : call'[u] = call[u]
      /\ Mounted' = Mounted /\ \A m \in Mounted : m \in MountPoint /\ mp[m].refs \in Int
  BY <1>0 DEF VfsTypeOK, Mounted
<1> HIDE DEF c
<1>e. /\ call[t].op = c.op /\ call[t].fd = c.fd /\ call[t].mp = c.mp /\ call[t].path = c.path
  BY DEF c
<1>1. VfsTypeOK'
  BY <1>0, <1>b, <1>c DEF VfsTypeOK, Places
<1>2. CallsOK'
  BY <1>0, <1>d DEF CallsOK, Doing
<1>3. LocksOK'
  BY <1>0, <1>d DEF CallsOK, LocksOK, Mounted
<1>4. FilesOK'
  <2> SUFFICES ASSUME NEW u \in Task
               PROVE  (FilesOK!(u))'
    BY DEF FilesOK
  <2>0. \A v \in Task : pc[v] \in {"m_mutex", "operation"} => call[v].mp \in MountPoint
    BY DEF CallsOK, Mounted
  <2>1. CASE u = t
    BY <1>0, <1>a, <1>b, <1>c, <1>d, <1>e, <2>1 DEF CallsOK, LocksOK, FilesOK, Doing
  <2>2. CASE u # t
    BY <1>0, <1>a, <1>b, <1>c, <1>d, <1>e, <2>0, <2>2 DEF CallsOK, LocksOK, FilesOK, Doing
  <2> QED BY <2>1, <2>2
<1>5. CountsOK'
  <2>1. ASSUME NEW m \in Mounted
        PROVE  mp'[m].refs >= Cardinality(FilesAt(m)') + Cardinality(DirsAt(m)')
    <3>0. /\ mp[m].refs >= Cardinality(FilesAt(m)) + Cardinality(DirsAt(m))
          /\ mp[m].refs \in Int /\ mp'[m].refs \in Int /\ m \in MountPoint
      BY <1>0, <1>d DEF CountsOK
    <3>1. CASE m = c.mp /\ c.op = "open"
      <4>1. FilesAt(m)' \subseteq FilesAt(m) \cup {c.fd} /\ DirsAt(m)' = DirsAt(m)
        BY <1>0, <1>a, <1>b, <1>c, <1>d, <1>e, <3>1 DEF FilesAt, DirsAt, Closing, Doing
      <4>2. Cardinality(FilesAt(m)') <= Cardinality(FilesAt(m)) + 1 /\ Cardinality(FilesAt(m)') \in Nat
        BY <4>1, CountsFinite, OneMore
      <4> QED BY <1>0, <3>0, <3>1, <4>1, <4>2, CountsFinite
    <3>2. CASE m = c.mp /\ c.op = "close"
      <4>1. FilesAt(m)' \subseteq FilesAt(m) \ {c.fd} /\ DirsAt(m)' = DirsAt(m) /\ c.fd \in FilesAt(m)
        BY <1>0, <1>a, <1>b, <1>c, <1>d, <1>e, <3>2 DEF FilesOK, FilesAt, DirsAt, Closing, Doing
      <4>2. Cardinality(FilesAt(m)') <= Cardinality(FilesAt(m)) - 1 /\ Cardinality(FilesAt(m)') \in Nat
        BY <4>1, CountsFinite, FS_RemoveElement, FS_Subset, FS_CardinalityType
      <4> QED BY <1>0, <3>0, <3>2, <4>1, <4>2, CountsFinite
    <3>3. CASE m = c.mp /\ c.op = "opendir"
      <4>1. FilesAt(m)' \subseteq FilesAt(m) /\ DirsAt(m)' \subseteq DirsAt(m) \cup {t}
        BY <1>0, <1>a, <1>b, <1>c, <1>d, <1>e, <3>3 DEF FilesAt, DirsAt, Closing, Doing
      <4>2. Cardinality(FilesAt(m)') <= Cardinality(FilesAt(m)) /\ Cardinality(FilesAt(m)') \in Nat
        BY <4>1, CountsFinite, FS_Subset, FS_CardinalityType
      <4>3. Cardinality(DirsAt(m)') <= Cardinality(DirsAt(m)) + 1 /\ Cardinality(DirsAt(m)') \in Nat
        BY <4>1, CountsFinite, OneMore
      <4> QED BY <1>0, <3>0, <3>3, <4>2, <4>3, CountsFinite
    <3>4. CASE m = c.mp /\ c.op = "closedir"
      <4>1. FilesAt(m)' \subseteq FilesAt(m) /\ DirsAt(m)' \subseteq DirsAt(m) \ {t} /\ t \in DirsAt(m)
        BY <1>0, <1>a, <1>b, <1>c, <1>d, <1>e, <3>4, VfsAssumption DEF FilesAt, DirsAt, Closing, Doing, NoDir
      <4>2. Cardinality(FilesAt(m)') <= Cardinality(FilesAt(m)) /\ Cardinality(FilesAt(m)') \in Nat
        BY <4>1, CountsFinite, FS_Subset, FS_CardinalityType
      <4>3. Cardinality(DirsAt(m)') <= Cardinality(DirsAt(m)) - 1 /\ Cardinality(DirsAt(m)') \in Nat
        BY <4>1, CountsFinite, FS_RemoveElement, FS_Subset, FS_CardinalityType
      <4> QED BY <1>0, <3>0, <3>4, <4>2, <4>3, CountsFinite
    <3>5. CASE m # c.mp \/ c.op \notin {"open", "close", "opendir", "closedir"}
      <4>1. FilesAt(m)' \subseteq FilesAt(m) /\ DirsAt(m)' \subseteq DirsAt(m)
        BY <1>0, <1>a, <1>b, <1>c, <1>d, <1>e, <3>5, VfsAssumption DEF FilesAt, DirsAt, Closing, Doing, NoDir
      <4>2. /\ Cardinality(FilesAt(m)') <= Cardinality(FilesAt(m)) /\ Cardinality(FilesAt(m)') \in Nat
            /\ Cardinality(DirsAt(m)') <= Cardinality(DirsAt(m)) /\ Cardinality(DirsAt(m)') \in Nat
        BY <4>1, CountsFinite, FS_Subset, FS_CardinalityType
      <4>3. mp'[m].refs = mp[m].refs
        BY <1>0, <3>0, <3>5
      <4> QED BY <3>0, <4>2, <4>3, CountsFinite
    <3> QED BY <3>1, <3>2, <3>3, <3>4, <3>5
  <2>2. \A fd \in FD : files'[fd].status = "READY" =>
          files'[fd].mp \in Mounted' /\ IsPrefix(mp'[files'[fd].mp].path, files'[fd].path)
    BY <1>0, <1>a, <1>b, <1>d DEF CountsOK
  <2>3. \A u \in Task : dir'[u].mp # None =>
          dir'[u].mp \in Mounted' /\ IsPrefix(mp'[dir'[u].mp].path, dir'[u].path)
    BY <1>0, <1>a, <1>c, <1>d DEF CountsOK, NoDir
  <2>4. \A u \in Task : dir'[u].mp = None => dir'[u] = NoDir
    BY <1>0, <1>c, VfsAssumption DEF CountsOK
  <2> QED BY <1>0, <1>d, <2>1, <2>2, <2>3, <2>4 DEF CountsOK
<1> QED BY <1>1, <1>2, <1>3, <1>4, <1>5

\* Registering the file system does not touch mount points, and unregistering needs none.
LEMMA RegisterInv ==
  ASSUME IInv, NEW t \in Task, los_fs_register(t) \/ los_fs_unregister(t)
  PROVE  IInv'
<1> USE DEF IInv
<1>0. /\ UNCHANGED <<fsMutex, mp, files, dir, pc, call>>
      /\ fileSystem' \in [registered : BOOLEAN, refs : Int]
      /\ fileSystem'.refs = Cardinality(Mounted) /\ (Mounted # {} => fileSystem'.registered)
  <2>1. CASE los_fs_register(t)
    <3>1. fileSystem' = [registered |-> TRUE, refs |-> 0] /\ ~fileSystem.registered
      BY <2>1 DEF los_fs_register
    <3>2. Mounted = {}
      BY <3>1 DEF CountsOK
    <3> QED BY <2>1, <3>1, <3>2, FS_EmptySet DEF los_fs_register, Administers
  <2>2. CASE los_fs_unregister(t)
    <3>1. fileSystem' = [fileSystem EXCEPT !.registered = FALSE] /\ fileSystem.refs = 0
      BY <2>2 DEF los_fs_unregister
    <3>2. Mounted = {}
      BY <3>1, CountsFinite, FS_EmptySet DEF CountsOK
    <3> QED BY <2>2, <3>1, <3>2 DEF los_fs_unregister, Administers, VfsTypeOK, CountsOK
  <2> QED BY <2>1, <2>2
<1>1. VfsTypeOK'
  BY <1>0 DEF VfsTypeOK
<1>2. CallsOK' /\ LocksOK' /\ FilesOK'
  BY <1>0 DEF CallsOK, LocksOK, FilesOK, Doing, Mounted
<1>3. Mounted' = Mounted /\ \A m : FilesAt(m)' = FilesAt(m) /\ DirsAt(m)' = DirsAt(m)
  BY <1>0 DEF Mounted, FilesAt, DirsAt, Closing, Doing
<1>4. CountsOK'
  BY <1>0, <1>3 DEF CountsOK
<1> QED BY <1>1, <1>2, <1>4

\* A new mount point counts for the file system and has nothing open.
LEMMA MountInv ==
  ASSUME IInv, NEW t \in Task, NEW path \in MountPath, los_fs_mount(t, path)
  PROVE  IInv'
<1> USE DEF IInv
<1>0. PICK m \in MountPoint \ Mounted :
      /\ mp' = [mp EXCEPT ![m] = [path |-> path, refs |-> 0, mutex |-> NoTask]]
      /\ UNCHANGED <<fsMutex, files, dir, pc, call>>
      /\ fileSystem.registered /\ fileSystem' = [fileSystem EXCEPT !.refs = @ + 1]
  <2>1. Mounted # MountPoint /\ Mounted \subseteq MountPoint
    BY DEF los_fs_mount, Mounted
  <2>2. [NoMount EXCEPT !.path = path] = [path |-> path, refs |-> 0, mutex |-> NoTask]
    BY DEF NoMount
  <2> QED BY <2>1, <2>2 DEF los_fs_mount, Administers
<1>a. /\ mp' \in [MountPoint -> [path : MountPath \cup {None}, refs : Int, mutex : Task \cup {NoTask}]]
      /\ mp'[m].path = path /\ mp'[m].refs = 0
      /\ \A n \in MountPoint \ {m} : mp'[n] = mp[n]
      /\ path # None
  BY <1>0, VfsAssumption DEF VfsTypeOK
<1>b. Mounted' = Mounted \cup {m}
  BY <1>0, <1>a DEF Mounted
<1>c. \A n : FilesAt(n)' = FilesAt(n) /\ DirsAt(n)' = DirsAt(n)
  BY <1>0 DEF FilesAt, DirsAt, Closing, Doing
<1>d. /\ fileSystem' \in [registered : BOOLEAN, refs : Int]
      /\ fileSystem'.refs = fileSystem.refs + 1 /\ fileSystem'.registered
  <2>1. fileSystem' = [fileSystem EXCEPT !.refs = fileSystem.refs + 1] /\ fileSystem.registered
    BY <1>0, Zenon
  <2> QED BY <2>1 DEF VfsTypeOK
<1>1. VfsTypeOK'
  BY <1>0, <1>a, <1>d DEF VfsTypeOK
<1>2. CallsOK'
  BY <1>0, <1>b DEF CallsOK, Doing
<1>3. LocksOK'
  BY <1>0, <1>a DEF CallsOK, LocksOK, Mounted
<1>4. FilesOK'
  BY <1>0, <1>a DEF CallsOK, FilesOK, Doing, Mounted
<1>5. CountsOK'
  <2>1. FilesAt(m) = {} /\ DirsAt(m) = {}
    BY <1>0, VfsAssumption DEF CountsOK, CallsOK, FilesOK, FilesAt, DirsAt, Closing, Doing
  <2>2. mp'[m].refs >= Cardinality(FilesAt(m)') + Cardinality(DirsAt(m)')
    <3>1. FilesAt(m)' = {} /\ DirsAt(m)' = {}
      BY <1>c, <2>1
    <3>2. Cardinality({}) = 0
      BY FS_EmptySet
    <3> QED BY <1>a, <3>1, <3>2
  <2>3. \A n \in Mounted' : mp'[n].refs >= Cardinality(FilesAt(n)') + Cardinality(DirsAt(n)')
    BY <1>0, <1>a, <1>b, <1>c, <2>2 DEF CountsOK, Mounted
  <2>4. fileSystem'.refs = Cardinality(Mounted') /\ fileSystem'.registered
    <3>1. IsFiniteSet(Mounted) /\ m \notin Mounted
      BY CountsFinite
    <3>2. Cardinality(Mounted \cup {m}) = Cardinality(Mounted) + 1
      BY <3>1, FS_AddElement
    <3> QED BY <1>b, <1>d, <3>2 DEF CountsOK
  <2>5. \A n \in Mounted : n \in Mounted' /\ mp'[n].path = mp[n].path
    BY <1>0, <1>a, <1>b DEF Mounted
  <2> QED BY <1>0, <2>3, <2>4, <2>5 DEF CountsOK
<1> QED BY <1>1, <1>2, <1>3, <1>4, <1>5

\* Nothing is open at a mount point that is unmounted, and no call is at it.
LEMMA UnmountInv ==
  ASSUME IInv, UnmountRaces = FALSE, NEW t \in Task, NEW path \in MountPath, los_fs_unmount(t, path)
  PROVE  IInv'
<1> USE DEF IInv
<1> DEFINE m == Exactly(path)
<1>0. /\ mp[m].refs = 0 /\ m # None
      /\ \A u \in Task : ~IsAt(u, m)
      /\ mp' = [mp EXCEPT ![m] = NoMount]
      /\ UNCHANGED <<fsMutex, files, dir, pc, call>>
      /\ fsMutex = NoTask
      /\ fileSystem' = [fileSystem EXCEPT !.refs = @ - 1]
  BY DEF los_fs_unmount, Administers
<1>1. m \in Mounted
  BY <1>0, ExactlyFacts
<1> HIDE DEF m
<1>a. /\ mp' \in [MountPoint -> [path : MountPath \cup {None}, refs : Int, mutex : Task \cup {NoTask}]]
      /\ mp'[m].path = None /\ m \in MountPoint
      /\ \A n \in MountPoint \ {m} : mp'[n] = mp[n]
  BY <1>0, <1>1 DEF VfsTypeOK, NoMount, Mounted
<1>b. Mounted' = Mounted \ {m}
  BY <1>a DEF Mounted
<1>c. \A n : FilesAt(n)' = FilesAt(n) /\ DirsAt(n)' = DirsAt(n)
  BY <1>0 DEF FilesAt, DirsAt, Closing, Doing
<1>2. VfsTypeOK'
  BY <1>0, <1>a DEF VfsTypeOK
<1>3. \A u \in Task : pc[u] \in {"m_mutex", "operation", "post"} =>
        call[u].mp \in Mounted \ {m} /\ call[u].mp \in MountPoint \ {m}
  BY <1>0 DEF IsAt, CallsOK, Mounted
<1>4. CallsOK'
  BY <1>0, <1>b, <1>3 DEF CallsOK, Doing
<1>5. LocksOK'
  BY <1>0, <1>a, <1>3 DEF LocksOK
<1>6. FilesOK'
  BY <1>0, <1>a, <1>3 DEF FilesOK, Doing
<1>7. CountsOK'
  <2>1. FilesAt(m) = {} /\ DirsAt(m) = {}
    <3>1. Cardinality(FilesAt(m)) = 0 /\ Cardinality(DirsAt(m)) = 0
      BY <1>0, <1>1, CountsFinite DEF CountsOK
    <3> QED BY <3>1, CountsFinite, FS_EmptySet
  <2>2. \A n \in Mounted' : mp'[n].refs >= Cardinality(FilesAt(n)') + Cardinality(DirsAt(n)')
    BY <1>a, <1>b, <1>c DEF CountsOK, Mounted
  <2>3. fileSystem'.refs = Cardinality(Mounted') /\ fileSystem'.registered = fileSystem.registered
    BY ZenonT(60), <1>0, <1>1, <1>b, CountsFinite, FS_RemoveElement DEF CountsOK, VfsTypeOK
  <2>4. \A n \in Mounted \ {m} : n \in Mounted' /\ mp'[n].path = mp[n].path
    BY <1>a, <1>b DEF Mounted
  <2>5. /\ \A fd \in FD : files[fd].status = "READY" => files[fd].mp # m
        /\ \A u \in Task : dir[u].mp # m
    BY <2>1 DEF FilesAt, DirsAt
  <2> QED BY <1>0, <1>b, <2>2, <2>3, <2>4, <2>5 DEF CountsOK
<1> QED BY <1>2, <1>4, <1>5, <1>6, <1>7
-----------------------------------------------------------------------------
(* The theorems *)

\* The invariant holds at the start, when nothing is mounted.
LEMMA InitInv == VfsInit => IInv
<1> SUFFICES ASSUME VfsInit
             PROVE  IInv
  OBVIOUS
<1> USE DEF VfsInit, NoMount, NoFile, NoDir, NoCall, Call
<1>1. VfsTypeOK
  BY DEF VfsTypeOK, Places
<1>2. CallsOK /\ LocksOK /\ FilesOK
  BY DEF CallsOK, LocksOK, FilesOK, Doing
<1>3. Mounted = {} /\ \A m : m # None => FilesAt(m) = {} /\ DirsAt(m) = {}
  BY DEF Mounted, FilesAt, DirsAt, Closing, Doing
<1>4. CountsOK
  BY <1>3, FS_EmptySet DEF CountsOK
<1> QED BY <1>1, <1>2, <1>4 DEF IInv

\* The start of any call keeps the invariant.
LEMMA BeginInv ==
  ASSUME IInv, NEW t \in Task, Begin(t)
  PROVE  IInv'
<1>1. ASSUME NEW op \in OfPath, NEW path \in Path, Ask(t, Call(op, path, None, None))
      PROVE  IInv'
  BY <1>1, AskInv DEF Call
<1>2. ASSUME NEW op \in OfFile, NEW fd \in FD, Ask(t, Call(op, <<>>, fd, None))
      PROVE  IInv'
  BY <1>2, AskInv DEF Call
<1> QED BY <1>1, <1>2, AskDirInv DEF Begin

\* Every step keeps the invariant, if nobody unmounts a mount point that a call is at.
LEMMA StepInv ==
  ASSUME UnmountRaces = FALSE, IInv, [Next]_vars
  PROVE  IInv'
<1>1. ASSUME NEW t \in Task, Begin(t)
      PROVE  IInv'
  BY <1>1, BeginInv
<1>2. ASSUME NEW t \in Task, Administration(t)
      PROVE  IInv'
  BY <1>2, RegisterInv, MountInv, UnmountInv DEF Administration
<1>3. ASSUME NEW t \in Task, Lock(t)
      PROVE  IInv'
  BY <1>3, EnterInv, EnterFailsInv, LockMountPointInv DEF Lock
<1>4. ASSUME NEW t \in Task, Proceed(t)
      PROVE  IInv'
  BY <1>4, OperationDoneInv, OperationFailsInv, PostMountPointInv, FilePutInv, BareDoneInv, FailInv
     DEF Proceed
<1>5. CASE UNCHANGED vars
  <2> USE <1>5 DEF vars, IInv
  <2>1. VfsTypeOK' /\ CallsOK' /\ LocksOK' /\ FilesOK'
    BY DEF VfsTypeOK, CallsOK, LocksOK, FilesOK, Doing, Mounted
  <2>2. Mounted' = Mounted /\ \A m : FilesAt(m)' = FilesAt(m) /\ DirsAt(m)' = DirsAt(m)
    BY DEF Mounted, FilesAt, DirsAt, Closing, Doing
  <2>3. CountsOK'
    BY <2>2 DEF CountsOK
  <2> QED BY <2>1, <2>3
<1> QED BY <1>1, <1>2, <1>3, <1>4, <1>5 DEF Next

\* So it holds in every state.
LEMMA Invariance == UnmountRaces = FALSE => (Spec => []IInv)
<1> SUFFICES ASSUME UnmountRaces = FALSE
             PROVE  Spec => []IInv
  OBVIOUS
<1>1. VfsInit => IInv
  BY InitInv
<1>2. IInv /\ [Next]_vars => IInv'
  BY StepInv
<1> QED BY <1>1, <1>2, PTL DEF Spec

\* The two mutexes keep a file attached: while an operation of the file system runs, nobody
\* else works at its mount point and its file is what the call found, however many tasks open,
\* use and close files at once (_los_attach_file).
THEOREM FilesAttached == UnmountRaces = FALSE => (Spec => []FileStaysAttached)
<1> SUFFICES ASSUME UnmountRaces = FALSE
             PROVE  Spec => []FileStaysAttached
  OBVIOUS
<1>1. IInv => FileStaysAttached
  BY VfsAssumption DEF IInv, CallsOK, LocksOK, FilesOK, FileStaysAttached, Doing
<1> QED BY <1>1, Invariance, PTL

\* The counters keep mount points: whatever is open is in a mount point that is mounted where
\* its path leads and that counts it, so that los_fs_unmount refuses, and what is mounted keeps
\* the file system registered.
THEOREM MountsKept == UnmountRaces = FALSE => (Spec => []OpenKeepsMount)
<1> SUFFICES ASSUME UnmountRaces = FALSE
             PROVE  Spec => []OpenKeepsMount
  OBVIOUS
<1>1. ASSUME IInv
      PROVE  OpenKeepsMount
  <2> USE <1>1 DEF IInv
  <2>1. ASSUME NEW m \in Mounted
        PROVE  mp[m].refs >= OpenAt(m)
    <3> DEFINE ready == {fd \in FD : files[fd].status = "READY" /\ files[fd].mp = m}
    <3>1. ready \subseteq FilesAt(m) /\ OpenAt(m) = Cardinality(ready) + Cardinality(DirsAt(m))
      BY DEF FilesAt, DirsAt, OpenAt
    <3>2. Cardinality(ready) \in Nat /\ Cardinality(ready) <= Cardinality(FilesAt(m))
      BY <3>1, CountsFinite, FS_Subset, FS_CardinalityType
    <3>3. mp[m].refs \in Int /\ mp[m].refs >= Cardinality(FilesAt(m)) + Cardinality(DirsAt(m))
      BY DEF CountsOK, VfsTypeOK, Mounted
    <3> QED BY <3>1, <3>2, <3>3, CountsFinite
  <2>2. \A t \in Task : dir[t] # NoDir => dir[t].mp # None
    BY DEF CountsOK
  <2> QED BY <2>1, <2>2 DEF CountsOK, OpenKeepsMount
<1> QED BY <1>1, Invariance, PTL
=============================================================================
