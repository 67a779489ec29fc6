-------------------------- MODULE LosSemEventProofs --------------------------
(***************************************************************************)
(* What semaphores guarantee, and the mail blocks of a pool beside them,   *)
(* for every number of tasks, semaphores and blocks; and what events       *)
(* guarantee, for every number of tasks and events and every set of bits.  *)
(* All of it for every choice of the calls that tasks and handlers make.   *)
(***************************************************************************)
EXTENDS LosMail, LosEvent, LosTaskProofs, FiniteSetTheorems, WellFoundedInduction

-----------------------------------------------------------------------------
(***************************************************************************)
(* The invariant.  As in LosTaskProofs, P is the points of the tasks' code *)
(* in the system that semaphores are a part of.                            *)
(***************************************************************************)

SemAt == {"sem_schedule", "sem_return"}

HasSem(P) ==
  /\ Points(P) /\ SemAt \subseteq P.all
  /\ "sem_schedule" \in P.window /\ "sem_return" \notin P.window

SemPoints == [all |-> SemPC, window |-> {"schedule", "exit", "sem_schedule"}, strict |-> TRUE]

SemTyped == sem \in [Sem -> SemCB] /\ \A s \in Sem : sem[s].count <= sem[s].max

\* The tasks on the list of a semaphore are blocked in LOS_SemPend.
SemWaiters ==
  \A s \in Sem : \A t \in ToSet(k.list[s]) :
    t \in Task /\ pc[t] \in SemAt /\ "PEND" \in k.status[t]

SemLocal == SemTyped /\ SemWaiters /\ NoIdleToken

SemInv(P) == IInv(P) /\ SemLocal

-----------------------------------------------------------------------------
(* Steps that leave the control blocks alone *)

\* A step that touches no list of a semaphore and no call of LOS_SemPend.
LEMMA StillSem ==
  ASSUME SemLocal, Still(Sem, SemAt), UNCHANGED sem
  PROVE  SemLocal'
<1>1. SemTyped'
  BY DEF SemLocal, SemTyped
<1>2. \A s \in Sem : k'.list[s] = k.list[s]
  BY DEF Still
<1>3. SemWaiters'
  <2> SUFFICES ASSUME NEW s \in Sem, NEW t \in ToSet(k.list[s])
               PROVE  t \in Task /\ pc'[t] \in SemAt /\ "PEND" \in k'.status[t]
    BY <1>2 DEF SemWaiters
  <2>1. t \in Task /\ t \in TaskID /\ pc[t] \in SemAt /\ "PEND" \in k.status[t]
    BY DEF SemLocal, SemWaiters, TaskID
  <2>2. pc'[t] = pc[t] /\ k'.status[t] \cap Limbo = k.status[t] \cap Limbo
    BY <2>1 DEF Still
  <2> QED BY <2>1, <2>2 DEF Limbo, Waiting
<1>4. NoIdleToken'
  BY <1>2 DEF SemLocal, NoIdleToken
<1> QED BY <1>1, <1>3, <1>4 DEF SemLocal

\* A task that leaves its list, seen on the lists of the semaphores.
LEMMA SemLists ==
  ASSUME k \in Kernel, ListsOK(k), NEW t \in TaskID, Leaves(t)
  PROVE  \A s \in Sem : /\ ToSet(k'.list[s]) = ToSet(k.list[s]) \ {t}
                        /\ t \notin ToSet(k.list[s]) => k'.list[s] = k.list[s]
                        /\ k'.list[s] # <<>> => k.list[s] # <<>>
<1>1. Sem \in SUBSET WaitList
  BY SemAssumption
<1> QED BY <1>1, LeavesLists

\* A task that leaves its list leaves the others on theirs.
LEMMA LeavesSem ==
  ASSUME k \in Kernel, ListsOK(k), SemLocal, NEW t \in TaskID, Leaves(t), UNCHANGED sem
  PROVE  SemLocal'
<1>1. SemTyped'
  BY DEF SemLocal, SemTyped
<1>2. \A s \in Sem : /\ ToSet(k'.list[s]) = ToSet(k.list[s]) \ {t}
                     /\ k'.list[s] # <<>> => k.list[s] # <<>>
  BY SemLists
<1>3. SemWaiters'
  <2> SUFFICES ASSUME NEW s \in Sem, NEW u \in ToSet(k.list[s]) \ {t}
               PROVE  u \in Task /\ pc'[u] \in SemAt /\ "PEND" \in k'.status[u]
    BY <1>2 DEF SemWaiters
  <2>1. u \in Task /\ u \in TaskID \ {t} /\ pc[u] \in SemAt /\ "PEND" \in k.status[u]
    BY DEF SemLocal, SemWaiters, TaskID
  <2>2. k'.status[u] \cap Limbo = k.status[u] \cap Limbo /\ pc'[u] = pc[u]
    BY <2>1 DEF Leaves, SemAt, PC
  <2> QED BY <2>1, <2>2 DEF Limbo, Waiting
<1>4. NoIdleToken'
  BY <1>2 DEF SemLocal, NoIdleToken
<1> QED BY <1>1, <1>3, <1>4 DEF SemLocal

-----------------------------------------------------------------------------
(* What the calls do *)

\* LOS_SemPend that has to wait.
LEMMA PendWaitEffect ==
  ASSUME NEW P, HasSem(P), SemInv(P), NEW s \in Sem, NEW timeout \in Timeouts,
         LOS_SemPendWait(s, timeout)
  PROVE  /\ IInv(P)' /\ UNCHANGED sem /\ sem[s].used /\ sem[s].count = 0
         /\ k.run \in Task /\ pc[k.run] = "user" /\ pc' = [pc EXCEPT ![k.run] = "sem_schedule"]
         /\ \A w \in WaitList : k'.list[w] = IF w = s THEN Append(k.list[w], k.run) ELSE k.list[w]
         /\ \A u \in TaskID \ {k.run} : k'.status[u] = k.status[u]
         /\ "PEND" \in k'.status[k.run]
<1>1. /\ Calls("task", "SemPend") /\ k.lock = 0 /\ k' = osTaskWait(k, s, "PEND", timeout)
      /\ Goto("sem_schedule") /\ sem' = sem /\ sem[s].used /\ sem[s].count = 0
  BY DEF LOS_SemPendWait
<1>2. /\ s \in WaitList /\ "PEND" \in Waiting /\ timeout \in Nat
      /\ "sem_schedule" \in P.all /\ "sem_schedule" \in P.window /\ "sem_schedule" \notin PC
  BY SemAssumption DEF Waiting, HasSem, SemAt, PC
<1>3. Repriced(k) /\ Points(P) /\ IInv(P)
  BY SameRepriced DEF SemInv, HasSem
<1>4. /\ IInv(P)' /\ k.run \in Task /\ pc' = [pc EXCEPT ![k.run] = "sem_schedule"]
      /\ \A w \in WaitList : k'.list[w] = IF w = s THEN Append(k.list[w], k.run) ELSE k.list[w]
      /\ \A u \in CB \ {k.run} : k'.status[u] = k.status[u]
      /\ "PEND" \in k'.status[k.run]
  BY <1>1, <1>2, <1>3, Blocks
<1>5. pc[k.run] = "user"
  BY <1>1 DEF Calls, At
<1> QED BY <1>1, <1>4, <1>5 DEF CB

\* LOS_SemPost to a waiting task.
LEMMA PostEffect ==
  ASSUME NEW P, HasSem(P), SemInv(P), NEW ctx \in {"task", "isr"}, NEW s \in Sem,
         LOS_SemPost(ctx, s), k.list[s] # <<>>,
         NEW t, t = Head(k.list[s])
  PROVE  /\ IInv(P)' /\ UNCHANGED sem /\ sem[s].used /\ sem[s].count # sem[s].max
         /\ t \in Task /\ t \in ToSet(k.list[s]) /\ pc[t] \in SemAt /\ Served(t)
<1>1. /\ Calls(ctx, "SemPost") /\ sem[s].used /\ sem[s].count # sem[s].max /\ sem' = sem
      /\ ThenSchedule(ctx, osTaskWake(k, t, "PEND"))
  BY DEF LOS_SemPost
<1>2. k \in Kernel /\ Repriced(k) /\ Points(P) /\ IInv(P) /\ "PEND" \in Waiting
  BY SameRepriced DEF SemInv, HasSem, IInv, Typed, Waiting
<1>3. t \in ToSet(k.list[s])
  <2>1. s \in ListHead /\ k.list[s] \in Seq(TaskID)
    BY <1>2, SemAssumption DEF Kernel, ListHead
  <2>2. 1 \in DOMAIN k.list[s] /\ t = k.list[s][1]
    BY <2>1, EmptySeq, LenProperties
  <2> QED BY <2>2 DEF ToSet
<1>4. t \in Task /\ t \in TaskID /\ pc[t] \in SemAt /\ "PEND" \in k.status[t]
  BY <1>3 DEF SemInv, SemLocal, SemWaiters, TaskID
<1>5. k.status[t] \cap Waiting = {"PEND"}
  <2>1. TaskOK(k, t)
    BY <1>2, <1>4 DEF IInv, Sound
  <2> QED BY <1>4, <2>1 DEF TaskOK, Waiting
<1>6. IInv(P)' /\ Served(t)
  BY <1>1, <1>2, <1>4, <1>5, CallServes
<1> QED BY <1>1, <1>3, <1>4, <1>6

\* LOS_SemPend goes on to LOS_Schedule, and returns.
LEMMA PendReturnEffect ==
  ASSUME NEW P, HasSem(P), SemInv(P), SemPendSchedule \/ SemPendReturn
  PROVE  /\ IInv(P)' /\ UNCHANGED sem /\ k'.list = k.list
         /\ k.run \in TaskID /\ pc[k.run] \in SemAt
         /\ \A u \in TaskID \ {k.run} : k'.status[u] = k.status[u]
         /\ SemPendSchedule => /\ pc' = [pc EXCEPT ![k.run] = "sem_return"]
                               /\ k'.status[k.run] = k.status[k.run]
         /\ SemPendReturn => /\ pc' = [pc EXCEPT ![k.run] = "user"]
                             /\ k.status[k.run] \cap Waiting = {}
<1>1. Points(P) /\ IInv(P) /\ "sem_return" \in P.all /\ "sem_return" \notin PC /\ "sem_return" \notin P.window
  BY DEF SemInv, HasSem, SemAt, PC
<1>2. ASSUME SemPendSchedule
      PROVE  /\ IInv(P)' /\ UNCHANGED sem /\ k'.list = k.list
             /\ k.run \in TaskID /\ pc[k.run] = "sem_schedule" /\ k'.status = k.status
             /\ pc' = [pc EXCEPT ![k.run] = "sem_return"]
  BY <1>1, <1>2, Goes DEF SemPendSchedule
<1>3. ASSUME SemPendReturn
      PROVE  /\ IInv(P)' /\ UNCHANGED sem /\ k'.list = k.list
             /\ k.run \in TaskID /\ pc[k.run] = "sem_return"
             /\ \A u \in CB \ {k.run} : k'.status[u] = k.status[u]
             /\ pc' = [pc EXCEPT ![k.run] = "user"] /\ k.status[k.run] \cap Waiting = {}
  BY <1>1, <1>3, Returns DEF SemPendReturn
<1>4. ~(SemPendSchedule /\ SemPendReturn)
  BY DEF SemPendSchedule, SemPendReturn, At
<1> QED BY <1>2, <1>3, <1>4 DEF SemAt, CB

-----------------------------------------------------------------------------
(* Every step keeps the invariant *)

\* The calls that touch a control block and no task.
LEMMA BlockInv ==
  ASSUME NEW P, HasSem(P), SemInv(P), NEW ctx \in {"task", "isr"}, NEW s \in Sem,
         \/ \E max \in SemMax : \E count \in 0 .. max : osSemCreate(ctx, s, count, max)
         \/ LOS_SemDelete(ctx, s)
         \/ LOS_SemPendTake(ctx, s)
         \/ LOS_SemPost(ctx, s) /\ k.list[s] = <<>>
  PROVE  SemInv(P)' /\ UNCHANGED <<k, pc>>
<1>1. k' = k /\ pc' = pc
  BY DEF osSemCreate, LOS_SemDelete, LOS_SemPendTake, LOS_SemPost
<1>2. IInv(P)'
  BY <1>1 DEF SemInv, IInv, Typed
<1>3. SemWaiters'
  BY <1>1 DEF SemInv, SemLocal, SemWaiters
<1>4. sem \in [Sem -> SemCB] /\ SemTyped /\ NoIdleToken
  BY DEF SemInv, SemLocal, SemTyped
<1>5. ASSUME NEW r \in SemCB, r.count <= r.max, k.list[s] # <<>> => r.used /\ r.count = 0,
             sem' = [sem EXCEPT ![s] = r]
      PROVE  SemTyped' /\ NoIdleToken'
  BY <1>1, <1>4, <1>5 DEF SemTyped, NoIdleToken
<1>6. SemTyped' /\ NoIdleToken'
  <2>1. ASSUME NEW max \in SemMax, NEW count \in 0 .. max, osSemCreate(ctx, s, count, max)
        PROVE  SemTyped' /\ NoIdleToken'
    <3>1. [used |-> TRUE, count |-> count, max |-> max] \in SemCB /\ count <= max
      BY SemAssumption DEF SemCB
    <3>2. k.list[s] = <<>>
      BY <1>4, <2>1 DEF osSemCreate, NoIdleToken
    <3> QED BY <1>5, <2>1, <3>1, <3>2 DEF osSemCreate
  <2>2. CASE LOS_SemDelete(ctx, s)
    <3> DEFINE r == [sem[s] EXCEPT !.used = FALSE]
    <3>1. sem' = [sem EXCEPT ![s] = r] /\ k.list[s] = <<>>
      BY <1>4, <2>2 DEF LOS_SemDelete
    <3>2. r \in SemCB /\ r.count <= r.max
      BY <1>4 DEF SemCB, SemTyped
    <3> HIDE DEF r
    <3> QED BY <1>5, <3>1, <3>2
  <2>3. CASE LOS_SemPendTake(ctx, s)
    <3> DEFINE r == [sem[s] EXCEPT !.count = @ - 1]
    <3>1. sem' = [sem EXCEPT ![s] = r] /\ sem[s].count > 0
      BY <1>4, <2>3 DEF LOS_SemPendTake
    <3>2. sem[s] \in SemCB /\ sem[s].count <= sem[s].max
      BY <1>4 DEF SemTyped
    <3>3. r \in SemCB /\ r.count <= r.max
      BY <3>1, <3>2 DEF SemCB
    <3>4. k.list[s] = <<>>
      BY <1>4, <3>1, <3>2 DEF NoIdleToken, SemCB
    <3> HIDE DEF r
    <3> QED BY <1>5, <3>1, <3>3, <3>4
  <2>4. CASE LOS_SemPost(ctx, s) /\ k.list[s] = <<>>
    <3> DEFINE r == [sem[s] EXCEPT !.count = @ + 1]
    <3>1. sem' = [sem EXCEPT ![s] = r] /\ sem[s].count # sem[s].max
      BY <1>4, <2>4 DEF LOS_SemPost
    <3>2. sem[s] \in SemCB /\ sem[s].count <= sem[s].max
      BY <1>4 DEF SemTyped
    <3>3. r \in SemCB /\ r.count <= r.max
      BY <3>1, <3>2 DEF SemCB
    <3> HIDE DEF r
    <3> QED BY <1>5, <2>4, <3>1, <3>3
  <2> QED BY <2>1, <2>2, <2>3, <2>4
<1> QED BY <1>1, <1>2, <1>3, <1>6 DEF SemInv, SemLocal

\* LOS_SemPend keeps the invariant when it waits.
LEMMA PendWaitInv ==
  ASSUME NEW P, HasSem(P), SemInv(P), NEW s \in Sem, NEW timeout \in Timeouts,
         LOS_SemPendWait(s, timeout)
  PROVE  SemInv(P)'
<1>1. PICK t : t = k.run
  OBVIOUS
<1>2. /\ IInv(P)' /\ UNCHANGED sem /\ sem[s].used /\ sem[s].count = 0
      /\ t \in Task /\ pc[t] = "user" /\ pc' = [pc EXCEPT ![t] = "sem_schedule"]
      /\ \A w \in WaitList : k'.list[w] = IF w = s THEN Append(k.list[w], t) ELSE k.list[w]
      /\ \A u \in TaskID \ {t} : k'.status[u] = k.status[u]
      /\ "PEND" \in k'.status[t]
  BY <1>1, PendWaitEffect
<1>3. k \in Kernel /\ pc \in [TaskID -> P.all] /\ t \in TaskID /\ SemLocal
  BY <1>2 DEF SemInv, IInv, Typed, TaskID
<1>4. \A x \in Sem : x \in WaitList /\ x \in ListHead /\ k.list[x] \in Seq(TaskID)
  BY <1>3, SemAssumption DEF Kernel, ListHead
<1>5. \A x \in Sem : ToSet(k'.list[x]) = IF x = s THEN ToSet(k.list[x]) \cup {t} ELSE ToSet(k.list[x])
  <2>1. s \in Sem /\ ToSet(Append(k.list[s], t)) = ToSet(k.list[s]) \cup {t}
    BY <1>3, <1>4, AppendFacts
  <2> QED BY <1>2, <1>4, <2>1
<1>6. SemWaiters'
  <2> SUFFICES ASSUME NEW x \in Sem, NEW u \in ToSet(k'.list[x])
               PROVE  u \in Task /\ pc'[u] \in SemAt /\ "PEND" \in k'.status[u]
    BY DEF SemWaiters
  <2>1. CASE u = t
    BY <1>2, <1>3, <2>1 DEF SemAt
  <2>2. CASE u # t
    <3>1. u \in ToSet(k.list[x])
      BY <1>5, <2>2
    <3>2. u \in Task /\ u \in TaskID /\ pc[u] \in SemAt /\ "PEND" \in k.status[u]
      BY <1>3, <3>1 DEF SemLocal, SemWaiters, TaskID
    <3> QED BY <1>2, <1>3, <2>2, <3>2
  <2> QED BY <2>1, <2>2
<1>7. SemTyped' /\ NoIdleToken'
  BY <1>2, <1>3, <1>4 DEF SemLocal, SemTyped, NoIdleToken
<1> QED BY <1>2, <1>6, <1>7 DEF SemInv, SemLocal

\* LOS_SemPost keeps it when it wakes a task.
LEMMA PostInv ==
  ASSUME NEW P, HasSem(P), SemInv(P), NEW ctx \in {"task", "isr"}, NEW s \in Sem,
         LOS_SemPost(ctx, s), k.list[s] # <<>>
  PROVE  SemInv(P)'
<1>1. PICK t : t = Head(k.list[s])
  OBVIOUS
<1>2. IInv(P)' /\ UNCHANGED sem /\ t \in TaskID /\ Served(t)
  BY <1>1, PostEffect DEF TaskID
<1>3. k \in Kernel /\ ListsOK(k) /\ SemLocal
  BY DEF SemInv, IInv, Typed, Sound
<1> QED BY <1>2, <1>3, LeavesSem DEF SemInv, Served

\* LOS_SemPend keeps it when it goes on.
LEMMA PendReturnInv ==
  ASSUME NEW P, HasSem(P), SemInv(P), SemPendSchedule \/ SemPendReturn
  PROVE  SemInv(P)'
<1>1. PICK t : t = k.run
  OBVIOUS
<1>2. /\ IInv(P)' /\ UNCHANGED sem /\ k'.list = k.list /\ t \in TaskID /\ pc[t] \in SemAt
      /\ \A u \in TaskID \ {t} : k'.status[u] = k.status[u]
      /\ SemPendSchedule => pc' = [pc EXCEPT ![t] = "sem_return"] /\ k'.status[t] = k.status[t]
      /\ SemPendReturn => pc' = [pc EXCEPT ![t] = "user"] /\ k.status[t] \cap Waiting = {}
  BY <1>1, PendReturnEffect
<1>3. SemLocal /\ pc \in [TaskID -> P.all]
  BY DEF SemInv, IInv, Typed
<1>4. SemWaiters'
  <2> SUFFICES ASSUME NEW x \in Sem, NEW u \in ToSet(k.list[x])
               PROVE  u \in Task /\ pc'[u] \in SemAt /\ "PEND" \in k'.status[u]
    BY <1>2 DEF SemWaiters
  <2>1. u \in Task /\ u \in TaskID /\ pc[u] \in SemAt /\ "PEND" \in k.status[u]
    BY <1>3 DEF SemLocal, SemWaiters, TaskID
  <2>2. SemPendReturn => u # t
    BY <1>2, <2>1 DEF Waiting
  <2>3. CASE u = t
    BY <1>2, <1>3, <2>1, <2>2, <2>3 DEF SemAt
  <2>4. CASE u # t
    BY <1>2, <1>3, <2>1, <2>4
  <2> QED BY <2>3, <2>4
<1>5. SemTyped' /\ NoIdleToken'
  BY <1>2, <1>3 DEF SemLocal, SemTyped, NoIdleToken
<1> QED BY <1>2, <1>4, <1>5 DEF SemInv, SemLocal

\* So does every step of the task manager.
LEMMA TaskStepSem ==
  ASSUME NEW P, HasSem(P), SemInv(P), ~IsrRaces, [Next]_vars, UNCHANGED sem
  PROVE  SemInv(P)'
<1>1. Points(P) /\ IInv(P) /\ SemLocal /\ k \in Kernel /\ ListsOK(k)
  BY DEF SemInv, HasSem, IInv, Typed, Sound
<1>2. IInv(P)'
  BY <1>1, StepInv
<1>3. CASE Quiet
  <2>1. Still(Sem, SemAt)
    BY <1>3, QuietStill, SemAssumption DEF SemAt, PC
  <2> QED BY <1>1, <1>2, <2>1, StillSem DEF SemInv
<1>4. ASSUME NEW t \in Task, Expires(t) \/ Vanishes(t) PROVE SemInv(P)'
  BY <1>1, <1>2, <1>4, LeavesSem DEF SemInv, Expires, Vanishes, TaskID
<1> QED BY <1>1, <1>3, <1>4, StepWaits

\* Every step: a semaphore call, or a step of the task manager.
LEMMA SemStepInv ==
  ASSUME NEW P, HasSem(P), SemInv(P), ~IsrRaces, [SemNext]_semVars
  PROVE  SemInv(P)'
<1>1. CASE SemCallNext
  BY <1>1, BlockInv, PendWaitInv, PostInv, PendReturnInv DEF SemCallNext
<1>2. CASE [Next]_vars /\ UNCHANGED sem
  BY <1>2, TaskStepSem
<1> QED BY <1>1, <1>2 DEF SemNext, semVars, vars

\* The invariant holds at the start, when no semaphore exists.
LEMMA SemInitInv ==
  ASSUME NEW P, HasSem(P), SemInit
  PROVE  SemInv(P)
<1>1. IInv(P)
  BY InitInv DEF SemInit, HasSem
<1>2. \A s \in Sem : k.list[s] = <<>>
  BY SemAssumption, WaitListAssumption DEF SemInit, Init, KernelInit, ListHead
<1>3. \A s \in Sem : ToSet(k.list[s]) = {}
  BY <1>2 DEF ToSet
<1>4. SemTyped
  BY DEF SemInit, SemTyped, SemCB
<1> QED BY <1>1, <1>2, <1>3, <1>4 DEF SemInv, SemLocal, SemWaiters, NoIdleToken

\* The invariant holds in every state, if handlers keep to their rules.
LEMMA SemInvariance ==
  ASSUME ~IsrRaces
  PROVE  SemSpec => []SemInv(SemPoints)
<1>0. HasSem(SemPoints)
  BY DEF HasSem, Points, SemPoints, SemAt, SemPC, PC
<1>1. SemInit => SemInv(SemPoints)
  BY <1>0, SemInitInv
<1>2. SemInv(SemPoints) /\ [SemNext]_semVars => SemInv(SemPoints)'
  BY <1>0, SemStepInv
<1> QED BY <1>1, <1>2, PTL DEF SemSpec

-----------------------------------------------------------------------------
(* The guarantees *)

\* The kernel and the control blocks keep their types.
THEOREM SemTypeCorrect ==
  ASSUME ~IsrRaces
  PROVE  SemSpec => []SemTypeOK
<1>1. SemInv(SemPoints) => SemTypeOK
  BY DEF SemInv, IInv, Typed, SemLocal, SemTyped, SemTypeOK
<1> QED BY <1>1, SemInvariance, PTL

\* A task never waits for a semaphore that has a token or does not exist,
\* whatever order posts, timeouts, deletions and creations come in.
THEOREM NobodyWaitsForAToken ==
  ASSUME ~IsrRaces
  PROVE  SemSpec => []NoIdleToken
<1>1. SemInv(SemPoints) => NoIdleToken
  BY DEF SemInv, SemLocal
<1> QED BY <1>1, SemInvariance, PTL

\* The invariant of the kernel confines the TIMEOUT flag.
LEMMA FlagOwned ==
  ASSUME NEW P, IInv(P)
  PROVE  TimeoutFlagOwned
BY DEF IInv, Blocked, Limbo, TimeoutFlagOwned, TaskID

\* No call finds the TIMEOUT flag that an earlier one left.
THEOREM TimeoutFlagOfOwnCall ==
  ASSUME ~IsrRaces
  PROVE  SemSpec => []TimeoutFlagOwned
<1>1. SemInv(SemPoints) => TimeoutFlagOwned
  BY FlagOwned DEF SemInv
<1> QED BY <1>1, SemInvariance, PTL

-----------------------------------------------------------------------------
(***************************************************************************)
(* The semaphores implement the abstract ones: each step of the kernel is  *)
(* a step of Semaphore or leaves its variables alone.                      *)
(***************************************************************************)

\* The call of a task goes on as it was if its task does not move and no
\* list changes for it.
LEMMA SameCall ==
  ASSUME NEW t \in Task,
         \/ pc[t] \notin SemAt /\ pc'[t] \notin SemAt
         \/ /\ pc[t] \in SemAt /\ pc'[t] \in SemAt
            /\ k'.status[t] \cap Limbo = k.status[t] \cap Limbo
            /\ \A s \in Sem : t \in ToSet(k'.list[s]) <=> t \in ToSet(k.list[s])
  PROVE  CallState(t)' = CallState(t)
<1>1. CASE pc[t] \notin SemAt /\ pc'[t] \notin SemAt
  BY <1>1 DEF CallState, SemAt
<1>2. CASE /\ pc[t] \in SemAt /\ pc'[t] \in SemAt
           /\ k'.status[t] \cap Limbo = k.status[t] \cap Limbo
           /\ \A s \in Sem : t \in ToSet(k'.list[s]) <=> t \in ToSet(k.list[s])
  <2>1. "TIMEOUT" \in k'.status[t] <=> "TIMEOUT" \in k.status[t]
    BY <1>2 DEF Limbo
  <2>2. (\E s \in Sem : t \in ToSet(k'.list[s])) <=> (\E s \in Sem : t \in ToSet(k.list[s]))
    BY <1>2
  <2>3. pc[t] \in {"sem_schedule", "sem_return"} /\ pc'[t] \in {"sem_schedule", "sem_return"}
    BY <1>2 DEF SemAt
  <2> QED BY <2>1, <2>2, <2>3 DEF CallState
<1> QED BY <1>1, <1>2

\* A step that touches no semaphore and no call of LOS_SemPend.
LEMMA StillStutters ==
  ASSUME Still(Sem, SemAt), UNCHANGED sem
  PROVE  UNCHANGED Abstract!semVars
<1>1. \A s \in Sem : k'.list[s] = k.list[s]
  BY DEF Still
<1>2. \A t \in Task : CallState(t)' = CallState(t)
  <2> SUFFICES ASSUME NEW t \in Task PROVE CallState(t)' = CallState(t)
    OBVIOUS
  <2>1. \/ pc'[t] = pc[t] /\ k'.status[t] \cap Limbo = k.status[t] \cap Limbo
        \/ pc[t] \notin SemAt /\ pc'[t] \notin SemAt
    BY DEF Still, TaskID
  <2> QED BY <1>1, <2>1, SameCall
<1>3. [t \in Task |-> CallState(t)]' = [t \in Task |-> CallState(t)]
  BY <1>2
<1>4. [s \in Sem |-> k'.list[s]] = [s \in Sem |-> k.list[s]]
  BY SMTT(60), <1>1
<1> QED BY <1>3, <1>4 DEF Abstract!semVars

\* Taking the head off a list without duplicates leaves its tail.
LEMMA UnlinkHead ==
  ASSUME NEW S, NEW s \in Seq(S), s # <<>>, IsInjective(s)
  PROVE  Unlink(s, Head(s)) = Tail(s)
<1> DEFINE h == Head(s)
           i == CHOOSE i \in DOMAIN s : s[i] = h
           u == Unlink(s, h)
<1>1. /\ Len(s) \in Nat \ {0} /\ DOMAIN s = 1 .. Len(s) /\ 1 \in DOMAIN s /\ h = s[1]
      /\ Tail(s) \in Seq(S) /\ Len(Tail(s)) = Len(s) - 1
      /\ \A j \in 1 .. Len(s) - 1 : Tail(s)[j] = s[j + 1]
  BY EmptySeq, LenProperties, HeadTailProperties
<1> HIDE DEF h
<1>2. i = 1
  BY <1>1 DEF IsInjective
<1>3. h \in ToSet(s)
  BY <1>1 DEF ToSet
<1>4. u = RemoveAt(s, 1)
  BY <1>2, <1>3 DEF Unlink
<1> HIDE DEF i, u
<1>5. /\ u \in Seq(S) /\ Len(u) = Len(s) - 1
      /\ \A j \in 1 .. Len(s) - 1 : u[j] = s[j + 1]
  <2>1. 1 \in 1 .. Len(s) /\ \A j \in 1 .. Len(s) - 1 : ~(j < 1)
    BY <1>1
  <2>2. /\ RemoveAt(s, 1) \in Seq(S) /\ Len(RemoveAt(s, 1)) = Len(s) - 1
        /\ \A j \in 1 .. Len(s) - 1 :
             RemoveAt(s, 1)[j] = IF j < 1 THEN s[j] ELSE s[j + 1]
    BY <2>1, RemoveAtFacts
  <2> QED BY <1>4, <2>1, <2>2
<1> QED BY ZenonT(60), <1>1, <1>5, SeqEqual DEF u, h

\* The calls that touch a control block and no task.
LEMMA BlockImplements ==
  ASSUME NEW P, HasSem(P), SemInv(P), NEW ctx \in {"task", "isr"}, NEW s \in Sem,
         \/ \E max \in SemMax : \E count \in 0 .. max : osSemCreate(ctx, s, count, max)
         \/ LOS_SemDelete(ctx, s)
         \/ LOS_SemPendTake(ctx, s)
         \/ LOS_SemPost(ctx, s) /\ k.list[s] = <<>>
  PROVE  Abstract!Next
<1>1. k' = k /\ pc' = pc
  BY BlockInv
<1>2. [t \in Task |-> CallState(t)]' = [t \in Task |-> CallState(t)]
  BY <1>1 DEF CallState
<1>3. [x \in Sem |-> k'.list[x]] = [x \in Sem |-> k.list[x]]
  BY <1>1
<1>4. sem \in [Sem -> SemCB] /\ \A x \in Sem : sem[x].count <= sem[x].max
  BY DEF SemInv, SemLocal, SemTyped
<1>5. ASSUME NEW max \in SemMax, NEW count \in 0 .. max, osSemCreate(ctx, s, count, max)
      PROVE  Abstract!Next
  <2> DEFINE top == CHOOSE m \in SemMax : \A n \in SemMax : n <= m
  <2>0. \E m \in SemMax : \A n \in SemMax : n <= m
    BY SemAssumption
  <2>1. top \in SemMax /\ \A n \in SemMax : n <= top
    BY <2>0, Zenon
  <2> HIDE DEF top
  <2>2. max \in Nat /\ max > 0 /\ top \in Nat /\ count \in Nat
    BY <2>1, SemAssumption
  <2>3. max <= top /\ count <= max
    BY <2>1
  <2>4. count \in 0 .. top /\ max \in 0 .. top
    BY <2>2, <2>3
  <2>5. sem' = [sem EXCEPT ![s] = [used |-> TRUE, count |-> count, max |-> max]] /\ ~sem[s].used
    BY <1>5 DEF osSemCreate
  <2>6. /\ {x \in Sem : sem'[x].used} = {x \in Sem : sem[x].used} \cup {s}
        /\ [x \in Sem |-> sem'[x].count] = [[x \in Sem |-> sem[x].count] EXCEPT ![s] = count]
        /\ [x \in Sem |-> sem'[x].max] = [[x \in Sem |-> sem[x].max] EXCEPT ![s] = max]
        /\ s \notin {x \in Sem : sem[x].used}
    BY <1>4, <2>5
  <2>7. Abstract!Create(s, count, max)
    BY <1>2, <1>3, <2>2, <2>3, <2>6 DEF Abstract!Create
  <2> QED BY <2>4, <2>7 DEF Abstract!Next, top
<1>6. CASE LOS_SemDelete(ctx, s)
  <2>1. sem' = [sem EXCEPT ![s].used = FALSE] /\ sem[s].used /\ k.list[s] = <<>>
    BY <1>6 DEF LOS_SemDelete
  <2>2. /\ {x \in Sem : sem'[x].used} = {x \in Sem : sem[x].used} \ {s}
        /\ [x \in Sem |-> sem'[x].count] = [x \in Sem |-> sem[x].count]
        /\ [x \in Sem |-> sem'[x].max] = [x \in Sem |-> sem[x].max]
        /\ s \in {x \in Sem : sem[x].used}
    BY <1>4, <2>1 DEF SemCB
  <2>3. Abstract!Destroy(s)
    BY <1>2, <1>3, <2>1, <2>2 DEF Abstract!Destroy
  <2> QED BY <2>3 DEF Abstract!Next
<1>7. CASE LOS_SemPendTake(ctx, s)
  <2>1. sem' = [sem EXCEPT ![s].count = @ - 1] /\ sem[s].used /\ sem[s].count > 0
    BY <1>7 DEF LOS_SemPendTake
  <2>2. /\ {x \in Sem : sem'[x].used} = {x \in Sem : sem[x].used}
        /\ [x \in Sem |-> sem'[x].count] = [[x \in Sem |-> sem[x].count] EXCEPT ![s] = @ - 1]
        /\ [x \in Sem |-> sem'[x].max] = [x \in Sem |-> sem[x].max]
        /\ s \in {x \in Sem : sem[x].used}
    BY <1>4, <2>1 DEF SemCB
  <2>3. Abstract!Take(s)
    BY <1>2, <1>3, <2>1, <2>2 DEF Abstract!Take
  <2> QED BY <2>3 DEF Abstract!Next
<1>8. CASE LOS_SemPost(ctx, s) /\ k.list[s] = <<>>
  <2>1. sem' = [sem EXCEPT ![s].count = @ + 1] /\ sem[s].used /\ sem[s].count # sem[s].max
    BY <1>8 DEF LOS_SemPost
  <2>2. /\ {x \in Sem : sem'[x].used} = {x \in Sem : sem[x].used}
        /\ [x \in Sem |-> sem'[x].count] = [[x \in Sem |-> sem[x].count] EXCEPT ![s] = @ + 1]
        /\ [x \in Sem |-> sem'[x].max] = [x \in Sem |-> sem[x].max]
        /\ s \in {x \in Sem : sem[x].used}
    BY <1>4, <2>1 DEF SemCB
  <2>3. sem[s].count < sem[s].max
    BY <1>4, <2>1 DEF SemCB
  <2>4. Abstract!Post(s)
    BY <1>2, <1>3, <1>8, <2>2, <2>3 DEF Abstract!Post
  <2> QED BY <2>4 DEF Abstract!Next
<1> QED BY <1>5, <1>6, <1>7, <1>8

\* LOS_SemPend that waits is Block.
LEMMA PendWaitImplements ==
  ASSUME NEW P, HasSem(P), SemInv(P), NEW s \in Sem, NEW timeout \in Timeouts,
         LOS_SemPendWait(s, timeout)
  PROVE  Abstract!Next
<1>1. PICK t : t = k.run
  OBVIOUS
<1>2. /\ UNCHANGED sem /\ sem[s].used /\ sem[s].count = 0
      /\ t \in Task /\ pc[t] = "user" /\ pc' = [pc EXCEPT ![t] = "sem_schedule"]
      /\ \A w \in WaitList : k'.list[w] = IF w = s THEN Append(k.list[w], t) ELSE k.list[w]
      /\ \A u \in TaskID \ {t} : k'.status[u] = k.status[u]
  BY <1>1, PendWaitEffect
<1>3. k \in Kernel /\ pc \in [TaskID -> P.all] /\ t \in TaskID
  BY <1>2 DEF SemInv, IInv, Typed, TaskID
<1>4. \A x \in Sem : x \in WaitList /\ x \in ListHead /\ k.list[x] \in Seq(TaskID)
  BY <1>3, SemAssumption DEF Kernel, ListHead
<1>5. ToSet(Append(k.list[s], t)) = ToSet(k.list[s]) \cup {t}
  BY <1>3, <1>4, AppendFacts
<1>6. /\ \A x \in Sem : k'.list[x] = IF x = s THEN Append(k.list[x], t) ELSE k.list[x]
      /\ pc'[t] = "sem_schedule" /\ \A u \in Task \ {t} : pc'[u] = pc[u] /\ u \in TaskID
  BY <1>2, <1>3, <1>4 DEF TaskID
<1>7. CallState(t) = "idle" /\ CallState(t)' = "waiting"
  BY <1>2, <1>5, <1>6 DEF CallState
<1>8. \A u \in Task \ {t} : CallState(u)' = CallState(u)
  BY <1>2, <1>5, <1>6, SameCall
<1>9. [u \in Task |-> CallState(u)]' = [[u \in Task |-> CallState(u)] EXCEPT ![t] = "waiting"]
  BY <1>2, <1>7, <1>8
<1>10. [x \in Sem |-> k'.list[x]] = [[x \in Sem |-> k.list[x]] EXCEPT ![s] = Append(@, t)]
  BY <1>6
<1>11. s \in {x \in Sem : sem[x].used} /\ [x \in Sem |-> sem[x].count][s] = 0
  BY <1>2
<1>12. [u \in Task |-> CallState(u)][t] = "idle"
  BY <1>2, <1>7
<1>13. Abstract!Block(t, s)
  BY <1>2, <1>9, <1>10, <1>11, <1>12 DEF Abstract!Block
<1> QED BY <1>2, <1>13 DEF Abstract!Next

\* When a task leaves its list the calls of the others stay as they are.
LEMMA OthersKeep ==
  ASSUME k \in Kernel, ListsOK(k), NEW t \in Task, Leaves(t)
  PROVE  \A u \in Task \ {t} : CallState(u)' = CallState(u)
<1> SUFFICES ASSUME NEW u \in Task \ {t} PROVE CallState(u)' = CallState(u)
  OBVIOUS
<1>1. u \in TaskID \ {t} /\ t \in TaskID
  BY DEF TaskID
<1>2. \A s \in Sem : u \in ToSet(k'.list[s]) <=> u \in ToSet(k.list[s])
  BY <1>1, SemLists
<1>3. /\ k'.status[u] \cap Limbo = k.status[u] \cap Limbo
      /\ pc'[u] = pc[u] \/ {pc[u], pc'[u]} \subseteq PC
  BY <1>1 DEF Leaves
<1>4. CASE pc'[u] = pc[u]
  BY <1>2, <1>3, <1>4, SameCall
<1>5. CASE {pc[u], pc'[u]} \subseteq PC
  <2>1. pc[u] \notin SemAt /\ pc'[u] \notin SemAt
    BY <1>5 DEF SemAt, PC
  <2> QED BY <2>1, SameCall
<1> QED BY <1>3, <1>4, <1>5

\* LOS_SemPost to a waiting task is Post.
LEMMA PostImplements ==
  ASSUME NEW P, HasSem(P), SemInv(P), NEW ctx \in {"task", "isr"}, NEW s \in Sem,
         LOS_SemPost(ctx, s), k.list[s] # <<>>
  PROVE  Abstract!Next
<1>1. PICK t : t = Head(k.list[s])
  OBVIOUS
<1>2. /\ UNCHANGED sem /\ sem[s].used /\ sem[s].count # sem[s].max
      /\ t \in Task /\ t \in ToSet(k.list[s]) /\ pc[t] \in SemAt /\ Served(t)
  BY <1>1, PostEffect
<1>3. /\ k \in Kernel /\ ListsOK(k) /\ Leaves(t) /\ t \in TaskID
      /\ sem[s] \in SemCB /\ sem[s].count <= sem[s].max
  BY <1>2 DEF SemInv, IInv, Typed, Sound, Served, SemLocal, SemTyped, TaskID
<1>4. \A x \in Sem : x \in WaitList /\ x \in ListHead
  BY SemAssumption DEF ListHead
<1>5. k'.list[s] = Tail(k.list[s])
  <2>1. k.list[s] \in Seq(TaskID) /\ IsInjective(k.list[s])
    BY <1>3, <1>4 DEF Kernel, ListsOK
  <2>2. Unlink(k.list[s], Head(k.list[s])) = Tail(k.list[s])
    BY <2>1, UnlinkHead
  <2> QED BY <1>1, <1>3, <1>4, <2>2 DEF Leaves
<1>6. \A x \in Sem \ {s} : k'.list[x] = k.list[x]
  <2>1. \A x \in Sem \ {s} : t \notin ToSet(k.list[x])
    BY <1>2, <1>3, <1>4 DEF ListsOK
  <2> QED BY <1>3, <2>1, SemLists
<1>7. CallState(t)' = "granted"
  <2>1. \A x \in Sem : t \notin ToSet(k'.list[x])
    BY <1>3, SemLists
  <2>2. "TIMEOUT" \notin k'.status[t] /\ pc'[t] \in SemAt
    BY <1>2 DEF Served, Limbo
  <2> QED BY <2>1, <2>2 DEF CallState, SemAt
<1>8. \A u \in Task \ {t} : CallState(u)' = CallState(u)
  BY <1>2, <1>3, OthersKeep
<1>9. [u \in Task |-> CallState(u)]' = [[u \in Task |-> CallState(u)] EXCEPT ![t] = "granted"]
  BY <1>2, <1>7, <1>8
<1>10. [x \in Sem |-> k'.list[x]] = [[x \in Sem |-> k.list[x]] EXCEPT ![s] = Tail(@)]
  BY <1>5, <1>6
<1>11. /\ s \in {x \in Sem : sem[x].used}
       /\ [x \in Sem |-> sem[x].count][s] < [x \in Sem |-> sem[x].max][s]
       /\ [x \in Sem |-> k.list[x]][s] # <<>> /\ Head([x \in Sem |-> k.list[x]][s]) = t
  BY <1>1, <1>2, <1>3 DEF SemCB
<1>12. Abstract!Post(s)
  BY <1>2, <1>9, <1>10, <1>11 DEF Abstract!Post
<1> QED BY <1>12 DEF Abstract!Next

\* The return of LOS_SemPend is Return.
LEMMA PendReturnImplements ==
  ASSUME NEW P, HasSem(P), SemInv(P), SemPendSchedule \/ SemPendReturn
  PROVE  [Abstract!Next]_(Abstract!semVars)
<1>1. PICK t : t = k.run
  OBVIOUS
<1>2. /\ UNCHANGED sem /\ k'.list = k.list /\ t \in TaskID /\ pc[t] \in SemAt
      /\ \A u \in TaskID \ {t} : k'.status[u] = k.status[u]
      /\ SemPendSchedule => pc' = [pc EXCEPT ![t] = "sem_return"] /\ k'.status[t] = k.status[t]
      /\ SemPendReturn => pc' = [pc EXCEPT ![t] = "user"] /\ k.status[t] \cap Waiting = {}
  BY <1>1, PendReturnEffect
<1>3. SemLocal /\ pc \in [TaskID -> P.all]
  BY DEF SemInv, IInv, Typed
<1>4. \A u \in Task : u # t => CallState(u)' = CallState(u)
  <2> SUFFICES ASSUME NEW u \in Task, u # t PROVE CallState(u)' = CallState(u)
    OBVIOUS
  <2>1. u \in TaskID /\ pc'[u] = pc[u] /\ k'.status[u] = k.status[u]
    BY <1>2, <1>3 DEF TaskID
  <2> QED BY <1>2, <2>1 DEF CallState
<1>5. [x \in Sem |-> k'.list[x]] = [x \in Sem |-> k.list[x]]
  BY <1>2
<1>6. CASE SemPendSchedule
  <2>1. t \in Task => CallState(t)' = CallState(t)
    BY <1>2, <1>3, <1>6 DEF CallState, SemAt
  <2>2. [u \in Task |-> CallState(u)]' = [u \in Task |-> CallState(u)]
    BY <1>4, <2>1
  <2> QED BY <1>2, <1>5, <2>2 DEF Abstract!semVars
<1>7. CASE SemPendReturn /\ t \in Task
  <2>1. CallState(t)' = "idle"
    BY <1>2, <1>3, <1>7 DEF CallState
  <2>2. CallState(t) \in {"granted", "expired"}
    <3>1. \A x \in Sem : t \notin ToSet(k.list[x])
      BY <1>2, <1>3, <1>7 DEF SemLocal, SemWaiters, Waiting
    <3> QED BY <1>2, <3>1 DEF CallState, SemAt
  <2>3. [u \in Task |-> CallState(u)]' = [[u \in Task |-> CallState(u)] EXCEPT ![t] = "idle"]
    BY <1>4, <1>7, <2>1
  <2>4. [u \in Task |-> CallState(u)][t] \in {"granted", "expired"}
    BY <1>7, <2>2
  <2>5. Abstract!Return(t)
    BY <1>2, <1>5, <2>3, <2>4 DEF Abstract!Return
  <2> QED BY <1>7, <2>5 DEF Abstract!Next
<1>8. CASE t \notin Task
  <2>1. [u \in Task |-> CallState(u)]' = [u \in Task |-> CallState(u)]
    BY <1>4, <1>8
  <2> QED BY <1>2, <1>5, <2>1 DEF Abstract!semVars
<1> QED BY <1>6, <1>7, <1>8

\* A time limit that passes is GiveUp, and the deletion of the task Abort.
LEMMA LeaveImplements ==
  ASSUME NEW P, HasSem(P), SemInv(P), UNCHANGED sem,
         NEW t \in Task, Expires(t) \/ Vanishes(t)
  PROVE  [Abstract!Next]_(Abstract!semVars)
<1>1. k \in Kernel /\ ListsOK(k) /\ Leaves(t) /\ t \in TaskID /\ SemLocal
  BY DEF SemInv, IInv, Typed, Sound, Expires, Vanishes, TaskID
<1>2. \A u \in Task \ {t} : CallState(u)' = CallState(u)
  BY <1>1, OthersKeep
<1>3. \A x \in Sem : x \in WaitList /\ t \notin ToSet(k'.list[x])
  BY <1>1, SemLists, SemAssumption
<1>4. ASSUME NEW new, CallState(t)' = new
      PROVE  Abstract!Leave(t, new)
  <2>1. [u \in Task |-> CallState(u)]' = [[u \in Task |-> CallState(u)] EXCEPT ![t] = new]
    BY <1>2, <1>4
  <2>2. \A x \in Sem : k'.list[x] = Abstract!Without(k.list[x], t)
    <3> SUFFICES ASSUME NEW x \in Sem PROVE k'.list[x] = Abstract!Without(k.list[x], t)
      OBVIOUS
    <3>1. k'.list[x] = Unlink(k.list[x], t)
      BY <1>1, <1>3 DEF Leaves
    <3>2. Unlink(k.list[x], t) = Abstract!Without(k.list[x], t)
      BY DEF Unlink, RemoveAt, ToSet, Abstract!Without, Abstract!RemoveAt, Abstract!ToSet
    <3> QED BY <3>1, <3>2
  <2>3. [x \in Sem |-> k'.list[x]] = [x \in Sem |-> Abstract!Without([y \in Sem |-> k.list[y]][x], t)]
    BY <2>2
  <2> QED BY <2>1, <2>3 DEF Abstract!Leave
<1>5. ASSUME \A x \in Sem : t \notin ToSet(k.list[x]), CallState(t)' = CallState(t)
      PROVE  UNCHANGED Abstract!semVars
  <2>1. [u \in Task |-> CallState(u)]' = [u \in Task |-> CallState(u)]
    BY <1>2, <1>5
  <2>2. \A x \in Sem : k'.list[x] = k.list[x]
    BY <1>1, <1>5, SemLists
  <2>3. [x \in Sem |-> k'.list[x]] = [x \in Sem |-> k.list[x]]
    BY <2>2
  <2> QED BY <2>1, <2>3 DEF Abstract!semVars
<1>6. CASE Vanishes(t)
  <2>1. CallState(t)' = "idle"
    BY <1>6 DEF Vanishes, CallState
  <2>2. CASE CallState(t) = "idle"
    <3>1. pc[t] \notin SemAt
      <4>1. CallState(t) \in {"waiting", "expired", "granted"} \/ pc[t] \notin SemAt
        BY DEF CallState, SemAt
      <4> QED BY <2>2, <4>1
    <3>2. \A x \in Sem : t \notin ToSet(k.list[x])
      BY <1>1, <3>1 DEF SemLocal, SemWaiters
    <3> QED BY <1>5, <2>1, <2>2, <3>2
  <2>3. CASE CallState(t) # "idle"
    <3>1. Abstract!Abort(t)
      BY <1>4, <2>1, <2>3 DEF Abstract!Abort
    <3> QED BY <3>1 DEF Abstract!Next
  <2> QED BY <2>2, <2>3
<1>7. CASE Expires(t)
  <2>1. /\ pc'[t] = pc[t]
        /\ "TIMEOUT" \in k'.status[t] <=> "TIMEOUT" \in k.status[t]
        /\ k.status[t] \cap Waiting # {} => "TIMEOUT" \in k.status[t]
    BY <1>7 DEF Expires
  <2>2. CASE \E x \in Sem : t \in ToSet(k.list[x])
    <3>1. pc[t] \in SemAt /\ "PEND" \in k.status[t]
      BY <1>1, <2>2 DEF SemLocal, SemWaiters
    <3>2. CallState(t) = "waiting"
      BY <2>2, <3>1 DEF CallState, SemAt
    <3>3. CallState(t)' = "expired"
      BY <1>3, <2>1, <3>1 DEF CallState, SemAt, Waiting
    <3>4. Abstract!GiveUp(t)
      BY <1>4, <3>2, <3>3 DEF Abstract!GiveUp
    <3> QED BY <3>4 DEF Abstract!Next
  <2>3. CASE \A x \in Sem : t \notin ToSet(k.list[x])
    <3>1. CallState(t)' = CallState(t)
      BY <1>3, <2>1, <2>3 DEF CallState
    <3> QED BY <1>5, <2>3, <3>1
  <2> QED BY <2>2, <2>3
<1> QED BY <1>6, <1>7

\* Every step is a step of the abstract semaphores, or leaves them alone.
LEMMA SemStepImplements ==
  ASSUME ~IsrRaces, NEW P, HasSem(P), SemInv(P), [SemNext]_semVars
  PROVE  [Abstract!Next]_(Abstract!semVars)
<1>1. CASE SemCallNext
  BY <1>1, BlockImplements, PendWaitImplements, PostImplements, PendReturnImplements DEF SemCallNext
<1>2. CASE [Next]_vars /\ UNCHANGED sem
  <2>1. CASE Quiet
    <3>1. Still(Sem, SemAt)
      BY <2>1, QuietStill, SemAssumption DEF SemAt, PC
    <3> QED BY <1>2, <3>1, StillStutters
  <2>2. ASSUME NEW t \in Task, Expires(t) \/ Vanishes(t)
        PROVE  [Abstract!Next]_(Abstract!semVars)
    BY <1>2, <2>2, LeaveImplements
  <2>3. Points(P) /\ IInv(P)
    BY DEF HasSem, SemInv
  <2> QED BY <1>2, <2>1, <2>2, <2>3, StepWaits
<1> QED BY <1>1, <1>2 DEF SemNext, semVars, vars

\* At the start no abstract semaphore exists and no call waits.
LEMMA SemInitImplements ==
  ASSUME SemInit
  PROVE  Abstract!Init
<1>1. \A s \in Sem : k.list[s] = <<>>
  BY SemAssumption, WaitListAssumption DEF SemInit, Init, KernelInit, ListHead
<1>2. \A t \in Task : CallState(t) = "idle"
  BY DEF SemInit, Init, CallState, TaskID
<1>3. sem = [s \in Sem |-> [used |-> FALSE, count |-> 0, max |-> 1]]
  BY DEF SemInit
<1>4. {s \in Sem : sem[s].used} = {}
  BY <1>3
<1>5. [s \in Sem |-> sem[s].count] = [s \in Sem |-> 0] /\ [s \in Sem |-> sem[s].max] = [s \in Sem |-> 1]
  BY <1>3
<1> QED BY <1>1, <1>2, <1>4, <1>5 DEF Abstract!Init

\* The semaphores implement the abstract ones, for every number of tasks and
\* semaphores: LOS_SemPend returns LOS_OK exactly when LOS_SemPost handed
\* that call a token, in order of arrival, and a call that timed out took none.
THEOREM SemaphoresKeepTheirPromise ==
  ASSUME ~IsrRaces
  PROVE  SemSpec => ImplementsSemaphore
<1>0. HasSem(SemPoints)
  BY DEF HasSem, Points, SemPoints, SemAt, SemPC, PC
<1>1. SemInit => Abstract!Init
  BY SemInitImplements
<1>2. SemInv(SemPoints) /\ [SemNext]_semVars => [Abstract!Next]_(Abstract!semVars)
  BY <1>0, SemStepImplements
<1> QED BY <1>1, <1>2, SemInvariance, PTL DEF SemSpec, ImplementsSemaphore, Abstract!Spec

-----------------------------------------------------------------------------
(***************************************************************************)
(* Mail blocks.  A task that waits for a block and one that waits for a    *)
(* semaphore are told apart by the points of their code.                   *)
(***************************************************************************)

MailAt == {"mail_schedule", "mail_return"}

HasMail(P) ==
  /\ HasSem(P) /\ MailAt \subseteq P.all
  /\ "mail_schedule" \in P.window /\ "mail_return" \notin P.window

MailPoints ==
  [all |-> SemPC \cup MailAt, window |-> {"schedule", "exit", "sem_schedule", "mail_schedule"},
   strict |-> TRUE]

-----------------------------------------------------------------------------
(* The invariant *)

\* (The idle task never allocates a block.)
MailTyped ==
  /\ pc[Idle] \notin MailAt
  /\ free \in Seq(MailBlock) /\ puwMsg \in [Task -> MailBlock \cup {NoBlock}]
  /\ held \in [MailBlock -> 0 .. 1]

\* The tasks on the list of the mail queue are blocked in osQueueMailAlloc.
MailWaiters ==
  \A t \in ToSet(k.list[MemList]) : t \in Task /\ pc[t] \in MailAt /\ "PEND_QUEUE" \in k.status[t]

\* A block waits for task t to run again and take it.
Promised(t) == pc[t] \in MailAt /\ k.status[t] \cap {"PEND_QUEUE", "TIMEOUT"} = {}

\* A block is in the pool, promised to one task, or held.
BlocksApart ==
  /\ IsInjective(free)
  /\ \A b \in ToSet(free) : held[b] = 0
  /\ \A t \in Task : Promised(t) =>
       puwMsg[t] \in MailBlock \ ToSet(free) /\ held[puwMsg[t]] = 0
  /\ \A t, u \in Task : Promised(t) /\ Promised(u) /\ puwMsg[t] = puwMsg[u] => t = u

NoIdleBlock == k.list[MemList] # <<>> => free = <<>>

MailLocal == MailTyped /\ MailWaiters /\ BlocksApart /\ NoIdleBlock

MailInv(P) == SemInv(P) /\ MailLocal

-----------------------------------------------------------------------------
(* The free list *)

\* What LOS_MemboxFree puts at the front of the free list.
LEMMA PushFacts ==
  ASSUME NEW S, NEW s \in Seq(S), NEW b \in S
  PROVE  /\ LOS_MemboxFree(s, b) \in Seq(S)
         /\ ToSet(LOS_MemboxFree(s, b)) = ToSet(s) \cup {b}
         /\ IsInjective(s) /\ b \notin ToSet(s) => IsInjective(LOS_MemboxFree(s, b))
         /\ s = <<>> => /\ Tail(LOS_MemboxFree(s, b)) = <<>>
                        /\ Head(LOS_MemboxFree(s, b)) = b
<1> DEFINE r == LOS_MemboxFree(s, b)
<1>1. /\ r \in Seq(S) /\ Len(r) = Len(s) + 1 /\ Len(s) \in Nat
      /\ r[1] = b /\ \A i \in 1 .. Len(s) : r[i + 1] = s[i]
      /\ DOMAIN r = 1 .. Len(s) + 1 /\ DOMAIN s = 1 .. Len(s)
  BY DEF LOS_MemboxFree
<1> HIDE DEF r
<1>2. r # <<>> /\ (s = <<>> => Len(r) = 1)
  BY <1>1
<1>3. \A i \in DOMAIN r : i = 1 \/ (i - 1 \in DOMAIN s /\ r[i] = s[i - 1])
  BY <1>1
<1>4. \A i \in DOMAIN s : i + 1 \in DOMAIN r /\ r[i + 1] = s[i]
  BY <1>1
<1>5. ToSet(r) = ToSet(s) \cup {b}
  <2>1. 1 \in DOMAIN r
    BY <1>1
  <2> QED BY <1>1, <1>3, <1>4, <2>1 DEF ToSet
<1>6. ASSUME IsInjective(s), b \notin ToSet(s) PROVE IsInjective(r)
  <2> SUFFICES ASSUME NEW i \in DOMAIN r, NEW j \in DOMAIN r, r[i] = r[j] PROVE i = j
    BY DEF IsInjective
  <2>1. i \in Nat /\ j \in Nat
    BY <1>1
  <2>2. \A n \in DOMAIN s : s[n] # b
    BY <1>6 DEF ToSet
  <2>3. CASE i = 1 \/ j = 1
    BY <1>1, <1>3, <2>2, <2>3
  <2>4. CASE i # 1 /\ j # 1
    <3>1. i - 1 \in DOMAIN s /\ j - 1 \in DOMAIN s /\ s[i - 1] = s[j - 1]
      BY <1>3, <2>4
    <3>2. i - 1 = j - 1
      BY <1>6, <3>1 DEF IsInjective
    <3> QED BY <2>1, <3>2
  <2> QED BY <2>3, <2>4
<1>7. s = <<>> => Tail(r) = <<>> /\ Head(r) = b
  <2>1. Head(r) = r[1] /\ Tail(r) \in Seq(S) /\ Len(Tail(r)) = Len(r) - 1
    BY <1>1, <1>2, HeadTailProperties
  <2>2. s = <<>> => Len(Tail(r)) = 0
    BY <1>2, <2>1
  <2>3. s = <<>> => Tail(r) = <<>>
    BY <2>1, <2>2, EmptySeq
  <2> QED BY <1>1, <2>1, <2>3
<1> QED BY <1>1, <1>5, <1>6, <1>7 DEF r

\* What is left when the first block has been taken.
LEMMA PopFacts ==
  ASSUME NEW S, NEW s \in Seq(S), s # <<>>, IsInjective(s)
  PROVE  /\ Tail(s) \in Seq(S) /\ Head(s) \in S
         /\ IsInjective(Tail(s))
         /\ ToSet(Tail(s)) = ToSet(s) \ {Head(s)} /\ Head(s) \in ToSet(s)
<1>1. /\ Len(s) \in Nat \ {0} /\ DOMAIN s = 1 .. Len(s) /\ 1 \in DOMAIN s /\ Head(s) = s[1]
      /\ Tail(s) \in Seq(S) /\ Len(Tail(s)) = Len(s) - 1 /\ DOMAIN Tail(s) = 1 .. Len(s) - 1
      /\ \A j \in 1 .. Len(s) - 1 : Tail(s)[j] = s[j + 1]
      /\ Head(s) \in S
  BY EmptySeq, LenProperties, HeadTailProperties
<1>2. \A i, j \in DOMAIN s : s[i] = s[j] => i = j
  BY DEF IsInjective
<1>3. IsInjective(Tail(s))
  <2> SUFFICES ASSUME NEW i \in DOMAIN Tail(s), NEW j \in DOMAIN Tail(s), Tail(s)[i] = Tail(s)[j]
               PROVE  i = j
    BY DEF IsInjective
  <2>1. i + 1 \in DOMAIN s /\ j + 1 \in DOMAIN s /\ s[i + 1] = s[j + 1] /\ i \in Nat /\ j \in Nat
    BY <1>1
  <2>2. i + 1 = j + 1
    BY <1>2, <2>1
  <2> QED BY <2>1, <2>2
<1>4. ASSUME NEW x PROVE x \in ToSet(Tail(s)) <=> x \in ToSet(s) /\ x # Head(s)
  <2>1. ASSUME x \in ToSet(Tail(s)) PROVE x \in ToSet(s) /\ x # Head(s)
    <3>1. PICK i \in DOMAIN Tail(s) : Tail(s)[i] = x
      BY <2>1 DEF ToSet
    <3>2. i + 1 \in DOMAIN s /\ s[i + 1] = x /\ i + 1 # 1
      BY <1>1, <3>1
    <3> QED BY <1>1, <1>2, <3>2 DEF ToSet
  <2>2. ASSUME x \in ToSet(s), x # Head(s) PROVE x \in ToSet(Tail(s))
    <3>1. PICK i \in DOMAIN s : s[i] = x
      BY <2>2 DEF ToSet
    <3>2. i - 1 \in 1 .. Len(s) - 1 /\ (i - 1) + 1 = i
      BY <1>1, <2>2, <3>1
    <3> QED BY <1>1, <3>1, <3>2 DEF ToSet
  <2> QED BY <2>1, <2>2
<1> QED BY <1>1, <1>3, <1>4 DEF ToSet

-----------------------------------------------------------------------------
(* Steps that do not allocate or free *)

\* A step that touches neither the list of the mail queue nor its calls.
LEMMA StillMail ==
  ASSUME MailLocal, Still({MemList}, MailAt), UNCHANGED <<free, puwMsg, held>>
  PROVE  MailLocal'
<1>1. MailTyped' /\ k'.list[MemList] = k.list[MemList]
  BY DEF MailLocal, MailTyped, Still, TaskID
<1>2. ASSUME NEW t \in Task
      PROVE  \/ pc'[t] = pc[t] /\ k'.status[t] \cap Limbo = k.status[t] \cap Limbo
             \/ pc[t] \notin MailAt /\ pc'[t] \notin MailAt
  BY DEF Still, TaskID
<1>3. \A t \in Task : Promised(t)' <=> Promised(t)
  BY <1>2 DEF Promised, Limbo, Waiting
<1>4. MailWaiters'
  BY <1>1, <1>2 DEF MailLocal, MailWaiters, Limbo, Waiting
<1>5. BlocksApart' /\ NoIdleBlock'
  BY <1>1, <1>3 DEF MailLocal, BlocksApart, NoIdleBlock
<1> QED BY <1>1, <1>4, <1>5 DEF MailLocal

\* A task that leaves its list without a promise.
LEMMA LeavesMail ==
  ASSUME k \in Kernel, ListsOK(k), MailLocal, NEW t \in Task, Leaves(t),
         Promised(t)' => Promised(t), UNCHANGED <<free, puwMsg, held>>
  PROVE  MailLocal'
<1>1. MailTyped'
  <2>1. Idle \in TaskID \ {t}
    BY TaskAssumption DEF TaskID
  <2> QED BY <2>1 DEF Leaves, MailLocal, MailTyped, MailAt, PC
<1>2. t \in TaskID /\ {MemList} \in SUBSET WaitList
  BY MailAssumption DEF TaskID
<1>3. /\ ToSet(k'.list[MemList]) = ToSet(k.list[MemList]) \ {t}
      /\ k'.list[MemList] # <<>> => k.list[MemList] # <<>>
  BY <1>2, LeavesLists
<1>4. ASSUME NEW u \in Task \ {t}
      PROVE  \/ pc'[u] = pc[u] /\ k'.status[u] \cap Limbo = k.status[u] \cap Limbo
             \/ pc[u] \notin MailAt /\ pc'[u] \notin MailAt
  BY DEF Leaves, TaskID, MailAt, PC
<1>5. \A u \in Task : Promised(u)' => Promised(u)
  BY <1>4 DEF Promised, Limbo, Waiting
<1>6. MailWaiters'
  BY <1>3, <1>4 DEF MailLocal, MailWaiters, Limbo, Waiting
<1>7. BlocksApart' /\ NoIdleBlock'
  BY <1>3, <1>5 DEF MailLocal, BlocksApart, NoIdleBlock
<1> QED BY <1>1, <1>6, <1>7 DEF MailLocal

\* A deletion or a timeout does not promise a block.
LEMMA NoNewPromise ==
  ASSUME NEW P, IInv(P), NEW t \in Task, Expires(t) \/ Vanishes(t)
  PROVE  Promised(t)' => Promised(t)
<1>1. CASE Expires(t)
  BY <1>1 DEF Expires, Promised, Waiting
<1>2. CASE Vanishes(t)
  BY <1>2 DEF Vanishes, Promised, MailAt
<1> QED BY <1>1, <1>2

\* The steps of LosSem leave the pool and its promises alone.
LEMMA SemStepMail ==
  ASSUME NEW P, HasMail(P), MailInv(P), ~IsrRaces,
         [SemNext]_semVars, UNCHANGED <<free, puwMsg, held>>
  PROVE  MailInv(P)'
<1>1. /\ HasSem(P) /\ Points(P) /\ SemInv(P) /\ MailLocal /\ IInv(P) /\ k \in Kernel /\ ListsOK(k)
      /\ pc \in [TaskID -> P.all]
  BY DEF HasMail, HasSem, MailInv, SemInv, IInv, Typed, Sound
<1>2. SemInv(P)'
  BY <1>1, SemStepInv
<1>3. MemList \in WaitList /\ MemList \notin Sem /\ MailAt \cap PC = {} /\ MailAt \cap SemAt = {}
  BY MailAssumption DEF MailAt, PC, SemAt
<1>4. ASSUME NEW ctx \in {"task", "isr"}, NEW s \in Sem,
             \/ \E max \in SemMax : \E count \in 0 .. max : osSemCreate(ctx, s, count, max)
             \/ LOS_SemDelete(ctx, s)
             \/ LOS_SemPendTake(ctx, s)
             \/ LOS_SemPost(ctx, s) /\ k.list[s] = <<>>
      PROVE  Still({MemList}, MailAt)
  BY <1>1, <1>4, BlockInv DEF Still
<1>5. ASSUME NEW s \in Sem, NEW timeout \in Timeouts, LOS_SemPendWait(s, timeout)
      PROVE  Still({MemList}, MailAt)
  <2>1. PICK t : t = k.run
    OBVIOUS
  <2>2. /\ t \in Task /\ pc[t] = "user" /\ pc' = [pc EXCEPT ![t] = "sem_schedule"]
        /\ \A w \in WaitList : k'.list[w] = IF w = s THEN Append(k.list[w], t) ELSE k.list[w]
        /\ \A u \in TaskID \ {t} : k'.status[u] = k.status[u]
    BY <1>1, <1>5, <2>1, PendWaitEffect
  <2>3. /\ \A u \in TaskID \ {t} : pc'[u] = pc[u]
        /\ pc'[t] = "sem_schedule" /\ k'.list[MemList] = k.list[MemList]
    BY <1>1, <1>3, <2>2 DEF TaskID
  <2> QED BY <2>2, <2>3 DEF Still, MailAt
<1>6. ASSUME NEW ctx \in {"task", "isr"}, NEW s \in Sem, LOS_SemPost(ctx, s), k.list[s] # <<>>
      PROVE  Still({MemList}, MailAt)
  <2>1. PICK t : t = Head(k.list[s])
    OBVIOUS
  <2>2. t \in Task /\ pc[t] \in SemAt /\ Served(t)
    BY <1>1, <1>6, <2>1, PostEffect
  <2>3. t \in TaskID /\ pc[t] \notin MailAt
    BY <1>3, <2>2 DEF TaskID
  <2>4. t \notin ToSet(k.list[MemList])
    BY <1>1, <2>3 DEF MailLocal, MailWaiters
  <2> QED BY <1>1, <1>3, <2>2, <2>3, <2>4, ServedStill
<1>7. ASSUME SemPendSchedule \/ SemPendReturn
      PROVE  Still({MemList}, MailAt)
  <2>1. PICK t : t = k.run
    OBVIOUS
  <2>2. /\ k'.list = k.list /\ t \in TaskID /\ pc[t] \in SemAt
        /\ \A u \in TaskID \ {t} : k'.status[u] = k.status[u]
        /\ SemPendSchedule => pc' = [pc EXCEPT ![t] = "sem_return"]
        /\ SemPendReturn => pc' = [pc EXCEPT ![t] = "user"]
    BY <1>1, <1>7, <2>1, PendReturnEffect
  <2>3. pc'[t] \notin MailAt /\ \A u \in TaskID \ {t} : pc'[u] = pc[u]
    BY <1>1, <1>7, <2>2 DEF MailAt
  <2> QED BY <1>3, <2>2, <2>3 DEF Still
<1>8. CASE SemCallNext
  <2>1. Still({MemList}, MailAt)
    BY <1>4, <1>5, <1>6, <1>7, <1>8 DEF SemCallNext
  <2> QED BY <1>1, <1>2, <2>1, StillMail DEF MailInv
<1>9. CASE [Next]_vars
  <2>1. CASE Quiet
    <3>1. Still({MemList}, MailAt)
      BY <1>3, <2>1, QuietStill
    <3> QED BY <1>1, <1>2, <3>1, StillMail DEF MailInv
  <2>2. ASSUME NEW t \in Task, Expires(t) \/ Vanishes(t) PROVE MailInv(P)'
    <3>1. t \in TaskID /\ Leaves(t)
      BY <2>2 DEF Expires, Vanishes, TaskID
    <3>2. Promised(t)' => Promised(t)
      BY <1>1, <2>2, NoNewPromise
    <3> QED BY <1>1, <1>2, <3>1, <3>2, LeavesMail DEF MailInv
  <2> QED BY <1>1, <1>9, <2>1, <2>2, StepWaits
<1> QED BY <1>8, <1>9 DEF SemNext, semVars, vars

-----------------------------------------------------------------------------
(* The calls of the mail queue *)

\* osQueueMailAlloc that has to wait.
LEMMA AllocWaitEffect ==
  ASSUME NEW P, HasMail(P), MailInv(P), NEW timeout \in Timeouts, MailAllocWait(timeout),
         NEW t, t = k.run
  PROVE  /\ IInv(P)' /\ UNCHANGED <<free, puwMsg, held>> /\ free = <<>>
         /\ t \in Task /\ pc[t] = "user" /\ pc' = [pc EXCEPT ![t] = "mail_schedule"]
         /\ \A w \in WaitList : k'.list[w] = IF w = MemList THEN Append(k.list[w], t) ELSE k.list[w]
         /\ \A u \in TaskID \ {t} : k'.status[u] = k.status[u]
         /\ "PEND_QUEUE" \in k'.status[t]
<1>1. /\ Calls("task", "MailAlloc") /\ k.lock = 0
      /\ k' = osTaskWait(k, MemList, "PEND_QUEUE", timeout) /\ Goto("mail_schedule")
      /\ UNCHANGED <<free, puwMsg, held>> /\ free = <<>>
  BY DEF MailAllocWait
<1>2. /\ MemList \in WaitList /\ "PEND_QUEUE" \in Waiting /\ timeout \in Nat
      /\ "mail_schedule" \in P.all /\ "mail_schedule" \in P.window /\ "mail_schedule" \notin PC
  BY SemAssumption, MailAssumption DEF Waiting, HasMail, MailAt, PC
<1>3. Repriced(k) /\ Points(P) /\ IInv(P)
  BY SameRepriced DEF MailInv, SemInv, HasMail, HasSem
<1>4. /\ IInv(P)' /\ k.run \in Task /\ pc' = [pc EXCEPT ![k.run] = "mail_schedule"]
      /\ \A w \in WaitList :
           k'.list[w] = IF w = MemList THEN Append(k.list[w], k.run) ELSE k.list[w]
      /\ \A u \in CB \ {k.run} : k'.status[u] = k.status[u]
      /\ "PEND_QUEUE" \in k'.status[k.run]
  BY <1>1, <1>2, <1>3, Blocks
<1>5. pc[k.run] = "user"
  BY <1>1 DEF Calls, At
<1> QED BY <1>1, <1>4, <1>5 DEF CB

\* osQueueMailAlloc that finds no block waits with nothing promised to it.
LEMMA AllocWaitInv ==
  ASSUME NEW P, HasMail(P), MailInv(P), NEW timeout \in Timeouts, MailAllocWait(timeout)
  PROVE  IInv(P)' /\ Still(Sem, SemAt) /\ MailLocal'
<1>1. PICK t : t = k.run
  OBVIOUS
<1>2. /\ IInv(P)' /\ UNCHANGED <<free, puwMsg, held>> /\ free = <<>>
      /\ t \in Task /\ pc[t] = "user" /\ pc' = [pc EXCEPT ![t] = "mail_schedule"]
      /\ \A w \in WaitList : k'.list[w] = IF w = MemList THEN Append(k.list[w], t) ELSE k.list[w]
      /\ \A u \in TaskID \ {t} : k'.status[u] = k.status[u]
      /\ "PEND_QUEUE" \in k'.status[t]
  BY <1>1, AllocWaitEffect
<1>3. /\ k \in Kernel /\ pc \in [TaskID -> P.all] /\ t \in TaskID /\ MailLocal
      /\ Task \subseteq TaskID
  BY <1>2 DEF MailInv, SemInv, IInv, Typed, TaskID
<1>4. /\ pc'[t] = "mail_schedule" /\ \A u \in TaskID \ {t} : pc'[u] = pc[u]
      /\ \A s \in Sem : k'.list[s] = k.list[s]
      /\ k'.list[MemList] = Append(k.list[MemList], t)
  BY <1>2, <1>3, SemAssumption, MailAssumption
<1>5. Still(Sem, SemAt)
  BY <1>2, <1>4 DEF Still, SemAt
<1>6. ToSet(k'.list[MemList]) = ToSet(k.list[MemList]) \cup {t}
  <2>1. k.list[MemList] \in Seq(TaskID)
    BY <1>3, MailAssumption DEF Kernel, ListHead
  <2> QED BY <1>3, <1>4, <2>1, AppendFacts
<1>7. MailWaiters'
  BY <1>2, <1>3, <1>4, <1>6 DEF MailLocal, MailWaiters, MailAt
<1>8. \A u \in Task : Promised(u)' => Promised(u)
  BY <1>2, <1>3, <1>4 DEF Promised
<1>9. pc'[Idle] \notin MailAt
  BY <1>2, <1>3, <1>4, TaskAssumption DEF MailLocal, MailTyped, TaskID
<1>10. MailTyped' /\ BlocksApart' /\ NoIdleBlock'
  BY <1>2, <1>3, <1>8, <1>9 DEF MailLocal, MailTyped, BlocksApart, NoIdleBlock
<1> QED BY <1>2, <1>5, <1>7, <1>10 DEF MailLocal

\* osQueueMailAlloc that finds a block.
LEMMA AllocNowInv ==
  ASSUME NEW P, HasMail(P), MailInv(P), NEW ctx, MailAllocNow(ctx)
  PROVE  IInv(P)' /\ Still(Sem, SemAt) /\ MailLocal'
<1>1. /\ k' = k /\ pc' = pc /\ puwMsg' = puwMsg /\ free # <<>> /\ free' = Tail(free)
      /\ held' = [held EXCEPT ![Head(free)] = @ + 1]
  BY DEF MailAllocNow, Given
<1>2. IInv(P)' /\ Still(Sem, SemAt)
  BY <1>1 DEF MailInv, SemInv, IInv, Typed, Still
<1>3. MailLocal /\ free \in Seq(MailBlock) /\ IsInjective(free) /\ held \in [MailBlock -> 0 .. 1]
  BY DEF MailInv, MailLocal, MailTyped, BlocksApart
<1>4. /\ Tail(free) \in Seq(MailBlock) /\ Head(free) \in MailBlock
      /\ IsInjective(Tail(free))
      /\ ToSet(Tail(free)) = ToSet(free) \ {Head(free)} /\ Head(free) \in ToSet(free)
  BY <1>1, <1>3, PopFacts
<1>5. held[Head(free)] = 0
  BY <1>3, <1>4 DEF MailLocal, BlocksApart
<1>6. MailTyped'
  BY <1>1, <1>3, <1>4, <1>5 DEF MailLocal, MailTyped
<1>7. \A t \in Task : Promised(t)' = Promised(t)
  BY <1>1 DEF Promised
<1>8. BlocksApart'
  BY <1>1, <1>3, <1>4, <1>5, <1>7 DEF MailLocal, BlocksApart
<1>9. MailWaiters' /\ NoIdleBlock'
  BY <1>1, <1>3 DEF MailLocal, MailWaiters, NoIdleBlock
<1> QED BY <1>2, <1>6, <1>8, <1>9 DEF MailLocal

\* It goes on to LOS_Schedule, and takes what it was promised.
LEMMA AllocReturnInv ==
  ASSUME NEW P, HasMail(P), MailInv(P), MailAllocSchedule \/ MailAllocReturn
  PROVE  IInv(P)' /\ Still(Sem, SemAt) /\ MailLocal'
<1>1. /\ Points(P) /\ IInv(P) /\ "mail_return" \in P.all /\ "mail_return" \notin PC
      /\ "mail_return" \notin P.window /\ MailLocal /\ pc \in [TaskID -> P.all]
  BY DEF MailInv, SemInv, IInv, Typed, HasMail, HasSem, MailAt, PC
<1>2. PICK t : t = k.run
  OBVIOUS
<1>3. ASSUME MailAllocSchedule
      PROVE  IInv(P)' /\ Still(Sem, SemAt) /\ MailLocal'
  <2>1. /\ IInv(P)' /\ k'.list = k.list /\ k'.status = k.status /\ t \in TaskID
        /\ pc[t] = "mail_schedule" /\ pc' = [pc EXCEPT ![t] = "mail_return"]
    BY <1>1, <1>2, <1>3, Goes DEF MailAllocSchedule
  <2>2. UNCHANGED <<free, puwMsg, held>>
    BY <1>3 DEF MailAllocSchedule
  <2>3. \A u \in TaskID : pc'[u] = IF u = t THEN "mail_return" ELSE pc[u]
    BY <1>1, <2>1
  <2>4. Still(Sem, SemAt)
    BY <2>1, <2>3 DEF Still, SemAt
  <2>5. \A u \in TaskID : pc'[u] \in MailAt <=> pc[u] \in MailAt
    BY <2>1, <2>3 DEF MailAt
  <2>6. \A u \in Task : Promised(u)' <=> Promised(u)
    BY <2>1, <2>5 DEF Promised, TaskID
  <2>7. MailWaiters'
    BY <1>1, <2>1, <2>5 DEF MailLocal, MailWaiters, TaskID
  <2>8. MailTyped' /\ BlocksApart' /\ NoIdleBlock'
    BY <1>1, <2>1, <2>2, <2>5, <2>6 DEF MailLocal, MailTyped, BlocksApart, NoIdleBlock, TaskID
  <2> QED BY <2>1, <2>4, <2>7, <2>8 DEF MailLocal
<1>4. ASSUME MailAllocReturn
      PROVE  IInv(P)' /\ Still(Sem, SemAt) /\ MailLocal'
  <2>1. /\ At("mail_return") /\ Goto("user") /\ free' = free
        /\ "TIMEOUT" \in k.status[t] => /\ k' = ClearFlags(k, t, {"TIMEOUT"})
                                        /\ UNCHANGED <<puwMsg, held>>
        /\ "TIMEOUT" \notin k.status[t] =>
             /\ held' = [held EXCEPT ![puwMsg[t]] = @ + 1]
             /\ puwMsg' = [puwMsg EXCEPT ![t] = NoBlock] /\ k' = k
    BY <1>2, <1>4 DEF MailAllocReturn, Given
  <2>2. /\ IInv(P)' /\ k'.list = k.list /\ t \in TaskID /\ pc[t] = "mail_return"
        /\ pc' = [pc EXCEPT ![t] = "user"]
        /\ \A u \in CB \ {t} : k'.status[u] = k.status[u]
        /\ k.status[t] \cap Waiting = {}
    <3>1. CASE "TIMEOUT" \in k.status[t]
      BY <1>1, <1>2, <2>1, <3>1, Returns
    <3>2. CASE "TIMEOUT" \notin k.status[t]
      <4>1. k' = k
        BY <2>1, <3>2
      <4>2. /\ IInv(P)' /\ t \in TaskID /\ pc[t] = "mail_return" /\ pc' = [pc EXCEPT ![t] = "user"]
            /\ k.status[t] \cap Waiting = {}
        BY <1>1, <1>2, <2>1, <3>2, <4>1, ReturnsQuietly
      <4> QED BY <4>1, <4>2
    <3> QED BY <3>1, <3>2
  <2>3. pc'[t] = "user" /\ \A u \in TaskID \ {t} : pc'[u] = pc[u]
    BY <1>1, <2>2
  <2>4. Still(Sem, SemAt)
    BY <2>2, <2>3 DEF Still, SemAt, CB
  <2>5. ~Promised(t)' /\ \A u \in Task \ {t} : u \in TaskID /\ (Promised(u)' <=> Promised(u))
    BY <2>2, <2>3 DEF Promised, MailAt, CB, TaskID
  <2>6. MailWaiters'
    <3> SUFFICES ASSUME NEW u \in ToSet(k.list[MemList])
                 PROVE  u \in Task /\ pc'[u] \in MailAt /\ "PEND_QUEUE" \in k'.status[u]
      BY <2>2 DEF MailWaiters
    <3>1. u \in Task /\ u \in TaskID /\ pc[u] \in MailAt /\ "PEND_QUEUE" \in k.status[u]
      BY <1>1 DEF MailLocal, MailWaiters, TaskID
    <3>2. u # t
      BY <2>2, <3>1 DEF Waiting
    <3> QED BY <2>2, <2>3, <3>1, <3>2 DEF CB
  <2>7. NoIdleBlock'
    BY <1>1, <2>1, <2>2 DEF MailLocal, NoIdleBlock
  <2>8. MailTyped' /\ BlocksApart'
    <3>1. CASE "TIMEOUT" \in k.status[t]
      <4>1. \A u \in Task : Promised(u)' => Promised(u)
        BY <2>5
      <4>2. pc'[Idle] \notin MailAt
        BY <1>1, <2>2, <2>3, TaskAssumption DEF MailLocal, MailTyped, TaskID, MailAt
      <4> QED BY <1>1, <2>1, <3>1, <4>1, <4>2 DEF MailLocal, MailTyped, BlocksApart
    <3>2. CASE "TIMEOUT" \notin k.status[t]
      <4>1. t \in Task
        BY <1>1, <2>2 DEF MailLocal, MailTyped, MailAt, TaskID
      <4>2. Promised(t)
        BY <2>2, <3>2 DEF Promised, MailAt, Waiting
      <4>3. PICK b : b = puwMsg[t]
        OBVIOUS
      <4>4. b \in MailBlock /\ b \notin ToSet(free) /\ held[b] = 0
        BY <1>1, <4>1, <4>2, <4>3 DEF MailLocal, BlocksApart
      <4>5. /\ held' = [held EXCEPT ![b] = @ + 1] /\ held \in [MailBlock -> 0 .. 1]
            /\ puwMsg' = [puwMsg EXCEPT ![t] = NoBlock]
            /\ puwMsg \in [Task -> MailBlock \cup {NoBlock}] /\ free \in Seq(MailBlock)
        BY <1>1, <2>1, <3>2, <4>3 DEF MailLocal, MailTyped
      <4>6. held'[b] = 1 /\ \A c \in MailBlock \ {b} : held'[c] = held[c]
        BY <4>4, <4>5
      <4>7. MailTyped'
        <5>1. \A c \in MailBlock : held'[c] \in 0 .. 1
          BY <4>5, <4>6
        <5>2. held' \in [MailBlock -> 0 .. 1]
          BY <4>5, <5>1
        <5>3. puwMsg' \in [Task -> MailBlock \cup {NoBlock}]
          BY <4>5
        <5>4. pc'[Idle] \notin MailAt
          BY <1>1, <2>2, <2>3, TaskAssumption DEF MailLocal, MailTyped, TaskID, MailAt
        <5> QED BY <2>1, <4>5, <5>2, <5>3, <5>4 DEF MailTyped
      <4>8. \A u \in Task \ {t} : /\ puwMsg'[u] = puwMsg[u]
                                  /\ Promised(u) => puwMsg[u] # b
        BY <1>1, <4>1, <4>2, <4>3, <4>5 DEF MailLocal, BlocksApart
      <4>9. ToSet(free) \subseteq MailBlock
        BY <4>5 DEF ToSet
      <4>10. BlocksApart'
        BY <1>1, <2>1, <2>5, <4>4, <4>6, <4>8, <4>9 DEF MailLocal, BlocksApart
      <4> QED BY <4>7, <4>10
    <3> QED BY <3>1, <3>2
  <2> QED BY <2>2, <2>4, <2>6, <2>7, <2>8 DEF MailLocal
<1> QED BY <1>3, <1>4

\* osQueueMailFree puts the block back, or hands it to the first waiter.
LEMMA FreeInv ==
  ASSUME NEW P, HasMail(P), MailInv(P), NEW ctx \in {"task", "isr"}, NEW b \in MailBlock,
         osQueueMailFree(ctx, b)
  PROVE  IInv(P)' /\ Still(Sem, SemAt) /\ MailLocal'
<1>1. /\ Calls(ctx, "MailFree") /\ held[b] > 0 /\ held' = [held EXCEPT ![b] = @ - 1]
      /\ k.list[MemList] = <<>> => free' = LOS_MemboxFree(free, b) /\ UNCHANGED <<k, pc, puwMsg>>
      /\ k.list[MemList] # <<>> =>
           /\ free' = Tail(LOS_MemboxFree(free, b))
           /\ puwMsg' = [puwMsg EXCEPT ![Head(k.list[MemList])] = Head(LOS_MemboxFree(free, b))]
           /\ ThenSchedule(ctx, osTaskWake(k, Head(k.list[MemList]), "PEND_QUEUE"))
  BY DEF osQueueMailFree
<1>2. /\ Points(P) /\ IInv(P) /\ SemLocal /\ MailLocal /\ k \in Kernel /\ ListsOK(k)
      /\ pc \in [TaskID -> P.all]
  BY DEF HasMail, HasSem, MailInv, SemInv, IInv, Typed, Sound
<1>3. /\ free \in Seq(MailBlock) /\ IsInjective(free) /\ held \in [MailBlock -> 0 .. 1]
      /\ puwMsg \in [Task -> MailBlock \cup {NoBlock}]
  BY <1>2 DEF MailLocal, MailTyped, BlocksApart
<1>4. held[b] = 1 /\ b \notin ToSet(free) /\ \A t \in Task : Promised(t) => puwMsg[t] # b
  BY <1>1, <1>2, <1>3 DEF MailLocal, BlocksApart
<1>5. held'[b] = 0 /\ (\A c \in MailBlock \ {b} : held'[c] = held[c]) /\ held' \in [MailBlock -> 0 .. 1]
  BY <1>1, <1>3, <1>4
<1>6. CASE k.list[MemList] = <<>>
  <2>1. /\ free' \in Seq(MailBlock) /\ ToSet(free') = ToSet(free) \cup {b} /\ IsInjective(free')
        /\ k' = k /\ pc' = pc /\ puwMsg' = puwMsg
    BY <1>1, <1>3, <1>4, <1>6, PushFacts
  <2>2. IInv(P)' /\ Still(Sem, SemAt)
    BY <1>2, <2>1 DEF IInv, Typed, Still
  <2>3. MailTyped' /\ MailWaiters' /\ NoIdleBlock'
    BY <1>2, <1>5, <1>6, <2>1 DEF MailLocal, MailTyped, MailWaiters, NoIdleBlock
  <2>4. \A t \in Task : Promised(t)' <=> Promised(t)
    BY <2>1 DEF Promised
  <2>5. ToSet(free) \subseteq MailBlock
    BY <1>3 DEF ToSet
  <2>6. BlocksApart'
    BY <1>2, <1>4, <1>5, <2>1, <2>4, <2>5 DEF MailLocal, BlocksApart
  <2> QED BY <2>2, <2>3, <2>6 DEF MailLocal
<1>7. CASE k.list[MemList] # <<>>
  <2>1. PICK t : t = Head(k.list[MemList])
    OBVIOUS
  <2>2. free = <<>>
    BY <1>2, <1>7 DEF MailLocal, NoIdleBlock
  <2>3. free' = <<>> /\ puwMsg' = [puwMsg EXCEPT ![t] = b]
    <3>1. Tail(LOS_MemboxFree(free, b)) = <<>> /\ Head(LOS_MemboxFree(free, b)) = b
      BY <1>3, <2>2, PushFacts
    <3> QED BY <1>1, <1>7, <2>1, <3>1
  <2>4. t \in ToSet(k.list[MemList])
    <3>1. k.list[MemList] \in Seq(TaskID)
      BY <1>2, MailAssumption DEF Kernel, ListHead
    <3>2. 1 \in DOMAIN k.list[MemList] /\ t = k.list[MemList][1]
      BY <1>7, <2>1, <3>1, EmptySeq, LenProperties
    <3> QED BY <3>2 DEF ToSet
  <2>5. t \in Task /\ t \in TaskID /\ pc[t] \in MailAt /\ "PEND_QUEUE" \in k.status[t]
    BY <1>2, <2>4 DEF MailLocal, MailWaiters, TaskID
  <2>6. k.status[t] \cap Waiting = {"PEND_QUEUE"} /\ "PEND_QUEUE" \in Waiting
    <3>1. TaskOK(k, t)
      BY <1>2, <2>5 DEF IInv, Sound
    <3> QED BY <2>5, <3>1 DEF TaskOK, Waiting
  <2>7. Repriced(k)
    BY <1>2, SameRepriced
  <2>8. IInv(P)' /\ Served(t)
    BY <1>1, <1>2, <1>7, <2>1, <2>5, <2>6, <2>7, CallServes
  <2>9. Still(Sem, SemAt)
    <3>1. pc[t] \notin SemAt /\ SemAt \cap PC = {} /\ Sem \in SUBSET WaitList
      BY <2>5, SemAssumption DEF MailAt, SemAt, PC
    <3>2. \A s \in Sem : t \notin ToSet(k.list[s])
      BY <1>2, <3>1 DEF SemLocal, SemWaiters
    <3> QED BY <1>2, <2>5, <2>8, <3>1, <3>2, ServedStill
  <2>10. ASSUME NEW u \in Task \ {t}
         PROVE  \/ pc'[u] = pc[u] /\ k'.status[u] \cap Limbo = k.status[u] \cap Limbo
                \/ pc[u] \notin MailAt /\ pc'[u] \notin MailAt
    BY <2>8 DEF Served, Leaves, TaskID, MailAt, PC
  <2>11. \A u \in Task \ {t} : Promised(u)' <=> Promised(u)
    BY <2>10 DEF Promised, Limbo, Waiting
  <2>12. ToSet(k'.list[MemList]) = ToSet(k.list[MemList]) \ {t}
    <3>1. {MemList} \in SUBSET WaitList /\ Leaves(t)
      BY <2>8, MailAssumption DEF Served
    <3> QED BY <1>2, <2>5, <3>1, LeavesLists
  <2>13. MailWaiters'
    BY <1>2, <2>10, <2>12 DEF MailLocal, MailWaiters, Limbo, Waiting
  <2>14. pc'[Idle] \notin MailAt
    <3>1. Idle \in TaskID \ {t}
      BY <2>5, TaskAssumption DEF TaskID
    <3> QED BY <1>2, <2>8, <3>1 DEF Served, Leaves, MailLocal, MailTyped, MailAt, PC
  <2>15. MailTyped' /\ NoIdleBlock'
    BY <1>3, <1>5, <2>3, <2>5, <2>14 DEF MailTyped, NoIdleBlock
  <2>16. /\ puwMsg'[t] = b /\ \A u \in Task \ {t} : puwMsg'[u] = puwMsg[u]
         /\ ToSet(free') = {} /\ IsInjective(free')
    BY <1>3, <2>3, <2>5 DEF ToSet, IsInjective
  <2>17. BlocksApart'
    BY <1>2, <1>4, <1>5, <2>11, <2>16 DEF MailLocal, BlocksApart
  <2> QED BY <2>8, <2>9, <2>13, <2>15, <2>17 DEF MailLocal
<1> QED BY <1>6, <1>7

-----------------------------------------------------------------------------
(* Every step keeps the invariant *)

\* The calls of the mail queue keep the part of their own, and leave the
\* semaphores alone.
LEMMA MailCallInv ==
  ASSUME NEW P, HasMail(P), MailInv(P), MailCallNext
  PROVE  IInv(P)' /\ Still(Sem, SemAt) /\ MailLocal'
BY AllocWaitInv, AllocNowInv, AllocReturnInv, FreeInv DEF MailCallNext

\* Every step of the system keeps the invariant.
LEMMA MailStepInv ==
  ASSUME NEW P, HasMail(P), MailInv(P), ~IsrRaces, [MailNext]_mailVars
  PROVE  MailInv(P)'
<1>1. CASE MailCallNext /\ UNCHANGED sem
  <2>1. IInv(P)' /\ Still(Sem, SemAt) /\ MailLocal'
    BY <1>1, MailCallInv
  <2>2. SemLocal'
    BY <1>1, <2>1, StillSem DEF MailInv, SemInv
  <2> QED BY <2>1, <2>2 DEF MailInv, SemInv
<1>2. CASE [SemNext]_semVars /\ UNCHANGED <<free, puwMsg, held>>
  BY <1>2, SemStepMail
<1> QED BY <1>1, <1>2 DEF MailNext, mailVars, semVars

\* It holds at the start, when every block is in the pool.
LEMMA MailInitInv ==
  ASSUME NEW P, HasMail(P), MailInit
  PROVE  MailInv(P)
<1>1. SemInv(P)
  BY SemInitInv DEF MailInit, HasMail
<1>2. k.list[MemList] = <<>>
  BY MailAssumption, WaitListAssumption DEF MailInit, SemInit, Init, KernelInit, ListHead
<1>3. ToSet(k.list[MemList]) = {}
  BY <1>2 DEF ToSet
<1>4. \A t \in TaskID : pc[t] \notin MailAt
  BY DEF MailInit, SemInit, Init, MailAt
<1>5. Cardinality(MailBlock) \in Nat
  BY MailAssumption, FS_CardinalityType
<1>6. free \in [1 .. Cardinality(MailBlock) -> MailBlock] /\ IsInjective(free)
  BY DEF MailInit
<1>7. free \in Seq(MailBlock) /\ ToSet(free) \subseteq MailBlock
  BY <1>5, <1>6 DEF ToSet
<1>8. puwMsg = [t \in Task |-> NoBlock] /\ held = [c \in MailBlock |-> 0]
  BY DEF MailInit
<1>9. MailTyped /\ MailWaiters /\ NoIdleBlock
  BY <1>2, <1>3, <1>4, <1>7, <1>8 DEF MailTyped, MailWaiters, NoIdleBlock, TaskID
<1>10. BlocksApart
  BY <1>4, <1>6, <1>7, <1>8 DEF BlocksApart, Promised, TaskID
<1> QED BY <1>1, <1>9, <1>10 DEF MailInv, MailLocal

\* The invariant holds in every state, if handlers keep to their rules.
LEMMA MailInvariance ==
  ASSUME ~IsrRaces
  PROVE  MailFairSpec => []MailInv(MailPoints)
<1>0. HasMail(MailPoints)
  BY DEF HasMail, HasSem, Points, MailPoints, SemAt, MailAt, SemPC, PC
<1>1. MailInit => MailInv(MailPoints)
  BY <1>0, MailInitInv
<1>2. MailInv(MailPoints) /\ [MailNext]_mailVars => MailInv(MailPoints)'
  BY <1>0, MailStepInv
<1> QED BY <1>1, <1>2, PTL DEF MailFairSpec

-----------------------------------------------------------------------------
(* The guarantees *)

\* The kernel, the control blocks, the pool and its promises keep their types.
THEOREM MailTypeCorrect ==
  ASSUME ~IsrRaces
  PROVE  MailFairSpec => []MailTypeOK
<1>1. MailInv(MailPoints) => MailTypeOK
  BY DEF MailInv, SemInv, IInv, Typed, MailPoints, SemLocal, SemTyped, SemTypeOK,
         MailLocal, MailTyped, MailTypeOK, MailAt
<1> QED BY <1>1, MailInvariance, PTL

\* No block is handed out twice: it is in the pool, promised to one woken
\* task, or with one holder, and nobody waits while a block is free, however
\* osQueueMailAlloc, osQueueMailFree, timeouts and deletions interleave.
THEOREM NoBlockTwice ==
  ASSUME ~IsrRaces
  PROVE  MailFairSpec => []MailBlocksSound
<1>1. MailInv(MailPoints) => MailBlocksSound
  <2> SUFFICES ASSUME MailInv(MailPoints) PROVE MailBlocksSound
    OBVIOUS
  <2>1. MailTyped /\ BlocksApart /\ NoIdleBlock
    BY DEF MailInv, MailLocal
  <2>2. ASSUME NEW b \in MailBlock
        PROVE  Cardinality(PromisedTo(b)) + held[b] + (IF Contains(free, b) THEN 1 ELSE 0) <= 1
    <3>1. Contains(free, b) <=> b \in ToSet(free)
      BY <2>1 DEF Contains, ToSet, MailTyped
    <3>2. held[b] \in 0 .. 1
      BY <2>1 DEF MailTyped
    <3>3. PromisedTo(b) = {t \in Task : Promised(t) /\ puwMsg[t] = b}
      BY DEF PromisedTo, Promised, MailAt
    <3>4. CASE PromisedTo(b) = {}
      <4>1. Cardinality(PromisedTo(b)) = 0
        BY <3>4, FS_EmptySet
      <4> QED BY <2>1, <3>1, <3>2, <4>1 DEF BlocksApart
    <3>5. CASE PromisedTo(b) # {}
      <4>1. PICK t \in PromisedTo(b) : TRUE
        BY <3>5
      <4>2. t \in Task /\ Promised(t) /\ puwMsg[t] = b
        BY <3>3, <4>1
      <4>3. PromisedTo(b) = {t}
        BY <2>1, <3>3, <4>1, <4>2 DEF BlocksApart
      <4>4. Cardinality(PromisedTo(b)) = 1
        BY <4>3, FS_Singleton
      <4>5. held[b] = 0 /\ b \notin ToSet(free)
        BY <2>1, <4>2 DEF BlocksApart
      <4> QED BY <3>1, <4>4, <4>5
    <3> QED BY <3>4, <3>5
  <2> QED BY <2>1, <2>2 DEF MailBlocksSound, BlocksApart, NoIdleBlock
<1> QED BY <1>1, MailInvariance, PTL

\* The guarantees of the semaphores hold beside the mail queue: a task that
\* waits for a block is never taken for one that waits for a token.
THEOREM MailNobodyWaitsForAToken ==
  ASSUME ~IsrRaces
  PROVE  MailFairSpec => []NoIdleToken
<1>1. MailInv(MailPoints) => NoIdleToken
  BY DEF MailInv, SemInv, SemLocal
<1> QED BY <1>1, MailInvariance, PTL

\* Neither call finds the TIMEOUT flag that an earlier one left.
THEOREM MailTimeoutFlagOfOwnCall ==
  ASSUME ~IsrRaces
  PROVE  MailFairSpec => []TimeoutFlagOwned
<1>1. MailInv(MailPoints) => TimeoutFlagOwned
  BY FlagOwned DEF MailInv, SemInv
<1> QED BY <1>1, MailInvariance, PTL

\* With the mail queue beside them the semaphores still implement the
\* abstract ones: its steps leave them alone.
THEOREM MailKeepsSemaphores ==
  ASSUME ~IsrRaces
  PROVE  MailFairSpec => ImplementsSemaphore
<1>0. HasMail(MailPoints) /\ HasSem(MailPoints)
  BY DEF HasMail, HasSem, Points, MailPoints, SemAt, MailAt, SemPC, PC
<1>1. MailInit => Abstract!Init
  BY SemInitImplements DEF MailInit
<1>2. MailInv(MailPoints) /\ [MailNext]_mailVars => [Abstract!Next]_(Abstract!semVars)
  <2> SUFFICES ASSUME MailInv(MailPoints), [MailNext]_mailVars
               PROVE  [Abstract!Next]_(Abstract!semVars)
    OBVIOUS
  <2>1. CASE MailCallNext /\ UNCHANGED sem
    BY <1>0, <2>1, MailCallInv, StillStutters
  <2>2. CASE [SemNext]_semVars
    BY <1>0, <2>2, SemStepImplements DEF MailInv
  <2> QED BY <2>1, <2>2 DEF MailNext, mailVars, semVars
<1> QED BY <1>1, <1>2, MailInvariance, PTL DEF MailFairSpec, ImplementsSemaphore, Abstract!Spec

-----------------------------------------------------------------------------
(***************************************************************************)
(* Events                                                                  *)
(***************************************************************************)

(***************************************************************************)
(* The loop of LOS_EventWrite.  Induction over its rounds is stated with   *)
(* sets of numbers.                                                        *)
(***************************************************************************)

\* A set that has 0, and with each number the next, has them all.
LEMMA AllNumbers ==
  ASSUME NEW S \in SUBSET Nat, 0 \in S, \A n \in S : n + 1 \in S
  PROVE  S = Nat
<1> DEFINE R == OpToRel(<, Nat)
           Others == Nat \ S
<1>1. IsWellFoundedOn(R, Nat)
  BY NatLessThanWellFounded
<1>2. \A p, q \in Nat : <<q, p>> \in R <=> q < p
  BY DEF OpToRel
<1> HIDE DEF R
<1> SUFFICES ASSUME Others # {} PROVE FALSE
  OBVIOUS
<1>3. Others \subseteq Nat
  OBVIOUS
<1>4. PICK p \in Others : \A q \in Others : <<q, p>> \notin R
  BY <1>1, <1>3, WFMin
<1>5. p \in Nat /\ p # 0 /\ p - 1 \in Nat /\ p - 1 < p
  OBVIOUS
<1>6. p - 1 \notin Others
  BY <1>2, <1>4, <1>5
<1>7. p - 1 \in S
  BY <1>5, <1>6
<1>8. p - 1 + 1 \in S
  BY <1>7
<1> QED BY <1>5, <1>8

\* f is the kernel after each of the first m rounds.
Solves(f, m, waiting, new, bits) ==
  f = [n \in 0 .. m |-> IF n = 0 THEN k ELSE Round(f[n - 1], waiting[n], new, bits)]

\* One round more.
LEMMA NextRound ==
  ASSUME NEW waiting, NEW new, NEW bits, NEW m \in Nat, NEW f, Solves(f, m, waiting, new, bits)
  PROVE  \E g : Solves(g, m + 1, waiting, new, bits)
<1> DEFINE g == [n \in 0 .. m + 1 |->
                   IF n = m + 1 THEN Round(f[m], waiting[m + 1], new, bits) ELSE f[n]]
           body == [n \in 0 .. m + 1 |->
                      IF n = 0 THEN k ELSE Round(g[n - 1], waiting[n], new, bits)]
<1>1. \A n \in 0 .. m : f[n] = IF n = 0 THEN k ELSE Round(f[n - 1], waiting[n], new, bits)
  BY DEF Solves
<1>2. \A n \in 0 .. m : g[n] = f[n]
  OBVIOUS
<1>3. g[m + 1] = Round(f[m], waiting[m + 1], new, bits)
  OBVIOUS
<1>4. DOMAIN g = 0 .. m + 1 /\ g = [n \in 0 .. m + 1 |-> g[n]]
  OBVIOUS
<1> HIDE DEF g
<1>5. \A n \in 0 .. m + 1 : g[n] = IF n = 0 THEN k ELSE Round(g[n - 1], waiting[n], new, bits)
  <2> TAKE n \in 0 .. m + 1
  <2>1. CASE n = m + 1
    <3>1. n # 0 /\ n - 1 = m /\ m \in 0 .. m
      BY <2>1
    <3> QED BY <1>2, <1>3, <2>1, <3>1
  <2>2. CASE n # m + 1
    <3>1. n \in 0 .. m /\ (n # 0 => n - 1 \in 0 .. m)
      BY <2>2
    <3> QED BY <1>1, <1>2, <3>1
  <2> QED BY <2>1, <2>2
<1>6. g = body
  BY <1>4, <1>5
<1> QED BY <1>6 DEF Solves

\* The rounds of the loop are what its definition says.
LEMMA RoundsFacts ==
  ASSUME NEW waiting \in Seq(TaskID), NEW new, NEW bits,
         NEW after, after = Rounds(waiting, new, bits)
  PROVE  /\ after[0] = k
         /\ \A n \in 0 .. Len(waiting) - 1 :
              after[n + 1] = Round(after[n], waiting[n + 1], new, bits)
<1> DEFINE Solved == {m \in Nat : \E f : Solves(f, m, waiting, new, bits)}
<1>1. 0 \in Solved
  <2> DEFINE f == [n \in 0 .. 0 |-> k]
  <2>1. f = [n \in 0 .. 0 |-> IF n = 0 THEN k ELSE Round(f[n - 1], waiting[n], new, bits)]
    OBVIOUS
  <2> QED BY <2>1 DEF Solves
<1>2. \A m \in Solved : m + 1 \in Solved
  BY NextRound
<1>3. Solved = Nat
  <2> HIDE DEF Solved
  <2>1. Solved \in SUBSET Nat
    BY DEF Solved
  <2> QED BY <1>1, <1>2, <2>1, AllNumbers
<1>4. Len(waiting) \in Nat /\ Len(waiting) \in Solved
  <2> HIDE DEF Solved
  <2> QED BY <1>3
<1>5. \E f : Solves(f, Len(waiting), waiting, new, bits)
  BY <1>4
<1>6. after = CHOOSE f : Solves(f, Len(waiting), waiting, new, bits)
  BY DEF Rounds, Solves
<1>7. Solves(after, Len(waiting), waiting, new, bits)
  BY <1>5, <1>6
<1>8. \A n \in 0 .. Len(waiting) :
        after[n] = IF n = 0 THEN k ELSE Round(after[n - 1], waiting[n], new, bits)
  BY <1>7 DEF Solves
<1>9. ASSUME NEW n \in 0 .. Len(waiting) - 1
      PROVE  after[n + 1] = Round(after[n], waiting[n + 1], new, bits)
  <2>1. n + 1 \in 0 .. Len(waiting) /\ n + 1 # 0 /\ n + 1 - 1 = n
    BY <1>4
  <2> QED BY <1>8, <2>1
<1>10. 0 \in 0 .. Len(waiting)
  BY <1>4
<1> QED BY <1>8, <1>9, <1>10

-----------------------------------------------------------------------------
(* What the loop does to the kernel *)

\* r is k after the tasks W were woken.
Woke(r, W) ==
  /\ W \subseteq TaskID
  /\ r \in Kernel /\ Sound(r) /\ SameSwitch(k, r) /\ r.fault = k.fault
  /\ \A u \in CB \ W : r.status[u] = k.status[u]
  /\ \A u \in W : r.status[u] \cap Limbo = {}
  /\ \A w \in WaitList : ToSet(r.list[w]) = ToSet(k.list[w]) \ W

\* A round that wakes one task more.
LEMMA WakesOneMore ==
  ASSUME NEW r, NEW W, Woke(r, W), NEW t \in TaskID, t \notin W,
         k.status[t] \cap Waiting = {"PEND"}
  PROVE  Woke(osTaskWake(r, t, "PEND"), W \cup {t})
<1> DEFINE q == osTaskWake(r, t, "PEND")
<1>1. r \in Kernel /\ Sound(r) /\ t \in CB /\ "PEND" \in Waiting /\ r.status[t] \cap Waiting = {"PEND"}
  BY DEF Woke, CB, Waiting
<1>2. /\ q \in Kernel /\ Sound(q) /\ SameSwitch(r, q) /\ q.fault = r.fault
      /\ \A u \in CB \ {t} : q.status[u] = r.status[u]
      /\ q.status[t] \cap Limbo = {}
      /\ \A w \in WaitList : q.list[w] = Unlink(r.list[w], t)
  BY <1>1, WakeSound
<1> HIDE DEF q
<1>3. SameSwitch(k, q) /\ q.fault = k.fault
  BY <1>2 DEF Woke, SameSwitch
<1>4. \A u \in CB \ (W \cup {t}) : q.status[u] = k.status[u]
  BY <1>2 DEF Woke
<1>5. \A u \in W \cup {t} : q.status[u] \cap Limbo = {}
  <2>1. W \subseteq CB
    BY DEF Woke, CB
  <2> QED BY <1>2, <2>1 DEF Woke
<1>6. \A w \in WaitList : ToSet(q.list[w]) = ToSet(k.list[w]) \ (W \cup {t})
  <2> TAKE w \in WaitList
  <2>1. r.list[w] \in Seq(TaskID) /\ IsInjective(r.list[w])
    BY <1>1 DEF Sound, ListsOK, ListHead, Kernel
  <2>2. q.list[w] = Unlink(r.list[w], t)
    BY <1>2
  <2>3. ToSet(q.list[w]) = ToSet(r.list[w]) \ {t}
    BY <2>1, <2>2, UnlinkFacts
  <2> QED BY <2>3 DEF Woke
<1>7. W \cup {t} \subseteq TaskID
  BY DEF Woke
<1>8. Woke(q, W \cup {t})
  BY <1>2, <1>3, <1>4, <1>5, <1>6, <1>7 DEF Woke
<1> QED BY <1>8 DEF q

\* The tasks the first n rounds wake.
WokenBy(n, waiting, new, bits) ==
  {t \in TaskID : \E i \in 1 .. n : waiting[i] = t /\ Satisfied(want[t], new, bits)}

\* One round.
LEMMA RoundWakes ==
  ASSUME NEW waiting \in Seq(TaskID), IsInjective(waiting), NEW new, NEW bits,
         \A t \in ToSet(waiting) : k.status[t] \cap Waiting = {"PEND"},
         NEW n \in 0 .. Len(waiting) - 1, NEW r, Woke(r, WokenBy(n, waiting, new, bits))
  PROVE  Woke(Round(r, waiting[n + 1], new, bits), WokenBy(n + 1, waiting, new, bits))
<1> DEFINE W == WokenBy(n, waiting, new, bits)
           V == WokenBy(n + 1, waiting, new, bits)
<1>1. PICK t : t = waiting[n + 1]
  OBVIOUS
<1>2. n + 1 \in 1 .. Len(waiting) /\ n + 1 \in DOMAIN waiting /\ DOMAIN waiting = 1 .. Len(waiting)
  OBVIOUS
<1>3. t \in TaskID /\ t \in ToSet(waiting)
  BY <1>1, <1>2 DEF ToSet
<1>4. \A i \in 1 .. n : waiting[i] # t
  <2> TAKE i \in 1 .. n
  <2>1. i \in DOMAIN waiting /\ i # n + 1
    BY <1>2
  <2> QED BY <1>1, <1>2, <2>1 DEF IsInjective
<1>5. t \notin W
  BY <1>4 DEF WokenBy
<1>6. 1 .. n + 1 = (1 .. n) \cup {n + 1}
  OBVIOUS
<1>7. CASE Satisfied(want[t], new, bits)
  <2>1. V = W \cup {t}
    BY <1>1, <1>3, <1>6, <1>7 DEF WokenBy
  <2>2. Round(r, t, new, bits) = osTaskWake(r, t, "PEND")
    BY <1>7 DEF Round
  <2>3. Woke(r, W)
    OBVIOUS
  <2> HIDE DEF V, W
  <2>4. Woke(osTaskWake(r, t, "PEND"), W \cup {t})
    BY <1>3, <1>5, <2>3, WakesOneMore
  <2> QED BY <1>1, <2>1, <2>2, <2>4 DEF V
<1>8. CASE ~Satisfied(want[t], new, bits)
  <2>1. V = W
    BY <1>1, <1>6, <1>8 DEF WokenBy
  <2>2. Round(r, t, new, bits) = r
    BY <1>8 DEF Round
  <2> QED BY <1>1, <2>1, <2>2
<1> QED BY <1>7, <1>8

\* The whole loop.
LEMMA LoopWakes ==
  ASSUME k \in Kernel, Sound(k), NEW e \in WaitList, NEW new, NEW bits,
         \A t \in ToSet(k.list[e]) : k.status[t] \cap Waiting = {"PEND"}
  PROVE  Woke(Rounds(k.list[e], new, bits)[Len(k.list[e])],
              {t \in ToSet(k.list[e]) : Satisfied(want[t], new, bits)})
<1>1. PICK waiting : waiting = k.list[e]
  OBVIOUS
<1>2. PICK after : after = Rounds(waiting, new, bits)
  OBVIOUS
<1>3. waiting \in Seq(TaskID) /\ IsInjective(waiting) /\ Len(waiting) \in Nat
  BY <1>1 DEF Sound, ListsOK, ListHead, Kernel
<1>4. /\ after[0] = k
      /\ \A n \in 0 .. Len(waiting) - 1 :
           after[n + 1] = Round(after[n], waiting[n + 1], new, bits)
  BY <1>2, <1>3, RoundsFacts
<1> DEFINE Done == {n \in Nat : n <= Len(waiting) => Woke(after[n], WokenBy(n, waiting, new, bits))}
<1>5. 0 \in Done
  <2>1. WokenBy(0, waiting, new, bits) = {}
    BY DEF WokenBy
  <2>2. SameSwitch(k, k)
    BY DEF SameSwitch
  <2> QED BY <1>4, <2>1, <2>2 DEF Woke
<1>6. ASSUME NEW n \in Done
      PROVE  n + 1 \in Done
  <2> SUFFICES ASSUME n + 1 <= Len(waiting)
               PROVE  Woke(after[n + 1], WokenBy(n + 1, waiting, new, bits))
    OBVIOUS
  <2>1. n \in 0 .. Len(waiting) - 1
    BY <1>3
  <2>2. Woke(after[n], WokenBy(n, waiting, new, bits))
    BY <1>3
  <2>3. after[n + 1] = Round(after[n], waiting[n + 1], new, bits)
    BY <1>4, <2>1
  <2>4. \A t \in ToSet(waiting) : k.status[t] \cap Waiting = {"PEND"}
    BY <1>1
  <2> QED BY <1>3, <2>1, <2>2, <2>3, <2>4, RoundWakes
<1>7. Len(waiting) \in Done
  <2> HIDE DEF Done
  <2>1. Done \in SUBSET Nat
    BY DEF Done
  <2>2. Done = Nat
    BY <1>5, <1>6, <2>1, AllNumbers
  <2> QED BY <1>3, <2>2
<1>8. Woke(after[Len(waiting)], WokenBy(Len(waiting), waiting, new, bits))
  BY <1>3, <1>7
<1>9. WokenBy(Len(waiting), waiting, new, bits) = {t \in ToSet(waiting) : Satisfied(want[t], new, bits)}
  BY <1>3 DEF WokenBy, ToSet
<1> QED BY <1>1, <1>2, <1>8, <1>9

-----------------------------------------------------------------------------
(***************************************************************************)
(* The invariant.  As in LosTaskProofs, P is the points of the tasks' code *)
(* in the system that events are a part of.                                *)
(***************************************************************************)

EventAt == {"event_schedule", "event_return"}

\* Before a call masks the interrupts.
EventIn == {"event_read", "event_write"}

HasEvent(P) ==
  /\ Points(P) /\ EventAt \cup EventIn \subseteq P.all
  /\ "event_schedule" \in P.window /\ "event_return" \notin P.window
  /\ EventIn \cap P.window = {}

EventPoints == [all |-> PC \cup EventAt \cup EventIn,
                window |-> {"schedule", "exit", "event_schedule"}, strict |-> TRUE]

ECB == [init : BOOLEAN, bits : SUBSET Bit]

\* (The idle task never reads an event.)
EventTyped ==
  /\ event \in [Event -> ECB]
  /\ want \in [Task -> [event : Event, mask : SUBSET Bit, mode : SUBSET {"OR", "AND", "CLR"}]]
  /\ pc[Idle] \notin EventAt
  /\ \A t \in Task : pc[t] \in EventAt => want[t].mask \in Masks /\ want[t].mode \in Modes

\* The tasks on the list of an event are blocked in LOS_EventRead.
Readers ==
  \A e \in Event : \A t \in ToSet(k.list[e]) :
    t \in Task /\ pc[t] \in EventAt /\ "PEND" \in k.status[t]

EventLocal == EventTyped /\ Readers /\ NoMissedEvent /\ WokenFindsEvent

EventInv(P) == IInv(P) /\ EventLocal

\* A task that has yet to mask the interrupts has not waited in its call, and
\* its event is there.
Inside ==
  /\ pc[Idle] \notin EventIn
  /\ \A t \in Task : pc[t] \in EventIn =>
       /\ k.status[t] \cap Limbo = {} /\ event[want[t].event].init
       /\ want[t].mask \in Masks
       /\ pc[t] = "event_read" => want[t].mode \in Modes

\* The event of a reader that goes on has lost no bits, or the reader is in stolen.
Kept ==
  \A t \in Task : pc[t] \in EventAt /\ pc'[t] \in EventAt /\ t \notin stolen' =>
    t \notin stolen /\ event[want[t].event].bits \subseteq event'[want[t].event].bits

-----------------------------------------------------------------------------
(* What a read returns *)

\* More bits satisfy what fewer satisfied.
LEMMA PollGrows ==
  ASSUME NEW bits, NEW more, bits \subseteq more, NEW mask, NEW mode, Poll(bits, mask, mode) # {}
  PROVE  Poll(more, mask, mode) # {}
<1>1. CASE "OR" \in mode
  BY <1>1 DEF Poll
<1>2. CASE "OR" \notin mode
  <2>1. mask \subseteq bits
    BY <1>2 DEF Poll
  <2> QED BY <1>2, <2>1 DEF Poll
<1> QED BY <1>1, <1>2

\* The condition of LOS_EventWrite, which looks at the new bits only for an OR
\* read, agrees with the one of LOS_EventPoll for a read that found nothing.
LEMMA SatisfiedFinds ==
  ASSUME NEW bits, NEW new, NEW w, w.mask \in Masks, Poll(bits, w.mask, w.mode) = {}
  PROVE  Satisfied(w, new, bits \cup new) <=> Poll(bits \cup new, w.mask, w.mode) # {}
<1>1. w.mask # {}
  BY EventAssumption
<1>2. CASE "OR" \in w.mode
  BY <1>2 DEF Poll, Satisfied
<1>3. CASE "OR" \notin w.mode
  BY <1>1, <1>3 DEF Poll, Satisfied
<1> QED BY <1>2, <1>3

\* A read sets no bits.
LEMMA LeftFacts ==
  ASSUME NEW bits, NEW mask, NEW mode
  PROVE  Left(bits, mask, mode) \subseteq bits
BY DEF Left

\* A change of the bits of an event.
LEMMA BitsFacts ==
  ASSUME EventTyped, NEW e \in Event, NEW b \in SUBSET Bit,
         event' = [event EXCEPT ![e].bits = b],
         \A t \in Stolen(e, b) : t \in stolen' \/ pc'[t] \notin EventAt
  PROVE  /\ event' \in [Event -> ECB] /\ event'[e].bits = b
         /\ \A x \in Event : event'[x].init = event[x].init
         /\ \A x \in Event \ {e} : event'[x] = event[x]
         /\ Kept
<1>1. event' = [event EXCEPT ![e].bits = b] /\ event \in [Event -> ECB]
  BY DEF EventTyped
<1>2. /\ event' \in [Event -> ECB] /\ event'[e].bits = b
      /\ \A x \in Event : event'[x].init = event[x].init
      /\ \A x \in Event \ {e} : event'[x] = event[x]
  BY <1>1 DEF ECB
<1>3. Kept
  <2> SUFFICES ASSUME NEW t \in Task, pc[t] \in EventAt, pc'[t] \in EventAt, t \notin stolen'
               PROVE  t \notin stolen /\ event[want[t].event].bits \subseteq event'[want[t].event].bits
    BY DEF Kept
  <2>1. t \notin (IF event[e].bits \subseteq b THEN stolen ELSE stolen \cup Reading(e))
    BY DEF Stolen
  <2>2. want[t].event \in Event
    BY DEF EventTyped
  <2>3. CASE want[t].event = e
    <3>1. t \in Reading(e)
      BY <2>3 DEF Reading, EventAt
    <3> QED BY <1>2, <2>1, <2>3, <3>1
  <2>4. CASE want[t].event # e
    BY <1>2, <2>1, <2>2, <2>4
  <2> QED BY <2>3, <2>4
<1> QED BY <1>2, <1>3

\* So do the calls that do nothing else.
LEMMA SetBitsFacts ==
  ASSUME EventTyped, NEW e \in Event, NEW b \in SUBSET Bit, SetBits(e, b)
  PROVE  /\ event' \in [Event -> ECB] /\ event'[e].bits = b
         /\ \A x \in Event : event'[x].init = event[x].init
         /\ \A x \in Event \ {e} : event'[x] = event[x]
         /\ Kept
BY BitsFacts DEF SetBits

-----------------------------------------------------------------------------
(* Steps that wake nobody *)

\* A list without tasks holds none.
LEMMA NoReader ==
  ASSUME NEW s, s = <<>>
  PROVE  ToSet(s) = {}
BY DEF ToSet

\* The bits of an event shrink, or nobody waits for it.
LEMMA ChangeInv ==
  ASSUME NEW P, EventInv(P), UNCHANGED <<k, pc, want>>, event' \in [Event -> ECB], Kept,
         \A e \in Event : ToSet(k.list[e]) # {} =>
           event'[e].init = event[e].init /\ event'[e].bits \subseteq event[e].bits
  PROVE  EventInv(P)'
<1>1. IInv(P)' /\ EventTyped' /\ Readers'
  BY DEF EventInv, EventLocal, IInv, Typed, EventTyped, Readers
<1>2. NoMissedEvent'
  <2> SUFFICES ASSUME NEW e \in Event, NEW t \in ToSet(k.list[e])
               PROVE  /\ event'[e].init /\ want[t].event = e
                      /\ Poll(event'[e].bits, want[t].mask, want[t].mode) = {}
    BY DEF NoMissedEvent
  <2>1. /\ event[e].init /\ want[t].event = e
        /\ Poll(event[e].bits, want[t].mask, want[t].mode) = {}
    BY DEF EventInv, EventLocal, NoMissedEvent
  <2>2. event'[e].init = event[e].init /\ event'[e].bits \subseteq event[e].bits
    OBVIOUS
  <2> QED BY <2>1, <2>2, PollGrows
<1>3. WokenFindsEvent'
  <2> SUFFICES ASSUME NEW t \in Task, pc[t] \in EventAt,
                      k.status[t] \cap {"PEND", "TIMEOUT"} = {}, t \notin stolen'
               PROVE  Poll(event'[want[t].event].bits, want[t].mask, want[t].mode) # {}
    BY DEF WokenFindsEvent, EventAt
  <2>1. t \notin stolen /\ event[want[t].event].bits \subseteq event'[want[t].event].bits
    BY DEF Kept
  <2>2. Poll(event[want[t].event].bits, want[t].mask, want[t].mode) # {}
    BY <2>1 DEF EventInv, EventLocal, WokenFindsEvent, EventAt
  <2> QED BY <2>1, <2>2, PollGrows
<1> QED BY <1>1, <1>2, <1>3 DEF EventInv, EventLocal

\* The calls that touch a control block and no task.
LEMMA EventCallInv ==
  ASSUME NEW P, EventInv(P), NEW ctx \in {"task", "isr"}, NEW e \in Event,
         \/ LOS_EventInit(ctx, e) \/ LOS_EventDestory(ctx, e)
         \/ \E mask \in Masks : \/ LOS_EventClear(ctx, e, Bit \ mask)
                                \/ \E mode \in Modes : LOS_EventPoll(ctx, e, mask, mode)
  PROVE  EventInv(P)' /\ UNCHANGED <<k, pc, want>>
<1>1. UNCHANGED <<k, pc, want>>
  BY DEF LOS_EventInit, LOS_EventDestory, LOS_EventClear, LOS_EventPoll
<1>2. event \in [Event -> ECB] /\ EventTyped
  BY DEF EventInv, EventLocal, EventTyped
<1>3. CASE LOS_EventInit(ctx, e)
  <2>1. /\ event' = [event EXCEPT ![e] = [init |-> TRUE, bits |-> {}]]
        /\ stolen' = stolen \cup Reading(e) /\ k.list[e] = <<>>
    BY <1>3 DEF LOS_EventInit
  <2>2. ToSet(k.list[e]) = {}
    BY <2>1, NoReader
  <2>3. event' \in [Event -> ECB] /\ \A x \in Event \ {e} : event'[x] = event[x]
    BY <1>2, <2>1 DEF ECB
  <2>4. Kept
    <3> SUFFICES ASSUME NEW t \in Task, pc[t] \in EventAt, t \notin stolen'
                 PROVE  t \notin stolen /\ event'[want[t].event] = event[want[t].event]
      BY DEF Kept
    <3>1. t \notin stolen /\ want[t].event # e /\ want[t].event \in Event
      BY <1>2, <2>1 DEF Reading, EventAt, EventTyped
    <3> QED BY <2>3, <3>1
  <2> QED BY <1>1, <2>2, <2>3, <2>4, ChangeInv
<1>4. CASE LOS_EventDestory(ctx, e)
  <2>1. event' = [event EXCEPT ![e].init = FALSE] /\ stolen' = stolen /\ k.list[e] = <<>>
    BY <1>4 DEF LOS_EventDestory
  <2>2. ToSet(k.list[e]) = {}
    BY <2>1, NoReader
  <2>3. /\ event' \in [Event -> ECB]
        /\ \A x \in Event : event'[x].bits = event[x].bits
        /\ \A x \in Event \ {e} : event'[x] = event[x]
    BY <1>2, <2>1 DEF ECB
  <2>4. Kept
    BY <1>2, <2>1, <2>3 DEF Kept, EventTyped
  <2> QED BY <1>1, <2>2, <2>3, <2>4, ChangeInv
<1>5. ASSUME NEW b \in SUBSET Bit, b \subseteq event[e].bits, SetBits(e, b)
      PROVE  EventInv(P)'
  <2>1. /\ event' \in [Event -> ECB] /\ event'[e].bits = b /\ Kept
        /\ \A x \in Event : event'[x].init = event[x].init
        /\ \A x \in Event \ {e} : event'[x] = event[x]
    BY <1>2, <1>5, SetBitsFacts
  <2> QED BY <1>1, <1>5, <2>1, ChangeInv
<1>6. event[e].bits \in SUBSET Bit
  BY <1>2 DEF ECB
<1>7. ASSUME NEW mask \in Masks, LOS_EventClear(ctx, e, Bit \ mask)
      PROVE  EventInv(P)'
  <2>1. event[e].bits \cap (Bit \ mask) \in SUBSET Bit
    BY <1>6
  <2> QED BY <1>5, <1>7, <2>1 DEF LOS_EventClear
<1>8. ASSUME NEW mask \in Masks, NEW mode \in Modes,
             LOS_EventPoll(ctx, e, mask, mode)
      PROVE  EventInv(P)'
  <2>1. Left(event[e].bits, mask, mode) \subseteq event[e].bits
    BY LeftFacts
  <2>2. SetBits(e, Left(event[e].bits, mask, mode))
    BY <1>8 DEF LOS_EventPoll
  <2>3. Left(event[e].bits, mask, mode) \in SUBSET Bit
    BY <1>6, <2>1
  <2> QED BY <1>5, <2>1, <2>2, <2>3
<1> QED BY <1>1, <1>3, <1>4, <1>7, <1>8

-----------------------------------------------------------------------------
(* LOS_EventWrite *)

\* The calls of the tasks on the list of an event are what they are.
LEMMA ReaderFacts ==
  ASSUME NEW P, EventInv(P), NEW e \in Event, NEW t \in ToSet(k.list[e])
  PROVE  /\ t \in Task /\ t \in TaskID /\ t \in CB /\ pc[t] \in EventAt
         /\ k.status[t] \cap Waiting = {"PEND"} /\ "READY" \notin k.status[t]
         /\ event[e].init /\ want[t].event = e
         /\ want[t].mask \in Masks /\ want[t].mode \in Modes
         /\ Poll(event[e].bits, want[t].mask, want[t].mode) = {}
<1>1. t \in Task /\ t \in TaskID /\ pc[t] \in EventAt /\ "PEND" \in k.status[t]
  BY DEF EventInv, EventLocal, Readers, TaskID
<1>2. TaskOK(k, t)
  BY <1>1 DEF EventInv, IInv, Sound
<1>3. k.status[t] \cap Waiting = {"PEND"} /\ "READY" \notin k.status[t]
  BY <1>1, <1>2 DEF TaskOK, TaskBlock, Waiting
<1>4. want[t].mask \in Masks /\ want[t].mode \in Modes
  BY <1>1 DEF EventInv, EventLocal, EventTyped
<1> QED BY <1>1, <1>3, <1>4 DEF EventInv, EventLocal, NoMissedEvent, CB

\* The tasks W are woken, and nobody else is touched.
WokenUp(W) ==
  /\ \A u \in TaskID \ W : /\ k'.status[u] \cap Limbo = k.status[u] \cap Limbo
                           /\ pc'[u] = pc[u] \/ (pc'[u] \in PC /\ pc[u] \notin EventAt)
  /\ \A u \in W : k'.status[u] \cap Limbo = {} /\ pc'[u] = pc[u]
  /\ \A w \in WaitList : ToSet(k'.list[w]) = ToSet(k.list[w]) \ W

\* The tasks a write of new to e satisfies.
Satisfies(e, new) == {t \in ToSet(k.list[e]) : Satisfied(want[t], new, event[e].bits \cup new)}

\* LOS_EventWrite sets the bits and wakes the tasks they satisfy, all of them.
LEMMA WriteEffect ==
  ASSUME NEW P, HasEvent(P), EventInv(P), NEW ctx \in {"task", "isr"}, NEW e \in Event,
         event[e].init, NEW new, Write(ctx, e, new),
         ctx = "task" => At("event_write") /\ k.status[k.run] \cap Limbo = {}
  PROVE  /\ IInv(P)' /\ WokenUp(Satisfies(e, new)) /\ UNCHANGED want
         /\ SetBits(e, event[e].bits \cup new)
<1> DEFINE W == Satisfies(e, new)
           bits == event[e].bits \cup new
           waiting == k.list[e]
<1>1. /\ SetBits(e, bits) /\ want' = want
      /\ IF W # {} THEN ThenSchedule(ctx, Rounds(waiting, new, bits)[Len(waiting)])
         ELSE k' = k /\ IF ctx = "task" THEN Goto("user") ELSE pc' = pc
  BY DEF Write, Satisfies
<1>2. /\ k \in Kernel /\ Sound(k) /\ IInv(P) /\ Points(P) /\ e \in WaitList
      /\ pc \in [TaskID -> P.all]
  BY EventAssumption DEF EventInv, HasEvent, IInv, Typed
<1>3. CASE W = {}
  <2>1. CASE ctx = "isr"
    BY <1>1, <1>2, <1>3, <2>1 DEF WokenUp, IInv, Typed
  <2>2. CASE ctx = "task"
    <3>1. k' = k /\ Goto("user") /\ At("event_write")
      BY <1>1, <1>3, <2>2
    <3>2. "event_write" \notin P.window /\ "user" \in P.all /\ "user" \notin P.window
      BY DEF HasEvent, EventIn, Points, PC
    <3>3. /\ IInv(P)' /\ pc[k.run] = "event_write" /\ pc'[k.run] = "user"
          /\ \A u \in TaskID \ {k.run} : pc'[u] = pc[u]
      BY <1>2, <2>2, <3>1, <3>2, Moves
    <3>4. \A u \in TaskID : pc'[u] = pc[u] \/ (pc'[u] \in PC /\ pc[u] \notin EventAt)
      BY <3>3 DEF PC, EventAt
    <3>5. WokenUp(W)
      BY <1>3, <3>1, <3>4 DEF WokenUp
    <3> QED BY <1>1, <3>3, <3>5
  <2> QED BY <2>1, <2>2
<1>4. CASE W # {}
  <2>1. PICK r : r = Rounds(waiting, new, bits)[Len(waiting)]
    OBVIOUS
  <2>2. \A t \in ToSet(waiting) : /\ t \in TaskID /\ t \in CB /\ pc[t] \in EventAt
                                 /\ k.status[t] \cap Waiting = {"PEND"} /\ "READY" \notin k.status[t]
    BY ReaderFacts
  <2>3. Woke(r, W)
    <3>1. W = {t \in ToSet(waiting) : Satisfied(want[t], new, bits)}
      BY DEF Satisfies
    <3>2. \A t \in ToSet(k.list[e]) : k.status[t] \cap Waiting = {"PEND"}
      BY <2>2
    <3>3. PICK all : all = bits
      OBVIOUS
    <3>4. Woke(Rounds(k.list[e], new, all)[Len(k.list[e])],
               {t \in ToSet(k.list[e]) : Satisfied(want[t], new, all)})
      BY ONLY <1>2, <3>2, LoopWakes
    <3> QED BY <2>1, <3>1, <3>3, <3>4
  <2>4. ThenSchedule(ctx, r)
    BY <1>1, <1>4, <2>1
  <2>5. \A t \in W : t \in TaskID /\ t \in CB /\ pc[t] \in EventAt /\ "READY" \notin k.status[t]
    BY <2>2 DEF Satisfies
  <2> HIDE DEF W
  <2>6. /\ r \in Kernel /\ Sound(r) /\ SameSwitch(k, r) /\ r.fault = k.fault
        /\ \A u \in CB \ W : r.status[u] = k.status[u]
        /\ \A u \in W : r.status[u] \cap Limbo = {}
        /\ \A w \in WaitList : ToSet(r.list[w]) = ToSet(k.list[w]) \ W
    BY <2>3 DEF Woke
  <2>7. ctx = "task" => k.run \in TaskID /\ ~k.pendSV /\ pc[k.run] = "event_write"
    BY DEF At, Runs
  <2>8. ctx = "task" => k.run \notin W /\ k.run \in CB /\ k.status[k.run] \cap Limbo = {}
    BY <2>5, <2>7 DEF EventAt, CB
  <2>9. k.lock > 0 => "READY" \in r.status[k.run]
    BY <1>2, <2>5, <2>6 DEF IInv, Dispatch, CB
  <2>10. NoNewWait(k, r)
    BY <2>6 DEF NoNewWait, CB
  <2>11. IInv(P)'
    BY <1>2, <2>4, <2>6, <2>7, <2>8, <2>9, <2>10, EndSchedule
  <2>12. k' = r \/ k' = LOS_Schedule(r)
    BY <2>4 DEF ThenSchedule
  <2>13. k'.status = r.status /\ k'.list = r.list
    BY <2>6, <2>12, ScheduleFrame DEF SameTasks, SameLists
  <2>14. pc' = IF ctx = "task" THEN [pc EXCEPT ![k.run] = "schedule"] ELSE pc
    BY <2>4 DEF ThenSchedule, Goto
  <2>15. \A u \in TaskID : pc'[u] = pc[u] \/ (pc'[u] \in PC /\ pc[u] \notin EventAt)
    BY <1>2, <2>7, <2>14 DEF PC, EventAt
  <2>16. \A u \in W : pc'[u] = pc[u]
    BY <1>2, <2>5, <2>8, <2>14
  <2>17. WokenUp(W)
    BY <2>6, <2>13, <2>15, <2>16 DEF WokenUp, CB
  <2> QED BY <1>1, <2>11, <2>17 DEF W
<1> QED BY <1>3, <1>4

\* LOS_EventWrite keeps the invariant.
LEMMA WriteInv ==
  ASSUME NEW P, HasEvent(P), EventInv(P), NEW ctx \in {"task", "isr"}, NEW e \in Event,
         event[e].init, NEW new \in Masks, Write(ctx, e, new),
         ctx = "task" => At("event_write") /\ k.status[k.run] \cap Limbo = {}
  PROVE  EventInv(P)'
<1> DEFINE bits == event[e].bits \cup new
<1>1. PICK W : W = Satisfies(e, new)
  OBVIOUS
<1>2. IInv(P)' /\ WokenUp(W) /\ want' = want /\ SetBits(e, bits)
  BY <1>1, WriteEffect
<1>3. EventTyped /\ event \in [Event -> ECB]
  BY DEF EventInv, EventLocal, EventTyped
<1>4. bits \in SUBSET Bit
  BY <1>3, EventAssumption DEF ECB
<1>5. /\ event' \in [Event -> ECB] /\ event'[e].bits = bits
      /\ \A x \in Event : event'[x].init = event[x].init
      /\ \A x \in Event \ {e} : event'[x] = event[x]
      /\ Kept
  BY <1>2, <1>3, <1>4, SetBitsFacts
<1>6. \A x \in Event : event[x].bits \subseteq event'[x].bits
  BY <1>5
<1>7. \A t \in W : /\ t \in Task /\ want[t].event = e /\ pc[t] \in EventAt
                   /\ Poll(bits, want[t].mask, want[t].mode) # {}
  <2> SUFFICES ASSUME NEW t \in W
               PROVE  /\ t \in Task /\ want[t].event = e /\ pc[t] \in EventAt
                      /\ Poll(bits, want[t].mask, want[t].mode) # {}
    OBVIOUS
  <2>1. t \in ToSet(k.list[e]) /\ Satisfied(want[t], new, bits)
    BY <1>1 DEF Satisfies
  <2>2. /\ t \in Task /\ want[t].event = e /\ pc[t] \in EventAt /\ want[t].mask \in Masks
        /\ Poll(event[e].bits, want[t].mask, want[t].mode) = {}
    BY <2>1, ReaderFacts
  <2> QED BY <2>1, <2>2, SatisfiedFinds
<1>8. \A u \in TaskID : pc'[u] = pc[u] \/ (pc'[u] \in PC /\ pc[u] \notin EventAt)
  BY <1>2 DEF WokenUp
<1>9. EventTyped'
  <2>1. Idle \in TaskID /\ Task \subseteq TaskID
    BY DEF TaskID
  <2> QED BY <1>2, <1>3, <1>5, <1>8, <2>1 DEF EventTyped, EventAt, PC
<1>10. ASSUME NEW x \in Event, NEW t \in ToSet(k'.list[x])
       PROVE  /\ t \in ToSet(k.list[x]) /\ t \notin W
              /\ k'.status[t] \cap Limbo = k.status[t] \cap Limbo /\ pc'[t] = pc[t]
  <2>1. t \in ToSet(k.list[x]) /\ t \notin W
    BY <1>2, EventAssumption DEF WokenUp
  <2>2. t \in TaskID /\ pc[t] \in EventAt
    BY <2>1, ReaderFacts
  <2> QED BY <1>2, <2>1, <2>2 DEF WokenUp, EventAt, PC
<1>11. Readers'
  <2> SUFFICES ASSUME NEW x \in Event, NEW t \in ToSet(k'.list[x])
               PROVE  t \in Task /\ pc'[t] \in EventAt /\ "PEND" \in k'.status[t]
    BY DEF Readers
  <2>1. t \in Task /\ pc[t] \in EventAt /\ k.status[t] \cap Waiting = {"PEND"}
    BY <1>10, ReaderFacts
  <2> QED BY <1>10, <2>1 DEF Limbo, Waiting
<1>12. NoMissedEvent'
  <2> SUFFICES ASSUME NEW x \in Event, NEW t \in ToSet(k'.list[x])
               PROVE  /\ event'[x].init /\ want[t].event = x
                      /\ Poll(event'[x].bits, want[t].mask, want[t].mode) = {}
    BY <1>2 DEF NoMissedEvent
  <2>1. /\ t \in ToSet(k.list[x]) /\ t \notin W /\ event[x].init /\ want[t].event = x
        /\ want[t].mask \in Masks /\ Poll(event[x].bits, want[t].mask, want[t].mode) = {}
    BY <1>10, ReaderFacts
  <2>2. CASE x = e
    <3>1. ~Satisfied(want[t], new, bits)
      BY <1>1, <2>1, <2>2 DEF Satisfies
    <3>2. Poll(bits, want[t].mask, want[t].mode) = {}
      BY <2>1, <2>2, <3>1, SatisfiedFinds
    <3> QED BY <1>5, <2>1, <2>2, <3>2
  <2>3. CASE x # e
    BY <1>5, <2>1, <2>3
  <2> QED BY <2>2, <2>3
<1>13. WokenFindsEvent'
  <2> SUFFICES ASSUME NEW t \in Task, pc'[t] \in EventAt,
                      k'.status[t] \cap {"PEND", "TIMEOUT"} = {}, t \notin stolen'
               PROVE  Poll(event'[want[t].event].bits, want[t].mask, want[t].mode) # {}
    BY <1>2 DEF WokenFindsEvent, EventAt
  <2>1. CASE t \in W
    BY <1>5, <1>7, <2>1
  <2>2. CASE t \notin W
    <3>1. t \in TaskID /\ want[t].event \in Event
      BY <1>3 DEF TaskID, EventTyped
    <3>2. k'.status[t] \cap Limbo = k.status[t] \cap Limbo /\ pc[t] = pc'[t]
      BY <1>2, <2>2, <3>1 DEF WokenUp, EventAt, PC
    <3>3. k.status[t] \cap {"PEND", "TIMEOUT"} = {} /\ t \notin stolen
      BY <1>5, <3>2 DEF Kept, Limbo, Waiting
    <3>4. Poll(event[want[t].event].bits, want[t].mask, want[t].mode) # {}
      BY <3>2, <3>3 DEF EventInv, EventLocal, WokenFindsEvent, EventAt
    <3> QED BY <1>6, <3>1, <3>4, PollGrows
  <2> QED BY <2>1, <2>2
<1> QED BY <1>2, <1>9, <1>11, <1>12, <1>13 DEF EventInv, EventLocal

-----------------------------------------------------------------------------
(* LOS_EventRead *)

\* A call that has yet to mask the interrupts.
LEMMA EntersInv ==
  ASSUME NEW P, HasEvent(P), EventInv(P), NEW op, Calls("task", op), NEW d \in EventIn,
         NEW e \in Event, NEW mask \in SUBSET Bit, NEW mode \in SUBSET {"OR", "AND", "CLR"},
         Enters(d, e, mask, mode)
  PROVE  /\ EventInv(P)' /\ k.run \in Task /\ pc'[k.run] = d /\ k.status[k.run] \cap Limbo = {}
         /\ want'[k.run] = [event |-> e, mask |-> mask, mode |-> mode]
         /\ \A u \in TaskID \ {k.run} : pc'[u] = pc[u]
         /\ \A u \in Task \ {k.run} : want'[u] = want[u]
<1>1. PICK t : t = k.run
  OBVIOUS
<1>2. /\ At("user") /\ t # Idle /\ Goto(d) /\ k' = k /\ event' = event /\ stolen' = stolen
      /\ want' = [want EXCEPT ![t] = [event |-> e, mask |-> mask, mode |-> mode]]
  BY <1>1 DEF Calls, Enters
<1>3. /\ Points(P) /\ IInv(P) /\ d \in P.all /\ d \notin P.window /\ d \notin EventAt
      /\ "user" \notin P.window /\ "user" \in PC /\ "user" \notin EventAt
  BY DEF HasEvent, EventInv, Points, PC, EventIn, EventAt
<1>4. t \in Task /\ k.status[t] \cap Limbo = {} /\ pc[t] = "user"
  BY <1>1, <1>2, <1>3, AtFacts DEF TaskID
<1>5. /\ IInv(P)' /\ pc'[t] = d
      /\ \A u \in TaskID \ {t} : pc'[u] = pc[u]
  BY <1>1, <1>2, <1>3, <1>4, Moves
<1>6. EventTyped /\ Task \subseteq TaskID /\ Idle \in TaskID
  BY DEF EventInv, EventLocal, TaskID
<1>7. /\ want'[t] = [event |-> e, mask |-> mask, mode |-> mode]
      /\ \A u \in Task \ {t} : want'[u] = want[u]
      /\ want' \in [Task -> [event : Event, mask : SUBSET Bit, mode : SUBSET {"OR", "AND", "CLR"}]]
  <2>1. want \in [Task -> [event : Event, mask : SUBSET Bit, mode : SUBSET {"OR", "AND", "CLR"}]]
    BY <1>6 DEF EventTyped
  <2> QED BY <1>2, <1>4, <2>1
<1>8. \A u \in Task : pc[u] \in EventAt \/ pc'[u] \in EventAt =>
        u \in Task \ {t} /\ pc'[u] = pc[u] /\ want'[u] = want[u]
  BY <1>3, <1>4, <1>5, <1>6, <1>7
<1>9. EventTyped'
  BY <1>2, <1>3, <1>4, <1>5, <1>6, <1>7, <1>8 DEF EventTyped
<1>10. ASSUME NEW x \in Event, NEW u \in ToSet(k.list[x])
       PROVE  /\ u \in Task /\ pc'[u] \in EventAt /\ "PEND" \in k.status[u]
              /\ event[x].init /\ want'[u].event = x
              /\ Poll(event[x].bits, want'[u].mask, want'[u].mode) = {}
  <2>1. /\ u \in Task /\ pc[u] \in EventAt /\ k.status[u] \cap Waiting = {"PEND"}
        /\ event[x].init /\ want[u].event = x
        /\ Poll(event[x].bits, want[u].mask, want[u].mode) = {}
    BY ReaderFacts
  <2>2. pc'[u] = pc[u] /\ want'[u] = want[u]
    BY <1>8, <2>1
  <2> QED BY <2>1, <2>2
<1>11. Readers' /\ NoMissedEvent'
  BY <1>2, <1>10 DEF Readers, NoMissedEvent
<1>12. WokenFindsEvent'
  BY <1>2, <1>8 DEF EventInv, EventLocal, WokenFindsEvent, EventAt
<1> QED BY <1>1, <1>4, <1>5, <1>7, <1>9, <1>11, <1>12 DEF EventInv, EventLocal

\* LOS_EventRead that has to wait.
LEMMA ReadWaitInv ==
  ASSUME NEW P, HasEvent(P), EventInv(P), Inside, NEW timeout \in ReadTimeouts,
         EventReadWait(timeout)
  PROVE  /\ EventInv(P)' /\ want' = want /\ event' = event
         /\ k.run \in Task /\ pc'[k.run] = "event_schedule"
         /\ \A u \in TaskID \ {k.run} : pc'[u] = pc[u] /\ k'.status[u] = k.status[u]
<1>1. PICK t : t = k.run
  OBVIOUS
<1>14. At("event_read") /\ t \in TaskID /\ pc[t] = "event_read"
  BY <1>1 DEF EventReadWait, At
<1>15. /\ t \in Task /\ k.status[t] \cap Limbo = {} /\ want[t].mask \in Masks /\ want[t].mode \in Modes
      /\ event[want[t].event].init /\ want[t].event \in Event
  BY <1>14 DEF Inside, EventIn, TaskID, EventInv, EventLocal, EventTyped
<1>16. PICK e \in Event : e = want[t].event
  BY <1>15
<1>2. /\ k.lock = 0 /\ k' = osTaskWait(k, e, "PEND", timeout)
      /\ event[e].init /\ Poll(event[e].bits, want[t].mask, want[t].mode) = {} /\ want' = want
      /\ stolen' = stolen \ {t} /\ event' = event /\ Goto("event_schedule")
  BY <1>1, <1>15, <1>16 DEF EventReadWait
<1>3. /\ e \in WaitList /\ "PEND" \in Waiting /\ timeout \in Nat
      /\ "event_schedule" \in P.all /\ "event_schedule" \in P.window /\ "event_schedule" \notin PC
      /\ "event_read" \notin P.window
  BY EventAssumption DEF Waiting, HasEvent, EventAt, EventIn, PC
<1>4. Repriced(k) /\ Points(P) /\ IInv(P)
  BY SameRepriced DEF EventInv, HasEvent
<1>5. /\ IInv(P)' /\ t \in Task /\ pc' = [pc EXCEPT ![t] = "event_schedule"]
      /\ \A w \in WaitList : k'.list[w] = IF w = e THEN Append(k.list[w], t) ELSE k.list[w]
      /\ \A u \in CB \ {t} : k'.status[u] = k.status[u]
      /\ "PEND" \in k'.status[t]
  BY <1>1, <1>14, <1>15, <1>2, <1>3, <1>4, BlocksAt
<1>6. /\ pc[t] = "event_read" /\ k \in Kernel /\ pc \in [TaskID -> P.all] /\ t \in TaskID
      /\ Task \subseteq TaskID /\ TaskID \subseteq CB /\ Idle \in TaskID /\ Idle \notin Task
  BY <1>14, <1>15, <1>4, TaskAssumption DEF IInv, Typed, TaskID, CB
<1>7. \A x \in Event : ToSet(k'.list[x]) = IF x = e THEN ToSet(k.list[x]) \cup {t} ELSE ToSet(k.list[x])
  <2>1. \A x \in Event : x \in WaitList /\ k.list[x] \in Seq(TaskID)
    BY <1>6, EventAssumption DEF Kernel, ListHead
  <2>2. ToSet(Append(k.list[e], t)) = ToSet(k.list[e]) \cup {t}
    BY <1>6, <2>1, AppendFacts
  <2> QED BY <1>5, <2>1, <2>2
<1>8. event \in [Event -> ECB] /\ EventTyped /\ pc[Idle] \notin EventAt
  BY DEF EventInv, EventLocal, EventTyped
<1>9. /\ \A u \in Task \ {t} : pc'[u] = pc[u]
      /\ pc'[t] = "event_schedule" /\ pc'[Idle] = pc[Idle]
  BY <1>5, <1>6
<1>10. EventTyped'
  <2>1. \A u \in Task : pc'[u] \in EventAt => want'[u].mask \in Masks /\ want'[u].mode \in Modes
    BY <1>15, <1>2, <1>8, <1>9 DEF EventTyped
  <2> QED BY <1>2, <1>8, <1>9, <2>1 DEF EventTyped
<1>11. ASSUME NEW x \in Event, NEW u \in ToSet(k'.list[x])
       PROVE  /\ u \in Task /\ pc'[u] \in EventAt /\ "PEND" \in k'.status[u]
              /\ event'[x].init /\ want'[u].event = x
              /\ Poll(event'[x].bits, want'[u].mask, want'[u].mode) = {}
  <2>1. CASE u = t
    <3>1. t \notin ToSet(k.list[x])
      BY <1>6, ReaderFacts DEF EventAt
    <3>2. x = e
      BY <1>7, <2>1, <3>1
    <3> QED BY <1>15, <1>16, <1>2, <1>5, <1>9, <2>1, <3>2 DEF EventAt
  <2>2. CASE u # t
    <3>1. u \in ToSet(k.list[x])
      BY <1>7, <2>2
    <3>2. /\ u \in Task /\ u \in CB /\ pc[u] \in EventAt /\ k.status[u] \cap Waiting = {"PEND"}
          /\ event[x].init /\ want[u].event = x
          /\ Poll(event[x].bits, want[u].mask, want[u].mode) = {}
      BY <3>1, ReaderFacts
    <3> QED BY <1>2, <1>5, <1>9, <2>2, <3>2
  <2> QED BY <2>1, <2>2
<1>12. Readers' /\ NoMissedEvent'
  BY <1>11 DEF Readers, NoMissedEvent
<1>13. WokenFindsEvent'
  <2> SUFFICES ASSUME NEW u \in Task, pc'[u] \in EventAt,
                      k'.status[u] \cap {"PEND", "TIMEOUT"} = {}, u \notin stolen'
               PROVE  Poll(event'[want'[u].event].bits, want'[u].mask, want'[u].mode) # {}
    BY DEF WokenFindsEvent, EventAt
  <2>1. u # t
    BY <1>5
  <2>2. k.status[u] = k'.status[u] /\ pc[u] = pc'[u] /\ want'[u] = want[u] /\ u \notin stolen
    BY <1>2, <1>5, <1>6, <1>9, <2>1
  <2>3. Poll(event[want[u].event].bits, want[u].mask, want[u].mode) # {}
    BY <2>2 DEF EventInv, EventLocal, WokenFindsEvent, EventAt
  <2> QED BY <1>2, <2>2, <2>3
<1> QED BY <1>1, <1>2, <1>5, <1>6, <1>9, <1>10, <1>12, <1>13 DEF EventInv, EventLocal, TaskID

\* The steps by which tasks leave the lists without being woken, or go on
\* inside their call: X are the tasks they are about.
LEMMA LeaveInv ==
  ASSUME NEW P, EventInv(P), IInv(P)', event' \in [Event -> ECB], want' = want, NEW X,
         \A x \in Event : event'[x].init = event[x].init /\ event'[x].bits \subseteq event[x].bits,
         Kept, Idle \notin X,
         \A x \in Event : ToSet(k'.list[x]) = ToSet(k.list[x]) \ X,
         \A u \in TaskID \ X : /\ k'.status[u] \cap Limbo = k.status[u] \cap Limbo
                               /\ pc'[u] = pc[u] \/ {pc[u], pc'[u]} \cap EventAt = {},
         \A t \in X : \/ pc'[t] \notin EventAt
                      \/ /\ pc[t] \in EventAt
                         /\ "TIMEOUT" \in k'.status[t] \/ k.status[t] \cap {"PEND", "TIMEOUT"} = {}
  PROVE  EventInv(P)'
<1>1. EventTyped /\ Idle \in TaskID /\ Task \subseteq TaskID
  BY DEF EventInv, EventLocal, TaskID
<1>2. EventTyped'
  BY <1>1 DEF EventTyped
<1>3. ASSUME NEW x \in Event, NEW t \in ToSet(k'.list[x])
      PROVE  /\ t \in Task /\ pc'[t] \in EventAt /\ "PEND" \in k'.status[t]
             /\ event'[x].init /\ want[t].event = x
             /\ Poll(event'[x].bits, want[t].mask, want[t].mode) = {}
  <2>1. t \in ToSet(k.list[x]) /\ t \notin X
    OBVIOUS
  <2>2. /\ t \in Task /\ t \in TaskID /\ pc[t] \in EventAt /\ k.status[t] \cap Waiting = {"PEND"}
        /\ event[x].init /\ want[t].event = x
        /\ Poll(event[x].bits, want[t].mask, want[t].mode) = {}
    BY <2>1, ReaderFacts
  <2>3. k'.status[t] \cap Limbo = k.status[t] \cap Limbo
    BY <2>1, <2>2
  <2>4. "PEND" \in k'.status[t]
    BY <2>2, <2>3 DEF Limbo, Waiting
  <2>5. pc'[t] \in EventAt
    BY <2>1, <2>2
  <2>6. event'[x].init /\ event'[x].bits \subseteq event[x].bits
    BY <2>2
  <2>7. PICK few, many : few = event'[x].bits /\ many = event[x].bits
    OBVIOUS
  <2>8. few \subseteq many /\ Poll(many, want[t].mask, want[t].mode) = {}
    BY <2>2, <2>6, <2>7
  <2>9. Poll(few, want[t].mask, want[t].mode) = {}
    BY ONLY <2>8, PollGrows
  <2> QED BY <2>2, <2>4, <2>5, <2>6, <2>7, <2>9
<1>4. Readers' /\ NoMissedEvent'
  BY <1>3 DEF Readers, NoMissedEvent
<1>5. WokenFindsEvent'
  <2> SUFFICES ASSUME NEW t \in Task, pc'[t] \in EventAt,
                      k'.status[t] \cap {"PEND", "TIMEOUT"} = {}, t \notin stolen'
               PROVE  Poll(event'[want[t].event].bits, want[t].mask, want[t].mode) # {}
    BY DEF WokenFindsEvent, EventAt
  <2>1. pc[t] \in EventAt /\ k.status[t] \cap {"PEND", "TIMEOUT"} = {}
    BY <1>1 DEF Limbo, Waiting
  <2>2. t \notin stolen /\ event[want[t].event].bits \subseteq event'[want[t].event].bits
    BY <2>1 DEF Kept
  <2>3. Poll(event[want[t].event].bits, want[t].mask, want[t].mode) # {}
    BY <2>1, <2>2 DEF EventInv, EventLocal, WokenFindsEvent, EventAt
  <2> QED BY <2>2, <2>3, PollGrows
<1> QED BY <1>2, <1>4, <1>5 DEF EventInv, EventLocal

\* LOS_EventRead that returns at once.
LEMMA ReadNowInv ==
  ASSUME NEW P, HasEvent(P), EventInv(P), Inside, EventReadNow
  PROVE  /\ EventInv(P)' /\ k' = k /\ want' = want /\ k.run \in Task /\ pc'[k.run] = "user"
         /\ \A u \in TaskID \ {k.run} : pc'[u] = pc[u]
         /\ \A x \in Event : event'[x].init = event[x].init
<1>1. PICK t : t = k.run
  OBVIOUS
<1>2. PICK e, left : /\ e = want[t].event /\ left = Left(event[e].bits, want[t].mask, want[t].mode)
  OBVIOUS
<1>3. At("event_read") /\ Goto("user") /\ SetBits(e, left) /\ k' = k /\ want' = want
  BY <1>1, <1>2 DEF EventReadNow
<1>4. t \in TaskID /\ pc[t] = "event_read" /\ t # Idle
  BY <1>1, <1>3 DEF At, Inside, EventIn
<1>5. t \in Task /\ k.status[t] \cap Limbo = {} /\ e \in Event /\ EventTyped
  BY <1>2, <1>4 DEF Inside, EventIn, TaskID, EventInv, EventLocal, EventTyped
<1>6. /\ Points(P) /\ IInv(P) /\ "event_read" \notin P.window
      /\ "user" \in P.all /\ "user" \notin P.window
  BY DEF HasEvent, EventInv, Points, PC, EventIn
<1>7. IInv(P)' /\ pc'[t] = "user" /\ \A u \in TaskID \ {t} : pc'[u] = pc[u]
  BY <1>1, <1>3, <1>5, <1>6, Moves
<1>8. left \subseteq event[e].bits /\ left \in SUBSET Bit
  <2>1. left \subseteq event[e].bits
    BY <1>2, LeftFacts
  <2>2. event[e].bits \in SUBSET Bit
    BY <1>5 DEF EventTyped, ECB
  <2> QED BY <2>1, <2>2
<1>9. /\ event' \in [Event -> ECB] /\ Kept
      /\ \A x \in Event : event'[x].init = event[x].init /\ event'[x].bits \subseteq event[x].bits
  <2>1. /\ event' \in [Event -> ECB] /\ event'[e].bits = left
        /\ \A x \in Event : event'[x].init = event[x].init
        /\ \A x \in Event \ {e} : event'[x] = event[x]
        /\ Kept
    BY <1>3, <1>5, <1>8, SetBitsFacts
  <2> QED BY <1>8, <2>1
<1>10. \A u \in TaskID \ {} :
          /\ k'.status[u] \cap Limbo = k.status[u] \cap Limbo
          /\ pc'[u] = pc[u] \/ {pc[u], pc'[u]} \cap EventAt = {}
  BY <1>3, <1>4, <1>7 DEF EventAt
<1>11. \A x \in Event : ToSet(k'.list[x]) = ToSet(k.list[x]) \ {}
  BY <1>3
<1>12. EventInv(P)'
  BY <1>3, <1>7, <1>9, <1>10, <1>11, LeaveInv
<1> QED BY <1>1, <1>3, <1>5, <1>7, <1>9, <1>12

\* LOS_EventRead goes on to LOS_Schedule.
LEMMA ReadScheduleInv ==
  ASSUME NEW P, HasEvent(P), EventInv(P), EventReadSchedule
  PROVE  EventInv(P)'
<1>1. PICK t : t = k.run
  OBVIOUS
<1>2. /\ At("event_schedule") /\ k' = LOS_Schedule(k) /\ Goto("event_return")
      /\ event' = event /\ want' = want /\ stolen' = stolen
  BY DEF EventReadSchedule
<1>3. /\ Points(P) /\ IInv(P) /\ "event_return" \in P.all /\ "event_return" \notin PC
      /\ pc \in [TaskID -> P.all]
  BY DEF EventInv, HasEvent, EventAt, PC, IInv, Typed
<1>4. /\ IInv(P)' /\ pc' = [pc EXCEPT ![t] = "event_return"] /\ t \in TaskID
      /\ pc[t] = "event_schedule" /\ k'.list = k.list /\ k'.status = k.status
  BY <1>1, <1>2, <1>3, Goes
<1>5. EventTyped /\ Idle \in TaskID /\ t # Idle
  BY <1>4 DEF EventInv, EventLocal, EventTyped, EventAt, TaskID
<1>6. \A u \in TaskID : /\ pc'[u] \in EventAt <=> pc[u] \in EventAt
                        /\ u # t => pc'[u] = pc[u]
  BY <1>3, <1>4 DEF EventAt
<1>7. Task \subseteq TaskID
  BY DEF TaskID
<1>8. EventTyped'
  BY <1>2, <1>5, <1>6, <1>7 DEF EventTyped
<1>9. Readers' /\ NoMissedEvent'
  BY <1>2, <1>4, <1>6, <1>7 DEF EventInv, EventLocal, Readers, NoMissedEvent
<1>10. WokenFindsEvent'
  BY <1>2, <1>4, <1>6, <1>7 DEF EventInv, EventLocal, WokenFindsEvent, EventAt
<1> QED BY <1>4, <1>8, <1>9, <1>10 DEF EventInv, EventLocal

\* What a blocked LOS_EventRead takes when it returns.
LEMMA ReadReturnEffect ==
  ASSUME NEW P, HasEvent(P), EventInv(P), EventReadReturn, NEW t, t = k.run
  PROVE  /\ t \in Task /\ pc[t] = "event_return" /\ pc' = [pc EXCEPT ![t] = "user"]
         /\ IInv(P)' /\ k'.list = k.list /\ want' = want
         /\ \A u \in TaskID \ {t} : k'.status[u] = k.status[u]
         /\ k.status[t] \cap Waiting = {} /\ want[t].event \in Event
         /\ \/ event' = event /\ stolen' = stolen \ {t}
            \/ \E left : /\ left = Left(event[want[t].event].bits, want[t].mask, want[t].mode)
                         /\ event' = [event EXCEPT ![want[t].event].bits = left]
                         /\ stolen' = Stolen(want[t].event, left) \ {t}
<1>1. At("event_return") /\ Goto("user") /\ want' = want
  BY DEF EventReadReturn
<1>2. Points(P) /\ IInv(P) /\ "event_return" \notin P.window
  BY DEF EventInv, HasEvent
<1>3. t \in TaskID /\ pc[t] = "event_return"
  BY <1>1 DEF At
<1>4. t \in Task /\ want[t].event \in Event
  BY <1>3 DEF EventInv, EventLocal, EventTyped, EventAt, TaskID
<1>5. CASE "TIMEOUT" \in k.status[t]
  <2>1. k' = ClearFlags(k, t, {"TIMEOUT"}) /\ event' = event /\ stolen' = stolen \ {t}
    BY <1>5 DEF EventReadReturn
  <2>2. /\ IInv(P)' /\ pc' = [pc EXCEPT ![t] = "user"] /\ k'.list = k.list
        /\ \A u \in CB \ {t} : k'.status[u] = k.status[u]
        /\ k.status[t] \cap Waiting = {}
    BY SMTT(60), <1>1, <1>2, <2>1, Returns
  <2> QED BY <1>1, <1>3, <1>4, <2>1, <2>2 DEF CB
<1>6. CASE "TIMEOUT" \notin k.status[t]
  <2>1. k' = k /\ \E left : /\ left = Left(event[want[t].event].bits, want[t].mask, want[t].mode)
                            /\ event' = [event EXCEPT ![want[t].event].bits = left]
                            /\ stolen' = Stolen(want[t].event, left) \ {t}
    BY <1>6 DEF EventReadReturn
  <2>2. IInv(P)' /\ pc' = [pc EXCEPT ![t] = "user"] /\ k.status[t] \cap Waiting = {}
    BY <1>1, <1>2, <1>6, <2>1, ReturnsQuietly
  <2> QED BY ZenonT(60), <1>1, <1>3, <1>4, <2>1, <2>2
<1> QED BY <1>5, <1>6

\* LOS_EventRead returns.
LEMMA ReadReturnInv ==
  ASSUME NEW P, HasEvent(P), EventInv(P), EventReadReturn
  PROVE  EventInv(P)'
<1>1. PICK t : t = k.run
  OBVIOUS
<1>2. /\ t \in Task /\ pc[t] = "event_return" /\ pc' = [pc EXCEPT ![t] = "user"]
      /\ IInv(P)' /\ k'.list = k.list /\ want' = want
      /\ \A u \in TaskID \ {t} : k'.status[u] = k.status[u]
      /\ k.status[t] \cap Waiting = {} /\ want[t].event \in Event
      /\ \/ event' = event /\ stolen' = stolen \ {t}
         \/ \E left : /\ left = Left(event[want[t].event].bits, want[t].mask, want[t].mode)
                      /\ event' = [event EXCEPT ![want[t].event].bits = left]
                      /\ stolen' = Stolen(want[t].event, left) \ {t}
  BY <1>1, ReadReturnEffect
<1>3. /\ EventTyped /\ event \in [Event -> ECB] /\ pc \in [TaskID -> P.all]
      /\ Idle \notin {t} /\ t \in TaskID /\ Task \subseteq TaskID
  BY <1>2, TaskAssumption DEF EventInv, EventLocal, EventTyped, IInv, Typed, TaskID
<1>4. pc'[t] = "user" /\ \A u \in TaskID \ {t} : pc'[u] = pc[u]
  BY <1>2, <1>3
<1>5. /\ event' \in [Event -> ECB] /\ Kept
      /\ \A x \in Event : event'[x].init = event[x].init /\ event'[x].bits \subseteq event[x].bits
  <2>1. CASE event' = event /\ stolen' = stolen \ {t}
    BY <1>3, <1>4, <2>1 DEF Kept, EventAt
  <2>2. ASSUME NEW e, e = want[t].event, NEW left,
               left = Left(event[e].bits, want[t].mask, want[t].mode),
               event' = [event EXCEPT ![e].bits = left], stolen' = Stolen(e, left) \ {t}
        PROVE  /\ event' \in [Event -> ECB] /\ Kept
               /\ \A x \in Event : event'[x].init = event[x].init /\ event'[x].bits \subseteq event[x].bits
    <3>1. e \in Event /\ left \subseteq event[e].bits
      BY <1>2, <2>2, LeftFacts
    <3>2. left \in SUBSET Bit
      BY <1>3, <3>1 DEF ECB
    <3>3. \A u \in Stolen(e, left) : u \in stolen' \/ pc'[u] \notin EventAt
      BY <1>4, <2>2 DEF EventAt
    <3>4. event' = [event EXCEPT ![e].bits = left]
      BY <2>2
    <3>5. EventTyped /\ e \in Event
      BY <1>3, <3>1
    <3>6. /\ event' \in [Event -> ECB] /\ event'[e].bits = left
          /\ \A x \in Event : event'[x].init = event[x].init
          /\ \A x \in Event \ {e} : event'[x] = event[x]
          /\ Kept
      BY ONLY <3>2, <3>3, <3>4, <3>5, BitsFacts
    <3> QED BY <3>1, <3>6
  <2> QED BY <1>2, <2>1, <2>2
<1>6. \A x \in Event : ToSet(k'.list[x]) = ToSet(k.list[x]) \ {t}
  <2> TAKE x \in Event
  <2>1. t \notin ToSet(k.list[x])
    BY <1>2, ReaderFacts
  <2> QED BY <1>2, <2>1
<1>7. \A u \in TaskID \ {t} : /\ k'.status[u] \cap Limbo = k.status[u] \cap Limbo
                              /\ pc'[u] = pc[u] \/ {pc[u], pc'[u]} \cap EventAt = {}
  BY <1>2, <1>4
<1>8. \A u \in {t} : pc'[u] \notin EventAt
  BY <1>4 DEF EventAt
<1> QED BY <1>2, <1>3, <1>5, <1>6, <1>7, <1>8, LeaveInv

-----------------------------------------------------------------------------
(* Every step keeps the invariant *)

\* A step of the task manager.
LEMMA TaskStepEvent ==
  ASSUME NEW P, HasEvent(P), EventInv(P), ~IsrRaces, [Next]_vars,
         UNCHANGED <<event, want, stolen>>
  PROVE  EventInv(P)'
<1>1. Points(P) /\ IInv(P) /\ EventTyped /\ k \in Kernel /\ ListsOK(k) /\ Event \in SUBSET WaitList
  BY EventAssumption DEF EventInv, EventLocal, HasEvent, IInv, Typed, Sound
<1>2. IInv(P)'
  BY <1>1, StepInv
<1>3. /\ event' \in [Event -> ECB] /\ Kept
      /\ \A x \in Event : event'[x].init = event[x].init /\ event'[x].bits \subseteq event[x].bits
  BY <1>1 DEF EventTyped, Kept
<1>4. ASSUME NEW x, NEW y, x = y \/ {x, y} \subseteq PC
      PROVE  x = y \/ {y, x} \cap EventAt = {}
  BY <1>4 DEF PC, EventAt
<1>5. CASE Quiet
  <2>1. \A x \in Event : ToSet(k'.list[x]) = ToSet(k.list[x]) \ {}
    BY <1>1, <1>5 DEF Quiet, SameWaits
  <2>2. \A u \in TaskID \ {} : /\ k'.status[u] \cap Limbo = k.status[u] \cap Limbo
                               /\ pc'[u] = pc[u] \/ {pc[u], pc'[u]} \cap EventAt = {}
    BY <1>5 DEF Quiet, SameWaits, PC, EventAt
  <2> QED BY <1>2, <1>3, <2>1, <2>2, LeaveInv
<1>6. ASSUME NEW t \in Task, Expires(t) \/ Vanishes(t) PROVE EventInv(P)'
  <2>1. Leaves(t) /\ t \in TaskID /\ Idle \notin {t}
    BY <1>6, TaskAssumption DEF Expires, Vanishes, TaskID
  <2>2. \A x \in Event : ToSet(k'.list[x]) = ToSet(k.list[x]) \ {t}
    BY <1>1, <2>1, LeavesLists
  <2>3. \A u \in TaskID \ {t} : /\ k'.status[u] \cap Limbo = k.status[u] \cap Limbo
                                /\ pc'[u] = pc[u] \/ {pc[u], pc'[u]} \cap EventAt = {}
    BY <2>1 DEF Leaves, PC, EventAt
  <2>4. \/ pc'[t] \notin EventAt
        \/ /\ pc[t] \in EventAt
           /\ "TIMEOUT" \in k'.status[t] \/ k.status[t] \cap {"PEND", "TIMEOUT"} = {}
    BY <1>6 DEF Expires, Vanishes, Waiting, EventAt
  <2> QED BY <1>2, <1>3, <2>1, <2>2, <2>3, <2>4, LeaveInv
<1> QED BY <1>1, <1>5, <1>6, StepWaits

\* A task that has yet to mask the interrupts stays where it is, and its event
\* stays initialised.
LEMMA StillInside ==
  ASSUME Inside, want' = want,
         \A t \in Task : pc[t] \in EventIn => event'[want[t].event].init,
         \A u \in TaskID : pc'[u] \in EventIn =>
           pc'[u] = pc[u] /\ k'.status[u] \cap Limbo \subseteq k.status[u] \cap Limbo
  PROVE  Inside'
<1>1. Idle \in TaskID /\ Task \subseteq TaskID
  BY DEF TaskID
<1> QED BY <1>1 DEF Inside

\* The events of these tasks are events.
LEMMA InsideInit ==
  ASSUME EventTyped, Inside, \A x \in Event : event'[x].init = event[x].init
  PROVE  \A t \in Task : pc[t] \in EventIn => event'[want[t].event].init
BY DEF EventTyped, Inside

\* LOS_EventWrite, of a handler or of a task that has masked the interrupts.
LEMMA WriteInside ==
  ASSUME NEW P, HasEvent(P), EventInv(P), Inside, NEW ctx \in {"task", "isr"}, NEW e \in Event,
         event[e].init, NEW new \in Masks, Write(ctx, e, new),
         ctx = "task" => At("event_write") /\ k.status[k.run] \cap Limbo = {}
  PROVE  EventInv(P)' /\ Inside'
<1>1. EventInv(P)'
  BY WriteInv
<1>2. PICK W : W = Satisfies(e, new)
  OBVIOUS
<1>3. WokenUp(W) /\ want' = want /\ SetBits(e, event[e].bits \cup new)
  BY <1>2, WriteEffect
<1>4. EventTyped /\ event \in [Event -> ECB]
  BY DEF EventInv, EventLocal, EventTyped
<1>5. \A x \in Event : event'[x].init = event[x].init
  BY <1>3, <1>4 DEF SetBits, ECB
<1>6. \A t \in Task : pc[t] \in EventIn => event'[want[t].event].init
  BY <1>4, <1>5, InsideInit
<1>7. \A u \in TaskID : pc'[u] \in EventIn =>
        pc'[u] = pc[u] /\ k'.status[u] \cap Limbo \subseteq k.status[u] \cap Limbo
  <2> TAKE u \in TaskID
  <2>1. CASE u \in W
    BY <1>3, <2>1 DEF WokenUp
  <2>2. CASE u \notin W
    BY <1>3, <2>2 DEF WokenUp, EventIn, PC
  <2> QED BY <2>1, <2>2
<1> QED BY <1>1, <1>3, <1>6, <1>7, StillInside

\* The steps of the calls.
LEMMA EventCallStep ==
  ASSUME NEW P, HasEvent(P), EventInv(P), Inside, ~DestroyRaces, EventCallNext
  PROVE  EventInv(P)' /\ Inside'
<1>1. EventTyped /\ event \in [Event -> ECB] /\ Task \subseteq TaskID /\ pc \in [TaskID -> P.all]
  BY DEF EventInv, EventLocal, EventTyped, TaskID, IInv, Typed
<1>2. ASSUME NEW ctx \in {"task", "isr"}, NEW e \in Event,
             \/ LOS_EventInit(ctx, e) \/ LOS_EventDestory(ctx, e)
             \/ \E mask \in Masks : \/ LOS_EventClear(ctx, e, Bit \ mask)
                                    \/ \E mode \in Modes : LOS_EventPoll(ctx, e, mask, mode)
      PROVE  EventInv(P)' /\ Inside'
  <2>1. EventInv(P)' /\ UNCHANGED <<k, pc, want>>
    BY <1>2, EventCallInv
  <2>2. \A t \in Task : pc[t] \in EventIn => event'[want[t].event].init
    <3> SUFFICES ASSUME NEW t \in Task, pc[t] \in EventIn, NEW x, x = want[t].event
                 PROVE  event'[x].init
      OBVIOUS
    <3>1. x \in Event /\ event[x].init
      BY <1>1 DEF Inside, EventTyped
    <3>2. CASE LOS_EventInit(ctx, e)
      BY <1>1, <3>1, <3>2 DEF LOS_EventInit
    <3>3. CASE LOS_EventDestory(ctx, e)
      <4>1. t \notin Entering(e)
        BY <3>3 DEF LOS_EventDestory
      <4>2. x # e
        BY <4>1 DEF Entering, EventIn
      <4> QED BY <1>1, <3>1, <3>3, <4>2 DEF LOS_EventDestory
    <3>4. ASSUME NEW b, SetBits(e, b)
          PROVE  event'[x].init
      BY <1>1, <3>1, <3>4 DEF SetBits, ECB
    <3> QED BY <1>2, <3>2, <3>3, <3>4 DEF LOS_EventClear, LOS_EventPoll
  <2> QED BY <2>1, <2>2, StillInside
<1>3. ASSUME NEW op, Calls("task", op), NEW d \in EventIn, NEW e \in Event, NEW mask \in Masks,
             NEW mode \in Modes \cup {{}}, d = "event_read" => mode \in Modes,
             Enters(d, e, mask, mode)
      PROVE  EventInv(P)' /\ Inside'
  <2>1. mask \in SUBSET Bit /\ mode \in SUBSET {"OR", "AND", "CLR"}
    BY EventAssumption
  <2>2. PICK t : t = k.run
    OBVIOUS
  <2>3. /\ EventInv(P)' /\ t \in Task /\ pc'[t] = d /\ k.status[t] \cap Limbo = {}
        /\ want'[t] = [event |-> e, mask |-> mask, mode |-> mode]
        /\ \A u \in TaskID \ {t} : pc'[u] = pc[u]
        /\ \A u \in Task \ {t} : want'[u] = want[u]
    BY <1>3, <2>1, <2>2, EntersInv
  <2>4. event[e].init /\ event' = event /\ k' = k
    BY <1>3 DEF Enters
  <2>5. Idle \in TaskID \ {t} /\ pc'[Idle] \notin EventIn
    BY <2>3, TaskAssumption DEF Inside, TaskID
  <2>6. ASSUME NEW u \in Task, pc'[u] \in EventIn
        PROVE  /\ k'.status[u] \cap Limbo = {} /\ event'[want'[u].event].init
               /\ want'[u].mask \in Masks
               /\ pc'[u] = "event_read" => want'[u].mode \in Modes
    <3>1. CASE u = t
      BY <1>3, <2>3, <2>4, <3>1
    <3>2. CASE u # t
      <4>1. pc'[u] = pc[u] /\ want'[u] = want[u]
        BY <1>1, <2>3, <3>2
      <4> QED BY <2>4, <2>6, <4>1 DEF Inside
    <3> QED BY <3>1, <3>2
  <2> QED BY <2>3, <2>5, <2>6 DEF Inside
<1>4. ASSUME NEW e \in Event, NEW mask \in Masks, NEW mode \in Modes, LOS_EventRead(e, mask, mode)
      PROVE  EventInv(P)' /\ Inside'
  <2>1. "event_read" \in EventIn
    BY DEF EventIn
  <2> QED BY <1>3, <1>4, <2>1 DEF LOS_EventRead
<1>5. ASSUME NEW ctx \in {"task", "isr"}, NEW e \in Event, NEW new \in Masks,
             LOS_EventWrite(ctx, e, new)
      PROVE  EventInv(P)' /\ Inside'
  <2>1. CASE ctx = "task"
    <3>1. "event_write" \in EventIn /\ {} \in Modes \cup {{}}
      BY DEF EventIn
    <3> QED BY <1>3, <1>5, <2>1, <3>1 DEF LOS_EventWrite
  <2>2. CASE ctx = "isr"
    <3>1. event[e].init /\ Write(ctx, e, new)
      BY <1>5, <2>2 DEF LOS_EventWrite
    <3> QED BY <2>2, <3>1, WriteInside
  <2> QED BY <2>1, <2>2
<1>6. CASE EventWriteLocked
  <2>1. PICK t, w : t = k.run /\ w = want[t]
    OBVIOUS
  <2>2. At("event_write") /\ Write("task", w.event, w.mask)
    BY <1>6, <2>1 DEF EventWriteLocked
  <2>3. t \in TaskID /\ pc[t] = "event_write"
    BY <2>1, <2>2 DEF At
  <2>4. t \in Task /\ t \in TaskID /\ pc[t] \in EventIn
    BY <2>3 DEF Inside, EventIn, TaskID
  <2>5. k.status[t] \cap Limbo = {} /\ event[w.event].init /\ w.mask \in Masks /\ w.event \in Event
    BY <1>1, <2>1, <2>4 DEF Inside, EventTyped
  <2> QED BY <2>1, <2>2, <2>5, WriteInside
<1>7. ASSUME NEW t, t = k.run, t \in TaskID, pc'[t] \notin EventIn, want' = want, EventInv(P)',
             \A u \in TaskID \ {t} : pc'[u] = pc[u] /\ k'.status[u] = k.status[u],
             \A x \in Event : event'[x].init = event[x].init
      PROVE  EventInv(P)' /\ Inside'
  <2>1. \A u \in Task : pc[u] \in EventIn => event'[want[u].event].init
    BY <1>1, <1>7, InsideInit
  <2>2. \A u \in TaskID : pc'[u] \in EventIn =>
          pc'[u] = pc[u] /\ k'.status[u] \cap Limbo \subseteq k.status[u] \cap Limbo
    BY <1>7
  <2> QED BY <1>7, <2>1, <2>2, StillInside
<1>8. CASE EventReadNow
  <2>1. PICK t : t = k.run
    OBVIOUS
  <2>2. /\ EventInv(P)' /\ k' = k /\ want' = want /\ t \in Task /\ pc'[t] = "user"
        /\ \A u \in TaskID \ {t} : pc'[u] = pc[u]
        /\ \A x \in Event : event'[x].init = event[x].init
    BY <1>8, <2>1, ReadNowInv
  <2>3. t \in TaskID /\ pc'[t] \notin EventIn
    BY <1>1, <2>2 DEF EventIn
  <2> QED BY <1>7, <2>1, <2>2, <2>3
<1>9. ASSUME NEW timeout \in ReadTimeouts, EventReadWait(timeout)
      PROVE  EventInv(P)' /\ Inside'
  <2>1. PICK t : t = k.run
    OBVIOUS
  <2>2. /\ EventInv(P)' /\ want' = want /\ event' = event /\ t \in Task /\ pc'[t] = "event_schedule"
        /\ \A u \in TaskID \ {t} : pc'[u] = pc[u] /\ k'.status[u] = k.status[u]
    BY <1>9, <2>1, ReadWaitInv
  <2>3. t \in TaskID /\ pc'[t] \notin EventIn
    BY <1>1, <2>2 DEF EventIn
  <2> QED BY <1>7, <2>1, <2>2, <2>3
<1>10. CASE EventReadSchedule
  <2>1. PICK t : t = k.run
    OBVIOUS
  <2>2. /\ At("event_schedule") /\ k' = LOS_Schedule(k) /\ Goto("event_return")
        /\ event' = event /\ want' = want
    BY <1>10 DEF EventReadSchedule
  <2>3. t \in TaskID /\ pc' = [pc EXCEPT ![t] = "event_return"] /\ k \in Kernel
    BY <2>1, <2>2 DEF At, Goto, EventInv, IInv, Typed
  <2>4. k'.status = k.status
    BY <2>2, <2>3, ScheduleFrame DEF SameTasks
  <2>5. pc'[t] \notin EventIn /\ \A u \in TaskID \ {t} : pc'[u] = pc[u]
    BY <1>1, <2>3 DEF EventIn
  <2>6. EventInv(P)'
    BY <1>10, ReadScheduleInv
  <2> QED BY <1>7, <2>1, <2>2, <2>3, <2>4, <2>5, <2>6
<1>11. CASE EventReadReturn
  <2>1. PICK t : t = k.run
    OBVIOUS
  <2>2. /\ t \in Task /\ pc' = [pc EXCEPT ![t] = "user"] /\ want' = want
        /\ \A u \in TaskID \ {t} : k'.status[u] = k.status[u]
        /\ want[t].event \in Event
        /\ \/ event' = event
           \/ \E left : event' = [event EXCEPT ![want[t].event].bits = left]
    BY <1>11, <2>1, ReadReturnEffect
  <2>3. /\ t \in TaskID /\ pc'[t] \notin EventIn
        /\ \A u \in TaskID \ {t} : pc'[u] = pc[u]
    BY <1>1, <2>2 DEF EventIn
  <2>4. \A x \in Event : event'[x].init = event[x].init
    <3>1. ASSUME NEW left, NEW e, e = want[t].event, event' = [event EXCEPT ![e].bits = left]
          PROVE  \A x \in Event : event'[x].init = event[x].init
      BY <1>1, <3>1 DEF ECB
    <3> QED BY <2>2, <3>1
  <2>5. EventInv(P)'
    BY <1>11, ReadReturnInv
  <2> QED BY <1>7, <2>1, <2>2, <2>3, <2>4, <2>5
<1> QED BY <1>2, <1>4, <1>5, <1>6, <1>8, <1>9, <1>10, <1>11 DEF EventCallNext

\* Every step: a call on an event, or a step of the task manager.
LEMMA EventStepInv ==
  ASSUME NEW P, HasEvent(P), EventInv(P), Inside, ~IsrRaces, ~DestroyRaces, [EventNext]_eventVars
  PROVE  EventInv(P)' /\ Inside'
<1>1. CASE EventCallNext
  BY <1>1, EventCallStep
<1>2. CASE [Next]_vars /\ UNCHANGED <<event, want, stolen>>
  <2>1. EventInv(P)'
    BY <1>2, TaskStepEvent
  <2>2. \A t \in Task : pc[t] \in EventIn => event'[want[t].event].init
    BY <1>2 DEF Inside
  <2>3. ASSUME NEW u \in TaskID, pc'[u] \in EventIn
        PROVE  pc'[u] = pc[u] /\ k'.status[u] \cap Limbo \subseteq k.status[u] \cap Limbo
    <3>1. PC \cap EventIn = {} /\ Points(P) /\ IInv(P)
      BY DEF PC, EventIn, HasEvent, EventInv
    <3>2. CASE Quiet
      BY <2>3, <3>1, <3>2 DEF Quiet, SameWaits
    <3>3. ASSUME NEW t \in Task, Expires(t) \/ Vanishes(t)
          PROVE  pc'[u] = pc[u] /\ k'.status[u] \cap Limbo \subseteq k.status[u] \cap Limbo
      <4>1. CASE u # t
        BY <2>3, <3>1, <3>3, <4>1 DEF Expires, Vanishes, Leaves
      <4>2. CASE u = t
        <5>1. pc'[t] # "user"
          BY <2>3, <4>2 DEF EventIn
        <5>2. Expires(t)
          BY <3>3, <5>1 DEF Vanishes
        <5> QED BY <4>2, <5>2 DEF Expires, Leaves, Limbo
      <4> QED BY <4>1, <4>2
    <3> QED BY <1>2, <3>1, <3>2, <3>3, StepWaits
  <2> QED BY <1>2, <2>1, <2>2, <2>3, StillInside
<1> QED BY <1>1, <1>2 DEF EventNext, eventVars, vars

\* The invariant holds initially.
LEMMA EventInitInv ==
  ASSUME NEW P, HasEvent(P), EventInit
  PROVE  EventInv(P) /\ Inside
<1>1. IInv(P)
  BY InitInv DEF EventInit, HasEvent
<1>2. /\ pc = [t \in TaskID |-> "user"]
      /\ \A e \in Event : k.list[e] = <<>>
  BY EventAssumption, WaitListAssumption DEF EventInit, Init, KernelInit, ListHead
<1>3. \A e \in Event : ToSet(k.list[e]) = {}
  BY <1>2, NoReader
<1>4. \A t \in Task : pc[t] \notin EventAt
  BY <1>2 DEF EventAt, TaskID
<1>5. EventTyped
  <2>1. (CHOOSE e \in Event : TRUE) \in Event
    BY EventAssumption
  <2>2. event \in [Event -> ECB]
    BY DEF EventInit, ECB
  <2>3. want \in [Task -> [event : Event, mask : SUBSET Bit, mode : SUBSET {"OR", "AND", "CLR"}]]
    BY <2>1 DEF EventInit
  <2> QED BY <1>2, <1>4, <2>2, <2>3 DEF EventTyped, EventAt, TaskID
<1>6. Readers /\ NoMissedEvent
  BY <1>3 DEF Readers, NoMissedEvent
<1>7. WokenFindsEvent
  BY <1>4 DEF WokenFindsEvent, EventAt
<1>8. Inside
  BY <1>2 DEF Inside, EventIn, TaskID
<1> QED BY <1>1, <1>5, <1>6, <1>7, <1>8 DEF EventInv, EventLocal

\* It holds in every state, while handlers keep to their rules and no event is
\* destroyed while a call is about to use it.
LEMMA EventInvariance ==
  ASSUME ~IsrRaces, ~DestroyRaces
  PROVE  EventSpec => []EventInv(EventPoints)
<1>0. HasEvent(EventPoints)
  BY DEF HasEvent, Points, EventPoints, EventAt, EventIn, PC
<1>1. EventInit => EventInv(EventPoints) /\ Inside
  BY <1>0, EventInitInv
<1>2. EventInv(EventPoints) /\ Inside /\ [EventNext]_eventVars => EventInv(EventPoints)' /\ Inside'
  BY <1>0, EventStepInv
<1> QED BY <1>1, <1>2, PTL DEF EventSpec

-----------------------------------------------------------------------------
(* The guarantees *)

\* No lost wakeup: whatever writes, reads, clears and timeouts come in between,
\* also while a read has yet to mask the interrupts, a task that is still on the
\* list of an event waits for bits that the event does not have, and the event
\* exists if nobody destroys one that a call is about to use (LOS_EventRead,
\* LOS_EventWrite).
THEOREM NobodyMissesEvent ==
  ASSUME ~IsrRaces, ~DestroyRaces
  PROVE  EventSpec => []NoMissedEvent
<1>1. EventInv(EventPoints) => NoMissedEvent
  BY DEF EventInv, EventLocal
<1> QED BY <1>1, EventInvariance, PTL

\* A read that a write has woken finds what it waited for, unless another call
\* took or cleared bits before it ran.
THEOREM WokenReadersFindEvent ==
  ASSUME ~IsrRaces, ~DestroyRaces
  PROVE  EventSpec => []WokenFindsEvent
<1>1. EventInv(EventPoints) => WokenFindsEvent
  BY DEF EventInv, EventLocal
<1> QED BY <1>1, EventInvariance, PTL
=============================================================================
