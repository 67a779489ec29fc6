-------------------------- MODULE LosMuxQueueProofs --------------------------
(***************************************************************************)
(* What mutexes and message queues guarantee: mutexes for every number of  *)
(* tasks and mutexes and every nesting of them, queues for every number of *)
(* tasks and queues, every length and every choice of messages.  In both   *)
(* systems no task is deleted.                                             *)
(***************************************************************************)
EXTENDS LosMux, LosQueue, LosTaskProofs, FiniteSetTheorems

-----------------------------------------------------------------------------
(***************************************************************************)
(* Mutexes.  The last unlock lowers the priority of a task and calls no    *)
(* scheduler, so the running task need not be the most urgent: the points  *)
(* of LosMux are not strict.                                               *)
(***************************************************************************)

MuxAt == {"mux_schedule", "mux_return"}

HasMux(P) ==
  /\ Points(P) /\ ~P.strict /\ MuxAt \subseteq P.all
  /\ "mux_schedule" \in P.window /\ "mux_return" \notin P.window

MuxPoints == [all |-> PC \cup MuxAt, window |-> {"schedule", "exit", "mux_schedule"}, strict |-> FALSE]

-----------------------------------------------------------------------------
(* The invariant *)

MuxCB == [used : BOOLEAN, count : Nat, owner : Task \cup {NoTask}, prio : Pri]

\* (The idle task locks no mutex.)
MuxTyped ==
  /\ mux \in [Mux -> MuxCB] /\ on \in [Task -> Mux] /\ holds \in [Task -> [Mux -> Nat]]
  /\ pc[Idle] \notin MuxAt

\* The tasks on the list of a mutex are blocked in LOS_MuxPend for it.
MuxWaiters ==
  \A m \in Mux : \A t \in ToSet(k.list[m]) :
    t \in Task /\ on[t] = m /\ pc[t] \in MuxAt /\ "PEND" \in k.status[t]

\* LOS_MuxPend of task t will return LOS_OK: LOS_MuxPost has handed it m.
Granted(t, m) ==
  /\ on[t] = m /\ pc[t] \in MuxAt
  /\ t \notin ToSet(k.list[m]) /\ "TIMEOUT" \notin k.status[t]

\* Who owns m, by the control block and by what the tasks were told.
Owners(m) ==
  /\ mux[m].count > 0 =>
       /\ mux[m].used /\ mux[m].owner \in Task
       /\ holds[mux[m].owner][m] > 0 \/ Granted(mux[m].owner, m)
  /\ \A t \in Task :
       /\ holds[t][m] > 0 => mux[m].owner = t /\ mux[m].count = holds[t][m]
       /\ Granted(t, m) => mux[m].owner = t /\ mux[m].count = 1
       /\ pc[t] \in MuxAt /\ on[t] = m => holds[t][m] = 0
  /\ k.list[m] # <<>> => mux[m].count > 0

MuxLocal == MuxTyped /\ MuxWaiters /\ \A m \in Mux : Owners(m)

MuxInv(P) == IInv(P) /\ MuxLocal

-----------------------------------------------------------------------------
(* Priorities *)

\* osTaskPriModify changes the priority of a task, and the ready queue with it.
LEMMA PriModifyRepriced ==
  ASSUME k \in Kernel, Sound(k), NEW t \in TaskID, NEW p \in Pri
  PROVE  Repriced(osTaskPriModify(k, t, p))
<1> DEFINE k1 == MakeUnready(k, t)
           k2 == [k1 EXCEPT !.prio[t] = p]
           k3 == MakeReady(k2, t)
           q1 == [k EXCEPT !.prio[t] = p]
<1>1. t \in CB /\ TaskOK(k, t) /\ ListsOK(k)
  BY DEF Sound, CB
<1>2. CASE "READY" \in k.status[t]
  <2>1. osTaskPriModify(k, t, p) = k3
    BY <1>2 DEF osTaskPriModify
  <2>2. k.status[t] \cap Waiting = {}
    BY <1>1, <1>2 DEF TaskOK, TaskBlock, Waiting, Kernel
  <2>3. k1 \in Kernel /\ ListsOK(k1) /\ IsLinked(k, t)
    BY <1>1, <1>2, MakeUnreadyType, MakeUnreadyLists
  <2>4. /\ SameTimer(k, k1) /\ SameSwitch(k, k1) /\ k1.prio = k.prio
        /\ k1.status = [k.status EXCEPT ![t] = @ \ {"READY"}] /\ k1.fault = k.fault
    BY <1>1, <2>3, MakeUnreadyEffect
  <2>5. \A w \in WaitList : k1.list[w] = k.list[w]
    BY <1>1, <1>2, <2>2, UnreadyWaits DEF SameWaits
  <2> HIDE DEF k1
  <2>6. /\ k2 \in Kernel /\ SameTimer(k1, k2) /\ SameSwitch(k1, k2) /\ SameLists(k1, k2)
        /\ k2.status = k1.status /\ k2.prio = [k1.prio EXCEPT ![t] = p]
    BY <2>3 DEF Kernel, SameTimer, SameSwitch, SameLists
  <2> HIDE DEF k2
  <2>7. "READY" \notin k2.status[t] /\ k2.status[t] \cap Waiting = {}
    BY <1>1, <2>2, <2>4, <2>6 DEF Kernel
  <2>8. ListsOK(k2)
    <3>1. \A u \in TaskID : u # t => k2.prio[u] = k1.prio[u]
      BY <2>3, <2>6 DEF Kernel
    <3> QED BY <2>3, <2>6, <2>7, <3>1, ListsFrame DEF SameLists
  <2>9. /\ k3 \in Kernel /\ ListsOK(k3) /\ SameTimer(k2, k3) /\ SameSwitch(k2, k3)
        /\ k3.fault = k2.fault /\ k3.status = [k2.status EXCEPT ![t] = @ \cup {"READY"}]
    BY <2>6, <2>7, <2>8, MakeReadyType, MakeReadyLists, MakeReadyEffect
  <2>10. \A w \in WaitList : k3.list[w] = k2.list[w]
    BY <2>6, ReadyWaits DEF SameWaits
  <2> HIDE DEF k3
  <2>11. k3.status = k.status
    <3>1. \A u \in CB : k3.status[u] = k.status[u]
      BY <1>1, <1>2, <2>4, <2>6, <2>9 DEF Kernel
    <3> QED BY <2>9, <3>1 DEF Kernel
  <2>12. SameTimer(k, k3) /\ SameSwitch(k, k3) /\ k3.fault = k.fault
    BY <2>4, <2>6, <2>9 DEF SameTimer, SameSwitch, SameLists
  <2>13. Sound(k3)
    <3>1. TaskOK(k3, t)
      BY <1>1, <2>11, <2>12 DEF TaskOK, SameTimer, SameSwitch
    <3>2. t = Idle => "READY" \in k3.status[t]
      BY <2>11 DEF Sound
    <3> QED BY <2>9, <2>11, <2>12, <3>1, <3>2, OneTask DEF SameTimer
  <2>14. \A w \in WaitList : k3.list[w] = k.list[w]
    BY <2>5, <2>6, <2>10 DEF SameLists
  <2> QED BY <2>1, <2>9, <2>11, <2>12, <2>13, <2>14 DEF Repriced
<1>3. CASE "READY" \notin k.status[t]
  <2>1. osTaskPriModify(k, t, p) = q1
    BY <1>3 DEF osTaskPriModify
  <2>2. /\ q1 \in Kernel /\ SameTimer(k, q1) /\ SameSwitch(k, q1) /\ SameLists(k, q1)
        /\ q1.status = k.status /\ q1.prio = [k.prio EXCEPT ![t] = p] /\ q1.fault = k.fault
    BY <1>1 DEF Kernel, SameTimer, SameSwitch, SameLists
  <2> HIDE DEF q1
  <2>3. \A u \in TaskID \ {t} : q1.prio[u] = k.prio[u]
    BY <1>1, <2>2 DEF Kernel
  <2>4. ListsOK(q1)
    BY <1>1, <1>3, <2>2, <2>3, ListsFrame DEF SameLists
  <2>5. TaskOK(q1, t)
    BY <1>1, <2>2 DEF TaskOK, SameTimer, SameSwitch
  <2>6. Sound(q1)
    BY <1>1, <2>2, <2>4, <2>5, OneTask DEF Sound, SameTimer, SameLists
  <2> QED BY <2>1, <2>2, <2>6 DEF Repriced, SameLists
<1> QED BY <1>2, <1>3

-----------------------------------------------------------------------------
(* Steps of the task manager *)

\* A step that touches neither the lists of the mutexes nor their calls.
LEMMA StillMux ==
  ASSUME MuxLocal, Still(Mux, MuxAt), UNCHANGED <<mux, on, holds>>
  PROVE  MuxLocal'
<1>1. \A m \in Mux : k'.list[m] = k.list[m]
  BY DEF Still
<1>2. ASSUME NEW t \in Task
      PROVE  \/ pc'[t] = pc[t] /\ k'.status[t] \cap Limbo = k.status[t] \cap Limbo
             \/ pc[t] \notin MuxAt /\ pc'[t] \notin MuxAt
  BY DEF Still, TaskID
<1>3. MuxTyped'
  BY DEF MuxLocal, MuxTyped, Still, TaskID
<1>4. MuxWaiters'
  BY <1>1, <1>2 DEF MuxLocal, MuxWaiters, Limbo, Waiting
<1>5. ASSUME NEW m \in Mux PROVE Owners(m)'
  <2>1. \A t \in Task : /\ Granted(t, m)' <=> Granted(t, m)
                        /\ pc'[t] \in MuxAt <=> pc[t] \in MuxAt
    BY <1>1, <1>2 DEF Granted, Limbo
  <2> QED BY <1>1, <2>1 DEF MuxLocal, Owners
<1> QED BY <1>3, <1>4, <1>5 DEF MuxLocal

\* A time limit that passes, or a task that ends.
LEMMA LeavesMux ==
  ASSUME NEW P, HasMux(P), MuxInv(P), NEW t \in Task, Expires(t) \/ Vanishes(t),
         UNCHANGED <<mux, on, holds>>
  PROVE  MuxLocal'
<1>1. k \in Kernel /\ ListsOK(k) /\ Leaves(t) /\ t \in TaskID /\ MuxLocal
  BY DEF MuxInv, IInv, Typed, Sound, Expires, Vanishes, TaskID
<1>2. \A m \in Mux : /\ ToSet(k'.list[m]) = ToSet(k.list[m]) \ {t}
                     /\ k'.list[m] # <<>> => k.list[m] # <<>>
  <2>1. Mux \in SUBSET WaitList
    BY MuxAssumption
  <2> QED BY <1>1, <2>1, LeavesLists
<1>3. ASSUME NEW u \in TaskID \ {t}
      PROVE  \/ pc'[u] = pc[u] /\ k'.status[u] \cap Limbo = k.status[u] \cap Limbo
             \/ pc[u] \notin MuxAt /\ pc'[u] \notin MuxAt
  BY <1>1 DEF Leaves, MuxAt, PC
<1>4. Task \subseteq TaskID /\ Idle \in TaskID \ {t}
  BY TaskAssumption DEF TaskID
<1>5. MuxTyped'
  BY <1>1, <1>3, <1>4 DEF MuxLocal, MuxTyped
<1>6. MuxWaiters'
  <2> SUFFICES ASSUME NEW m \in Mux, NEW u \in ToSet(k.list[m]) \ {t}
               PROVE  u \in Task /\ on[u] = m /\ pc'[u] \in MuxAt /\ "PEND" \in k'.status[u]
    BY <1>2 DEF MuxWaiters
  <2>1. u \in Task /\ on[u] = m /\ pc[u] \in MuxAt /\ "PEND" \in k.status[u]
    BY <1>1 DEF MuxLocal, MuxWaiters
  <2> QED BY <1>3, <1>4, <2>1 DEF Limbo, Waiting
<1>7. \/ pc[t] \notin MuxAt /\ pc'[t] \notin MuxAt
      \/ /\ pc'[t] = pc[t]
         /\ "TIMEOUT" \in k'.status[t] <=> "TIMEOUT" \in k.status[t]
         /\ k.status[t] \cap Waiting # {} => "TIMEOUT" \in k.status[t]
  BY MuxAssumption DEF Expires, Vanishes, MuxAt, PC
<1>8. ASSUME NEW m \in Mux PROVE Owners(m)'
  <2>1. t \in ToSet(k.list[m]) => k.status[t] \cap Waiting # {} /\ pc[t] \in MuxAt
    BY <1>1 DEF MuxLocal, MuxWaiters, Waiting
  <2>2. /\ Granted(t, m)' <=> Granted(t, m)
        /\ pc'[t] \in MuxAt <=> pc[t] \in MuxAt
    BY <1>2, <1>7, <2>1 DEF Granted
  <2>3. \A u \in Task \ {t} : /\ Granted(u, m)' <=> Granted(u, m)
                              /\ pc'[u] \in MuxAt <=> pc[u] \in MuxAt
    BY <1>2, <1>3, <1>4 DEF Granted, Limbo
  <2> QED BY <1>1, <1>2, <2>2, <2>3 DEF MuxLocal, Owners
<1> QED BY <1>5, <1>6, <1>8 DEF MuxLocal

\* Every step of the task manager keeps the invariant.
LEMMA TaskStepMux ==
  ASSUME NEW P, HasMux(P), MuxInv(P), ~IsrRaces,
         [Next]_vars, UNCHANGED <<mux, on, holds>>
  PROVE  MuxInv(P)'
<1>1. Points(P) /\ IInv(P) /\ MuxLocal
  BY DEF HasMux, MuxInv
<1>2. IInv(P)'
  BY <1>1, StepInv
<1>3. CASE Quiet
  <2>1. Mux \in SUBSET WaitList /\ MuxAt \cap PC = {}
    BY MuxAssumption DEF MuxAt, PC
  <2>2. Still(Mux, MuxAt)
    BY <1>3, <2>1, QuietStill
  <2> QED BY <1>1, <1>2, <2>2, StillMux DEF MuxInv
<1>4. ASSUME NEW t \in Task, Expires(t) \/ Vanishes(t) PROVE MuxInv(P)'
  BY <1>2, <1>4, LeavesMux DEF MuxInv
<1> QED BY <1>1, <1>3, <1>4, StepWaits

-----------------------------------------------------------------------------
(* The calls *)

\* The calls that change a control block only: LOS_MuxCreate, LOS_MuxDelete,
\* LOS_MuxPend of a free mutex or by its owner, LOS_MuxPost of a nested lock.
LEMMA BlockMux ==
  ASSUME NEW P, HasMux(P), MuxInv(P), NEW m \in Mux,
         \/ LOS_MuxCreate(m)
         \/ LOS_MuxDelete(m)
         \/ LOS_MuxPendTake(m)
         \/ LOS_MuxPost(m) /\ mux[m].count > 1
  PROVE  MuxInv(P)'
<1>1. PICK t : t = k.run
  OBVIOUS
<1>2. k' = k /\ pc' = pc /\ on' = on /\ t \in Task /\ pc[t] = "user"
  BY <1>1 DEF LOS_MuxCreate, LOS_MuxDelete, LOS_MuxPendTake, LOS_MuxPost, Calls, At, TaskID
<1>3. IInv(P)'
  BY <1>2 DEF MuxInv, IInv, Typed
<1>4. /\ MuxLocal /\ Owners(m) /\ mux \in [Mux -> MuxCB] /\ mux[m] \in MuxCB
      /\ holds \in [Task -> [Mux -> Nat]] /\ holds[t][m] \in Nat /\ on \in [Task -> Mux]
      /\ k \in Kernel
  BY <1>2 DEF MuxInv, MuxLocal, MuxTyped, IInv, Typed
<1>5. ASSUME NEW r \in MuxCB, NEW n \in Nat,
             mux' = [mux EXCEPT ![m] = r], holds' = [holds EXCEPT ![t][m] = n],
             Owners(m)'
      PROVE  MuxLocal'
  <2>1. MuxTyped'
    BY <1>2, <1>4, <1>5 DEF MuxLocal, MuxTyped
  <2>2. MuxWaiters'
    BY <1>2, <1>4 DEF MuxLocal, MuxWaiters
  <2>3. ASSUME NEW x \in Mux, x # m PROVE Owners(x)'
    <3>1. mux'[x] = mux[x] /\ \A u \in Task : holds'[u][x] = holds[u][x]
      BY <1>2, <1>4, <1>5, <2>3
    <3>2. \A u \in Task : Granted(u, x)' <=> Granted(u, x)
      BY <1>2 DEF Granted
    <3> QED BY <1>2, <1>4, <3>1, <3>2 DEF MuxLocal, Owners
  <2> QED BY <1>5, <2>1, <2>2, <2>3 DEF MuxLocal
<1>6. \A u \in Task : Granted(u, m)' <=> Granted(u, m)
  BY <1>2 DEF Granted
<1>7. ~Granted(t, m)
  BY <1>2 DEF Granted, MuxAt
<1>8. ASSUME mux[m].count = 0
      PROVE  k.list[m] = <<>> /\ \A u \in Task : holds[u][m] = 0 /\ ~Granted(u, m)
  <2>1. \A u \in Task : holds[u][m] \in Nat
    BY <1>4
  <2> QED BY <1>4, <1>8, <2>1 DEF Owners
<1>9. ASSUME mux[m].count > 0, mux[m].owner = t
      PROVE  /\ holds[t][m] = mux[m].count /\ mux[m].used
             /\ \A u \in Task \ {t} : holds[u][m] = 0 /\ ~Granted(u, m)
  <2>1. \A u \in Task : holds[u][m] \in Nat
    BY <1>4
  <2>2. holds[t][m] > 0
    BY <1>4, <1>7, <1>9 DEF Owners
  <2> QED BY <1>2, <1>4, <1>9, <2>1, <2>2 DEF Owners
<1>10. MuxLocal'
  <2>1. CASE LOS_MuxCreate(m)
    <3> DEFINE r == [used |-> TRUE, count |-> 0, owner |-> NoTask, prio |-> 0]
    <3>1. mux' = [mux EXCEPT ![m] = r] /\ holds' = holds /\ ~mux[m].used
      BY <2>1 DEF LOS_MuxCreate
    <3>2. r \in MuxCB /\ r.count = 0
      BY LowestAssumption DEF MuxCB, Pri
    <3> HIDE DEF r
    <3>3. mux[m].count = 0
      BY <1>4, <3>1 DEF Owners, MuxCB
    <3>4. mux'[m].count = 0 /\ holds' = [holds EXCEPT ![t][m] = holds[t][m]]
      BY <1>2, <1>4, <3>1, <3>2
    <3>5. Owners(m)'
      BY <1>2, <1>6, <1>8, <3>1, <3>3, <3>4 DEF Owners
    <3> QED BY <1>4, <1>5, <3>1, <3>2, <3>4, <3>5
  <2>2. CASE LOS_MuxDelete(m)
    <3> DEFINE r == [mux[m] EXCEPT !.used = FALSE]
    <3>1. mux' = [mux EXCEPT ![m] = r] /\ holds' = holds /\ mux[m].count = 0
      BY <2>2 DEF LOS_MuxDelete
    <3>2. r \in MuxCB /\ r.count = 0
      BY <1>4, <3>1 DEF MuxCB
    <3> HIDE DEF r
    <3>3. mux'[m].count = 0 /\ holds' = [holds EXCEPT ![t][m] = holds[t][m]]
      BY <1>2, <1>4, <3>1, <3>2
    <3>4. Owners(m)'
      BY <1>2, <1>6, <1>8, <3>1, <3>3 DEF Owners
    <3> QED BY <1>4, <1>5, <3>1, <3>2, <3>3, <3>4
  <2>3. CASE LOS_MuxPendTake(m)
    <3>1. holds' = [holds EXCEPT ![t][m] = holds[t][m] + 1] /\ mux[m].used
      BY <1>1, <2>3 DEF LOS_MuxPendTake
    <3>2. CASE mux[m].count = 0 /\
               mux' = [mux EXCEPT ![m].count = 1, ![m].owner = t, ![m].prio = k.prio[t]]
      <4> DEFINE r == [mux[m] EXCEPT !.count = 1, !.owner = t, !.prio = k.prio[t]]
      <4>1. mux' = [mux EXCEPT ![m] = r]
        BY <1>4, <3>2
      <4>2. k.prio[t] \in Pri
        BY <1>2, <1>4 DEF Kernel, TaskID
      <4>3. r \in MuxCB /\ r.count = 1 /\ r.owner = t /\ r.used
        BY <1>2, <1>4, <3>1, <4>2 DEF MuxCB
      <4> HIDE DEF r
      <4>4. mux'[m] = r /\ mux[m].count = 0
        BY <1>4, <3>2, <4>1
      <4>5. /\ holds[t][m] = 0 /\ holds'[t][m] = 1 /\ holds[t][m] + 1 \in Nat
            /\ \A u \in Task \ {t} : holds'[u][m] = 0
        BY <1>2, <1>4, <1>8, <3>1, <4>4
      <4>6. Owners(m)'
        BY <1>2, <1>6, <1>8, <4>3, <4>4, <4>5 DEF Owners, MuxAt
      <4> QED BY <1>5, <3>1, <4>1, <4>3, <4>5, <4>6
    <3>3. CASE mux[m].count \in 1 .. MaxNest - 1 /\ mux[m].owner = t /\
               mux' = [mux EXCEPT ![m].count = @ + 1]
      <4> DEFINE r == [mux[m] EXCEPT !.count = @ + 1]
      <4>1. mux' = [mux EXCEPT ![m] = r]
        BY <1>4, <3>3
      <4>2. /\ r \in MuxCB /\ r.count = mux[m].count + 1 /\ r.owner = t /\ r.used
            /\ mux[m].count \in Nat /\ mux[m].count > 0
        BY <1>4, <3>1, <3>3, MuxAssumption DEF MuxCB
      <4> HIDE DEF r
      <4>3. mux'[m] = r /\ holds[t][m] = mux[m].count /\ holds'[t][m] = holds[t][m] + 1
            /\ \A u \in Task \ {t} : holds'[u][m] = 0
        BY <1>2, <1>4, <1>9, <3>1, <3>3, <4>1, <4>2
      <4>4. Owners(m)'
        BY <1>2, <1>6, <1>7, <1>9, <3>3, <4>2, <4>3 DEF Owners, MuxAt
      <4>5. holds[t][m] + 1 \in Nat
        BY <1>4
      <4> QED BY <1>5, <3>1, <4>1, <4>2, <4>4, <4>5
    <3> QED BY <1>1, <2>3, <3>2, <3>3 DEF LOS_MuxPendTake
  <2>4. CASE LOS_MuxPost(m) /\ mux[m].count > 1
    <3> DEFINE r == [mux[m] EXCEPT !.count = @ - 1]
    <3>1. /\ mux' = [mux EXCEPT ![m].count = @ - 1] /\ mux[m].owner = t
          /\ holds' = [holds EXCEPT ![t][m] = holds[t][m] - 1]
      BY <1>1, <2>4 DEF LOS_MuxPost, Owned
    <3>2. mux' = [mux EXCEPT ![m] = r]
      BY <1>4, <3>1
    <3>3. /\ mux[m].count \in Nat /\ mux[m].count > 0 /\ holds[t][m] = mux[m].count /\ mux[m].used
          /\ \A u \in Task \ {t} : holds[u][m] = 0 /\ ~Granted(u, m)
      BY <1>4, <1>9, <2>4, <3>1 DEF MuxCB
    <3>4. /\ r \in MuxCB /\ r.count = mux[m].count - 1 /\ r.owner = t /\ r.used /\ r.count > 0
      BY <1>4, <2>4, <3>1, <3>3 DEF MuxCB
    <3> HIDE DEF r
    <3>5. mux'[m] = r /\ holds'[t][m] = holds[t][m] - 1 /\ holds[t][m] - 1 \in Nat
          /\ \A u \in Task \ {t} : holds'[u][m] = 0
      BY <1>2, <1>4, <2>4, <3>1, <3>2, <3>3
    <3>6. Owners(m)'
      BY <1>2, <1>6, <1>7, <3>3, <3>4, <3>5 DEF Owners, MuxAt
    <3> QED BY <1>4, <1>5, <3>1, <3>2, <3>4, <3>5, <3>6
  <2> QED BY <2>1, <2>2, <2>3, <2>4
<1> QED BY <1>3, <1>10 DEF MuxInv

\* LOS_MuxPend that has to wait: the owner inherits, the caller joins the list.
LEMMA PendWaitMux ==
  ASSUME NEW P, HasMux(P), MuxInv(P), NEW m \in Mux, NEW timeout \in Timeouts,
         LOS_MuxPendWait(m, timeout)
  PROVE  MuxInv(P)'
<1>1. PICK t : t = k.run
  OBVIOUS
<1>2. PICK o : o = mux[m].owner
  OBVIOUS
<1>3. PICK k1 : k1 = IF k.prio[o] > k.prio[t] THEN osTaskPriModify(k, o, k.prio[t]) ELSE k
  OBVIOUS
<1>4. /\ Calls("task", "MuxPend") /\ mux[m].used /\ mux[m].count > 0 /\ o # t /\ k.lock = 0
      /\ k' = osTaskWait(k1, m, "PEND", timeout) /\ Goto("mux_schedule")
      /\ on' = [on EXCEPT ![t] = m] /\ mux' = mux /\ holds' = holds
  BY <1>1, <1>2, <1>3 DEF LOS_MuxPendWait
<1>5. /\ Points(P) /\ IInv(P) /\ MuxLocal /\ k \in Kernel /\ Sound(k) /\ pc \in [TaskID -> P.all]
      /\ m \in WaitList /\ "PEND" \in Waiting /\ timeout \in Nat
      /\ "mux_schedule" \in P.all /\ "mux_schedule" \in P.window /\ "mux_schedule" \notin PC
  BY MuxAssumption DEF HasMux, MuxInv, IInv, Typed, MuxAt, PC, Waiting
<1>6. t \in Task /\ pc[t] = "user" /\ t \in TaskID
  BY <1>1, <1>4 DEF Calls, At, TaskID
<1>7. Owners(m) /\ o \in Task /\ o \in TaskID
  BY <1>2, <1>4, <1>5 DEF MuxLocal, Owners, TaskID
<1>8. Repriced(k1)
  <2>1. k.prio[t] \in Pri
    BY <1>5, <1>6 DEF Kernel
  <2>2. Repriced(osTaskPriModify(k, o, k.prio[t]))
    BY <1>5, <1>7, <2>1, PriModifyRepriced
  <2>3. Repriced(k)
    BY <1>5, SameRepriced
  <2> QED BY <1>3, <2>2, <2>3
<1>9. /\ IInv(P)' /\ pc' = [pc EXCEPT ![t] = "mux_schedule"]
      /\ \A w \in WaitList : k'.list[w] = IF w = m THEN Append(k.list[w], t) ELSE k.list[w]
      /\ \A u \in CB \ {t} : k'.status[u] = k.status[u]
      /\ k'.status[t] = (k.status[t] \ {"READY"})
                           \cup {"PEND"} \cup (IF timeout = Forever THEN {} ELSE {"TIMEOUT"})
  BY <1>1, <1>4, <1>5, <1>8, Blocks
<1>10. /\ \A x \in Mux : x \in WaitList /\ k.list[x] \in Seq(TaskID)
       /\ pc'[t] = "mux_schedule" /\ \A u \in TaskID \ {t} : pc'[u] = pc[u]
       /\ \A u \in Task \ {t} : k'.status[u] = k.status[u] /\ u \in TaskID /\ on'[u] = on[u]
       /\ on'[t] = m /\ on' \in [Task -> Mux]
  BY <1>4, <1>5, <1>6, <1>9, MuxAssumption DEF Kernel, ListHead, CB, TaskID, MuxLocal, MuxTyped
<1>11. \A x \in Mux : /\ ToSet(k'.list[x]) = IF x = m THEN ToSet(k.list[x]) \cup {t} ELSE ToSet(k.list[x])
                      /\ x # m => k'.list[x] = k.list[x]
  <2>1. ToSet(Append(k.list[m], t)) = ToSet(k.list[m]) \cup {t}
    BY <1>6, <1>10, AppendFacts
  <2> QED BY <1>9, <1>10, <2>1
<1>12. \A x \in Mux : t \notin ToSet(k.list[x]) /\ ~Granted(t, x)
  BY <1>5, <1>6 DEF MuxLocal, MuxWaiters, Granted, MuxAt
<1>13. MuxTyped'
  <2>1. pc'[Idle] = pc[Idle]
    BY <1>6, <1>10, TaskAssumption DEF TaskID
  <2> QED BY <1>4, <1>5, <1>10, <2>1 DEF MuxLocal, MuxTyped
<1>14. MuxWaiters'
  <2> SUFFICES ASSUME NEW x \in Mux, NEW u \in ToSet(k'.list[x])
               PROVE  u \in Task /\ on'[u] = x /\ pc'[u] \in MuxAt /\ "PEND" \in k'.status[u]
    BY DEF MuxWaiters
  <2>1. CASE u = t
    BY <1>6, <1>9, <1>10, <1>11, <1>12, <2>1 DEF MuxAt
  <2>2. CASE u # t
    <3>1. u \in ToSet(k.list[x])
      BY <1>11, <2>2
    <3> QED BY <1>5, <1>10, <2>2, <3>1 DEF MuxLocal, MuxWaiters
  <2> QED BY <2>1, <2>2
<1>15. ASSUME NEW x \in Mux PROVE Owners(x)'
  <2>1. ~Granted(t, x)'
    BY <1>10, <1>11 DEF Granted
  <2>2. \A u \in Task \ {t} : Granted(u, x)' <=> Granted(u, x)
    BY <1>10, <1>11 DEF Granted
  <2>3. holds[t][m] = 0
    <3>1. holds[t][m] \in Nat
      BY <1>5, <1>6 DEF MuxLocal, MuxTyped
    <3> QED BY <1>2, <1>4, <1>6, <1>7, <3>1 DEF Owners
  <2>4. Owners(x)
    BY <1>5 DEF MuxLocal
  <2>5. k'.list[x] # <<>> => mux[x].count > 0
    BY <1>4, <1>11, <2>4 DEF Owners
  <2> QED BY <1>4, <1>6, <1>10, <1>12, <2>1, <2>2, <2>3, <2>4, <2>5 DEF Owners
<1> QED BY <1>9, <1>13, <1>14, <1>15 DEF MuxInv, MuxLocal

\* LOS_MuxPend goes on to LOS_Schedule, and returns.
LEMMA PendReturnMux ==
  ASSUME NEW P, HasMux(P), MuxInv(P), MuxPendSchedule \/ MuxPendReturn
  PROVE  MuxInv(P)'
<1>1. PICK t : t = k.run
  OBVIOUS
<1>2. /\ Points(P) /\ IInv(P) /\ MuxLocal /\ pc \in [TaskID -> P.all]
      /\ "mux_return" \in P.all /\ "mux_return" \notin PC /\ "mux_return" \notin P.window
      /\ Task \subseteq TaskID /\ mux \in [Mux -> MuxCB]
      /\ on \in [Task -> Mux] /\ holds \in [Task -> [Mux -> Nat]]
  BY DEF HasMux, MuxInv, MuxLocal, MuxTyped, IInv, Typed, MuxAt, PC, TaskID
<1>3. CASE MuxPendSchedule
  <2>1. /\ IInv(P)' /\ k'.list = k.list /\ k'.status = k.status /\ t \in TaskID
        /\ pc[t] = "mux_schedule" /\ pc' = [pc EXCEPT ![t] = "mux_return"]
    BY <1>1, <1>2, <1>3, Goes DEF MuxPendSchedule
  <2>2. UNCHANGED <<mux, on, holds>>
    BY <1>3 DEF MuxPendSchedule
  <2>3. \A u \in TaskID : pc'[u] \in MuxAt <=> pc[u] \in MuxAt
    BY <1>2, <2>1 DEF MuxAt
  <2>4. \A u \in Task, m \in Mux : Granted(u, m)' <=> Granted(u, m)
    BY <1>2, <2>1, <2>2, <2>3 DEF Granted
  <2>5. MuxTyped' /\ MuxWaiters'
    BY <1>2, <2>1, <2>2, <2>3 DEF MuxLocal, MuxTyped, MuxWaiters, TaskID
  <2>6. \A m \in Mux : Owners(m)'
    BY <1>2, <2>1, <2>2, <2>3, <2>4 DEF MuxLocal, Owners
  <2> QED BY <2>1, <2>5, <2>6 DEF MuxInv, MuxLocal
<1>4. CASE MuxPendReturn
  <2>1. /\ At("mux_return") /\ Goto("user") /\ UNCHANGED <<mux, on>>
        /\ "TIMEOUT" \in k.status[t] => k' = ClearFlags(k, t, {"TIMEOUT"}) /\ holds' = holds
        /\ "TIMEOUT" \notin k.status[t] => holds' = [holds EXCEPT ![t][on[t]] = @ + 1] /\ k' = k
    BY <1>1, <1>4 DEF MuxPendReturn
  <2>2. /\ IInv(P)' /\ k'.list = k.list /\ t \in TaskID /\ pc[t] = "mux_return"
        /\ pc' = [pc EXCEPT ![t] = "user"]
        /\ \A u \in CB \ {t} : k'.status[u] = k.status[u]
        /\ k.status[t] \cap Waiting = {}
    <3>1. CASE "TIMEOUT" \in k.status[t]
      BY <1>1, <1>2, <2>1, <3>1, Returns
    <3>2. CASE "TIMEOUT" \notin k.status[t]
      <4>1. k' = k
        BY <2>1, <3>2
      <4>2. /\ IInv(P)' /\ t \in TaskID /\ pc[t] = "mux_return" /\ pc' = [pc EXCEPT ![t] = "user"]
            /\ k.status[t] \cap Waiting = {}
        BY <1>1, <1>2, <2>1, <3>2, <4>1, ReturnsQuietly
      <4> QED BY <4>1, <4>2
    <3> QED BY <3>1, <3>2
  <2>3. t \in Task
    BY <1>2, <2>2 DEF MuxLocal, MuxTyped, MuxAt, TaskID
  <2>4. /\ pc'[t] = "user" /\ \A u \in TaskID \ {t} : pc'[u] = pc[u]
        /\ \A u \in Task \ {t} : u \in TaskID /\ k'.status[u] = k.status[u]
    BY <1>2, <2>2 DEF CB
  <2>5. \A m \in Mux : ~Granted(t, m)' /\ t \notin ToSet(k.list[m])
    BY <1>2, <2>2, <2>4 DEF Granted, MuxAt, MuxLocal, MuxWaiters, Waiting
  <2>6. \A u \in Task \ {t}, m \in Mux : Granted(u, m)' <=> Granted(u, m)
    BY <2>1, <2>2, <2>4 DEF Granted
  <2>7. MuxWaiters'
    <3> SUFFICES ASSUME NEW m \in Mux, NEW u \in ToSet(k.list[m])
                 PROVE  u \in Task /\ on[u] = m /\ pc'[u] \in MuxAt /\ "PEND" \in k'.status[u]
      BY <2>1, <2>2 DEF MuxWaiters
    <3>1. u # t /\ u \in Task /\ on[u] = m /\ pc[u] \in MuxAt /\ "PEND" \in k.status[u]
      BY <1>2, <2>5 DEF MuxLocal, MuxWaiters
    <3> QED BY <2>4, <3>1
  <2>8. pc'[Idle] \notin MuxAt
    BY <1>2, <2>3, <2>4, TaskAssumption DEF MuxLocal, MuxTyped, TaskID
  <2>9. CASE "TIMEOUT" \in k.status[t]
    <3>1. holds' = holds /\ \A m \in Mux : ~Granted(t, m)
      BY <2>1, <2>9 DEF Granted
    <3>2. MuxTyped'
      BY <1>2, <2>1, <2>8, <3>1 DEF MuxTyped
    <3>3. ASSUME NEW m \in Mux PROVE Owners(m)'
      <4>1. Owners(m)
        BY <1>2 DEF MuxLocal
      <4> QED BY <2>1, <2>2, <2>3, <2>4, <2>5, <2>6, <3>1, <4>1 DEF Owners, MuxAt
    <3> QED BY <2>2, <2>7, <3>2, <3>3 DEF MuxInv, MuxLocal
  <2>10. CASE "TIMEOUT" \notin k.status[t]
    <3>1. PICK n \in Mux : n = on[t]
      BY <1>2, <2>3
    <3>2. Granted(t, n) /\ \A m \in Mux \ {n} : ~Granted(t, m)
      BY <2>2, <2>5, <2>10, <3>1 DEF Granted, MuxAt
    <3>3. Owners(n) /\ mux[n].owner = t /\ mux[n].count = 1 /\ holds[t][n] = 0
      BY <1>2, <2>2, <2>3, <3>1, <3>2 DEF MuxLocal, Owners, MuxAt
    <3>4. holds' = [holds EXCEPT ![t][n] = @ + 1]
      BY <2>1, <2>10, <3>1
    <3>5. /\ holds'[t][n] = 1 /\ \A m \in Mux \ {n} : holds'[t][m] = holds[t][m]
          /\ \A u \in Task \ {t} : holds'[u] = holds[u]
      BY <1>2, <2>3, <3>3, <3>4
    <3>6. MuxTyped'
      <4>1. holds' \in [Task -> [Mux -> Nat]]
        BY <1>2, <2>3, <3>3, <3>4
      <4> QED BY <1>2, <2>1, <2>8, <4>1 DEF MuxTyped
    <3>7. Owners(n)'
      BY <2>1, <2>2, <2>3, <2>4, <2>5, <2>6, <3>3, <3>5 DEF Owners, MuxAt
    <3>8. ASSUME NEW m \in Mux \ {n} PROVE Owners(m)'
      <4>1. Owners(m)
        BY <1>2 DEF MuxLocal
      <4> QED BY <2>1, <2>2, <2>3, <2>4, <2>5, <2>6, <3>2, <3>5, <4>1 DEF Owners, MuxAt
    <3> QED BY <2>2, <2>7, <3>6, <3>7, <3>8 DEF MuxInv, MuxLocal
  <2> QED BY <2>9, <2>10
<1> QED BY <1>3, <1>4

\* The last unlock: the owner gets its priority back, and the first waiter
\* the mutex.
LEMMA PostMux ==
  ASSUME NEW P, HasMux(P), MuxInv(P), NEW m \in Mux, LOS_MuxPost(m), ~(mux[m].count > 1)
  PROVE  MuxInv(P)'
<1>1. PICK t : t = k.run
  OBVIOUS
<1>2. PICK k1 : k1 = PriRestored(m)
  OBVIOUS
<1>3. PICK h : h = Head(k.list[m])
  OBVIOUS
<1>4. /\ Calls("task", "MuxPost") /\ mux[m].used /\ mux[m].count > 0 /\ mux[m].owner = t
      /\ holds' = [holds EXCEPT ![t][m] = @ - 1] /\ on' = on
      /\ k.list[m] = <<>> => mux' = [mux EXCEPT ![m].count = 0] /\ ThenReturn(k1)
      /\ k.list[m] # <<>> => /\ mux' = HandOver(m)
                             /\ ThenSchedule("task", osTaskWake(k1, h, "PEND"))
  BY <1>1, <1>2, <1>3 DEF LOS_MuxPost, Owned, NextOwner
<1>5. /\ Points(P) /\ ~P.strict /\ IInv(P) /\ MuxLocal /\ k \in Kernel /\ Sound(k) /\ ListsOK(k)
      /\ pc \in [TaskID -> P.all] /\ m \in WaitList /\ Task \subseteq TaskID /\ Mux \subseteq WaitList
      /\ mux \in [Mux -> MuxCB] /\ mux[m] \in MuxCB
      /\ on \in [Task -> Mux] /\ holds \in [Task -> [Mux -> Nat]]
  BY MuxAssumption DEF HasMux, MuxInv, MuxLocal, MuxTyped, IInv, Typed, Sound, TaskID
<1>6. t \in Task /\ pc[t] = "user" /\ t \in TaskID /\ ~k.pendSV
  BY <1>1, <1>4 DEF Calls, At, Runs, TaskID
<1>7. Repriced(k1)
  <2>1. mux[m].prio \in Pri
    BY <1>5 DEF MuxCB
  <2>2. Repriced(osTaskPriModify(k, t, mux[m].prio))
    BY <1>5, <1>6, <2>1, PriModifyRepriced
  <2>3. Repriced(k)
    BY <1>5, SameRepriced
  <2> QED BY <1>1, <1>2, <2>2, <2>3 DEF PriRestored
<1>8. \A x \in Mux : t \notin ToSet(k.list[x]) /\ ~Granted(t, x)
  BY <1>5, <1>6 DEF MuxLocal, MuxWaiters, Granted, MuxAt
<1>9. mux[m].count = 1 /\ holds[t][m] = 1 /\ \A u \in Task \ {t} : holds[u][m] = 0 /\ ~Granted(u, m)
  <2>1. Owners(m) /\ mux[m].count \in Nat /\ \A u \in Task : holds[u][m] \in Nat
    BY <1>5 DEF MuxLocal, MuxCB
  <2>2. mux[m].count = 1
    BY <1>4, <2>1
  <2> QED BY <1>4, <1>6, <1>8, <2>1, <2>2 DEF Owners
<1>10. /\ holds' \in [Task -> [Mux -> Nat]] /\ \A u \in Task : holds'[u][m] = 0
       /\ \A u \in Task, x \in Mux : x # m => holds'[u][x] = holds[u][x]
  <2>1. holds' = [holds EXCEPT ![t][m] = 0]
    BY <1>4, <1>5, <1>6, <1>9
  <2> QED BY <1>5, <1>6, <1>9, <2>1
<1>11. CASE k.list[m] = <<>>
  <2>1. mux' = [mux EXCEPT ![m].count = 0] /\ ThenReturn(k1) /\ k' = k1 /\ pc' = pc
    BY <1>4, <1>11 DEF ThenReturn
  <2>2. /\ k1 \in Kernel /\ Sound(k1) /\ SameSwitch(k, k1) /\ k1.fault = k.fault
        /\ k1.status = k.status /\ NoNewWait(k, k1)
    BY <1>7 DEF Repriced, NoNewWait
  <2>3. IInv(P)'
    BY <1>5, <2>1, <2>2, EndReturn
  <2>4. Still(Mux, MuxAt)
    BY <1>5, <1>7, <2>1 DEF Still, Repriced
  <2>5. /\ \A x \in Mux : k'.list[x] = k.list[x]
        /\ k'.status = k.status /\ pc' = pc
    BY <1>5, <1>7, <2>1 DEF Repriced
  <2>6. /\ mux' \in [Mux -> MuxCB] /\ mux'[m].count = 0
        /\ \A x \in Mux : x # m => mux'[x] = mux[x]
    BY <1>5, <2>1 DEF MuxCB
  <2>7. \A u \in Task, x \in Mux : Granted(u, x)' <=> Granted(u, x)
    BY <1>4, <2>5 DEF Granted
  <2>8. MuxTyped' /\ MuxWaiters'
    BY <1>4, <1>5, <1>10, <2>5, <2>6 DEF MuxLocal, MuxTyped, MuxWaiters
  <2>9. Owners(m)'
    BY <1>8, <1>9, <1>10, <1>11, <2>5, <2>6, <2>7 DEF Owners
  <2>10. ASSUME NEW x \in Mux, x # m PROVE Owners(x)'
    <3>1. Owners(x)
      BY <1>5 DEF MuxLocal
    <3> QED BY <1>4, <1>10, <2>5, <2>6, <2>7, <2>10, <3>1 DEF Owners
  <2> QED BY <2>3, <2>8, <2>9, <2>10 DEF MuxInv, MuxLocal
<1>12. CASE k.list[m] # <<>>
  <2>1. mux' = HandOver(m) /\ ThenSchedule("task", osTaskWake(k1, h, "PEND"))
    BY <1>4, <1>12
  <2>2. h \in ToSet(k.list[m])
    <3>1. k.list[m] \in Seq(TaskID)
      BY <1>5 DEF Kernel, ListHead
    <3>2. 1 \in DOMAIN k.list[m] /\ h = k.list[m][1]
      BY <1>3, <1>12, <3>1, EmptySeq, LenProperties
    <3> QED BY <3>2 DEF ToSet
  <2>3. h \in Task /\ h \in TaskID /\ on[h] = m /\ pc[h] \in MuxAt /\ "PEND" \in k.status[h] /\ h # t
    BY <1>5, <1>8, <2>2 DEF MuxLocal, MuxWaiters
  <2>4. k.status[h] \cap Waiting = {"PEND"} /\ "PEND" \in Waiting
    <3>1. TaskOK(k, h)
      BY <1>5, <2>3 DEF Sound
    <3> QED BY <2>3, <3>1 DEF TaskOK, Waiting
  <2>5. IInv(P)' /\ Served(h)
    BY <1>4, <1>5, <1>7, <2>1, <2>3, <2>4, CallServes
  <2>6. /\ Leaves(h) /\ pc'[h] = pc[h] /\ k'.status[h] \cap Limbo = {}
        /\ \A x \in Mux : /\ ToSet(k'.list[x]) = ToSet(k.list[x]) \ {h}
                          /\ k'.list[x] # <<>> => k.list[x] # <<>>
    <3>1. Mux \in SUBSET WaitList
      BY MuxAssumption
    <3> QED BY <1>5, <2>3, <2>5, <3>1, LeavesLists DEF Served
  <2>7. ASSUME NEW u \in TaskID \ {h}
        PROVE  \/ pc'[u] = pc[u] /\ k'.status[u] \cap Limbo = k.status[u] \cap Limbo
               \/ pc[u] \notin MuxAt /\ pc'[u] \notin MuxAt
    BY <2>6 DEF Leaves, MuxAt, PC
  <2>8. /\ mux' \in [Mux -> MuxCB] /\ mux'[m].count = 1 /\ mux'[m].owner = h /\ mux'[m].used
        /\ \A x \in Mux : x # m => mux'[x] = mux[x]
    <3> DEFINE r == [mux[m] EXCEPT !.owner = h, !.prio = k.prio[h]]
    <3>1. mux' = [mux EXCEPT ![m] = r]
      BY <1>3, <1>5, <2>1 DEF HandOver
    <3>2. k.prio[h] \in Pri
      BY <1>5, <2>3 DEF Kernel
    <3>3. r \in MuxCB /\ r.count = 1 /\ r.owner = h /\ r.used
      BY <1>4, <1>5, <1>9, <2>3, <3>2 DEF MuxCB
    <3> HIDE DEF r
    <3> QED BY <1>5, <3>1, <3>3
  <2>9. \A u \in Task \ {h}, x \in Mux : Granted(u, x)' <=> Granted(u, x)
    <3> SUFFICES ASSUME NEW u \in Task \ {h}, NEW x \in Mux PROVE Granted(u, x)' <=> Granted(u, x)
      OBVIOUS
    <3>1. u \in ToSet(k'.list[x]) <=> u \in ToSet(k.list[x])
      BY <2>6
    <3>2. \/ pc'[u] = pc[u] /\ k'.status[u] \cap Limbo = k.status[u] \cap Limbo
          \/ pc[u] \notin MuxAt /\ pc'[u] \notin MuxAt
      BY <1>5, <2>7
    <3>3. on' = on
      BY <1>4
    <3> QED BY <3>1, <3>2, <3>3 DEF Granted, Limbo
  <2>10. Granted(h, m)' /\ \A x \in Mux : x # m => ~Granted(h, x) /\ ~Granted(h, x)'
    BY <1>4, <2>3, <2>6 DEF Granted, Limbo
  <2>11. MuxTyped'
    <3>1. Idle \in TaskID \ {h}
      BY <2>3, TaskAssumption DEF TaskID
    <3>2. pc'[Idle] \notin MuxAt
      BY <1>5, <2>7, <3>1 DEF MuxLocal, MuxTyped
    <3> QED BY <1>4, <1>5, <1>10, <2>8, <3>2 DEF MuxTyped
  <2>12. MuxWaiters'
    <3> SUFFICES ASSUME NEW x \in Mux, NEW u \in ToSet(k.list[x]) \ {h}
                 PROVE  u \in Task /\ on[u] = x /\ pc'[u] \in MuxAt /\ "PEND" \in k'.status[u]
      BY <1>4, <2>6 DEF MuxWaiters
    <3>1. u \in Task /\ on[u] = x /\ pc[u] \in MuxAt /\ "PEND" \in k.status[u]
      BY <1>5 DEF MuxLocal, MuxWaiters
    <3> QED BY <1>5, <2>7, <3>1 DEF Limbo, Waiting
  <2>13. \A u \in Task : pc'[u] \in MuxAt <=> pc[u] \in MuxAt
    BY <1>5, <2>3, <2>6, <2>7
  <2>14. Owners(m)'
    BY <1>6, <1>8, <1>9, <1>10, <2>3, <2>8, <2>9, <2>10 DEF Owners
  <2>15. ASSUME NEW x \in Mux, x # m PROVE Owners(x)'
    <3>1. Owners(x)
      BY <1>5 DEF MuxLocal
    <3>2. \A u \in Task : Granted(u, x)' <=> Granted(u, x)
      BY <2>9, <2>10, <2>15
    <3> QED BY <1>4, <1>10, <2>6, <2>8, <2>13, <2>15, <3>1, <3>2 DEF Owners
  <2> QED BY <2>5, <2>11, <2>12, <2>14, <2>15 DEF MuxInv, MuxLocal
<1> QED BY <1>11, <1>12

-----------------------------------------------------------------------------
(* Every step keeps the invariant *)

\* Every step: a mutex call, or a step of the task manager.
LEMMA MuxStepInv ==
  ASSUME NEW P, HasMux(P), MuxInv(P), ~IsrRaces, [MuxNext]_muxVars
  PROVE  MuxInv(P)'
<1>1. CASE MuxCallNext
  BY <1>1, BlockMux, PendWaitMux, PendReturnMux, PostMux DEF MuxCallNext
<1>2. CASE [Next]_vars /\ UNCHANGED <<mux, on, holds>>
  BY <1>2, TaskStepMux
<1> QED BY <1>1, <1>2 DEF MuxNext, muxVars, vars

\* The invariant holds at the start, when no mutex exists.
LEMMA MuxInitInv ==
  ASSUME NEW P, HasMux(P), MuxInit
  PROVE  MuxInv(P)
<1>1. IInv(P)
  BY InitInv DEF MuxInit, HasMux
<1>2. \A m \in Mux : k.list[m] = <<>>
  BY MuxAssumption, WaitListAssumption DEF MuxInit, Init, KernelInit, ListHead
<1>3. \A m \in Mux : ToSet(k.list[m]) = {}
  BY <1>2 DEF ToSet
<1>4. \A t \in TaskID : pc[t] \notin MuxAt
  BY DEF MuxInit, Init, MuxAt
<1>5. /\ mux = [m \in Mux |-> [used |-> FALSE, count |-> 0, owner |-> NoTask, prio |-> 0]]
      /\ on = [t \in Task |-> CHOOSE m \in Mux : TRUE]
      /\ holds = [t \in Task |-> [m \in Mux |-> 0]]
  BY DEF MuxInit
<1>6. MuxTyped
  <2>1. mux \in [Mux -> MuxCB]
    BY <1>5, LowestAssumption DEF MuxCB, Pri
  <2>2. on \in [Task -> Mux]
    BY <1>5, MuxAssumption
  <2> QED BY <1>4, <1>5, <2>1, <2>2 DEF MuxTyped, TaskID
<1>7. MuxWaiters
  BY <1>3 DEF MuxWaiters
<1>8. \A m \in Mux : Owners(m)
  BY <1>2, <1>4, <1>5 DEF Owners, Granted, TaskID
<1> QED BY <1>1, <1>6, <1>7, <1>8 DEF MuxInv, MuxLocal

\* The invariant holds in every state, if handlers keep to their rules.
LEMMA MuxInvariance ==
  ASSUME ~IsrRaces
  PROVE  MuxSpec => []MuxInv(MuxPoints)
<1>0. HasMux(MuxPoints)
  BY DEF HasMux, Points, MuxPoints, MuxAt, PC
<1>1. MuxInit => MuxInv(MuxPoints)
  BY <1>0, MuxInitInv
<1>2. MuxInv(MuxPoints) /\ [MuxNext]_muxVars => MuxInv(MuxPoints)'
  BY <1>0, MuxStepInv
<1> QED BY <1>1, <1>2, PTL DEF MuxSpec

-----------------------------------------------------------------------------
(***************************************************************************)
(* Priority inheritance.  LOS_MuxPost gives the owner the priority it had  *)
(* when it locked the mutex.  That is its own priority only if the owner   *)
(* had not inherited one by then, hence held no other mutex.               *)
(***************************************************************************)

Owns(t, m) == mux[m].count > 0 /\ mux[m].owner = t

\* No task holds two mutexes at a time.
OneAtATime == \A t \in Task : \A m, n \in Mux : Owns(t, m) /\ Owns(t, n) => m = n

\* The priority that a mutex keeps for its owner is the owner's own.
Saved == \A m \in Mux : mux[m].count > 0 => mux[m].prio = BootPrio(mux[m].owner)

Inherits == PriorityRestored /\ Saved

\* No call gives a task another priority, and none creates one.
FixedPriorities == {"PriSet", "Create", "CreateOnly"} \cap (TaskCalls \cup IsrCalls) = {}

\* The priorities tasks are created with are priorities.
LEMMA BootPrioType ==
  ASSUME NEW t \in TaskID
  PROVE  BootPrio(t) \in Pri /\ BootPrio(t) \in Nat
<1>1. BootPrio(t) \in Pri
  <2>1. CASE t \in BootTasks
    <3>1. \E p \in Pri : t \in ToSet(BootQueue[p])
      BY <2>1 DEF BootTasks
    <3> QED BY <2>1, <3>1 DEF BootPrio
  <2>2. CASE t \notin BootTasks
    BY <2>2, LowestAssumption DEF BootPrio, Pri
  <2> QED BY <2>1, <2>2
<1> QED BY <1>1, LowestAssumption DEF Pri

\* osTaskPriModify changes the priority of the task it is given, and no other.
LEMMA PriModifyPrio ==
  ASSUME NEW kn \in Kernel, NEW t \in TaskID, NEW p \in Pri
  PROVE  osTaskPriModify(kn, t, p).prio = [kn.prio EXCEPT ![t] = p]
<1>1. \A r \in Kernel : /\ [r EXCEPT !.prio[t] = p] \in Kernel
                        /\ [r EXCEPT !.prio[t] = p].prio = [r.prio EXCEPT ![t] = p]
  BY DEF Kernel
<1>2. MakeUnready(kn, t) \in Kernel /\ MakeUnready(kn, t).prio = kn.prio
  BY MakeUnreadyType, MakeUnreadyEffect
<1>3. \A r \in Kernel : MakeReady(r, t).prio = r.prio
  BY MakeReadyEffect
<1> QED BY <1>1, <1>2, <1>3 DEF osTaskPriModify

\* Deleting a task leaves the priorities alone.
LEMMA DeletePrio ==
  ASSUME NEW kn \in Kernel, NEW t \in TaskID
  PROVE  TaskDelete(kn, t).prio = kn.prio
<1> DEFINE Kept(r) == r \in Kernel /\ r.prio = kn.prio
           st == kn.status[t]
           k1 == IF "RUNNING" \in st THEN [kn EXCEPT !.lock = 0] ELSE kn
           k2 == IF "READY" \in st THEN MakeUnready(k1, t)
                 ELSE IF st \cap Waiting # {} THEN ListDelete(k1, t)
                 ELSE k1
           k3 == IF st \cap {"DELAY", "TIMEOUT"} # {} THEN osTimerListDelete(k2, t) ELSE k2
           k4 == [k3 EXCEPT !.status[t] = {"UNUSED"}, !.new = osPriqueueTop(k3)]
<1>1. Kept(k1)
  BY DEF Kernel
<1>2. Kept(k2)
  <2> HIDE DEF k1
  <2> QED BY ZenonT(60), <1>1, MakeUnreadyType, MakeUnreadyEffect, ListDeleteType, ListDeleteEffect DEF SameTasks
<1>3. Kept(k3)
  <2> HIDE DEF k2
  <2>1. osTimerListDelete(k2, t).prio = k2.prio
    BY <1>2 DEF osTimerListDelete, Kernel
  <2> QED BY <1>2, <2>1, TimerType
<1>4. k4.prio = kn.prio /\ \A s : [k4 EXCEPT !.run = Dummy, !.status[Dummy] = s].prio = kn.prio
  <2> HIDE DEF k3
  <2> QED BY <1>3 DEF Kernel
<1> QED BY <1>4 DEF TaskDelete

\* A round of osTaskScan leaves the priorities alone.
LEMMA ScanPrio ==
  ASSUME NEW kn \in Kernel, NEW t \in TaskID, NEW st
  PROVE  ScanTask(kn, t, st).prio = kn.prio
BY DEF ScanTask, MakeReady, osPriqueueEnqueue, ListTailInsert, ListDelete, SetFlags, ClearFlags,
       Kernel

\* No step of the task manager changes a priority, where tasks are neither
\* created nor given another priority.
LEMMA PrioKept ==
  ASSUME ~IsrRaces, k \in Kernel, FixedPriorities, [Next]_vars
  PROVE  k'.prio = k.prio
<1> DEFINE Kept(kn) == kn \in Kernel /\ kn.prio = k.prio
<1>1. \A kn : Kept(kn) => Kept(LOS_Schedule(kn))
  BY ScheduleType DEF LOS_Schedule, Kernel
<1>2. \A kn : \A t \in TaskID : Kept(kn) => Kept(MakeReady(kn, t)) /\ Kept(MakeUnready(kn, t))
  BY MakeReadyType, MakeUnreadyType, MakeReadyEffect, MakeUnreadyEffect
<1>3. \A kn : \A t \in CB, f \in Flag : Kept(kn) => Kept(SetFlags(kn, t, {f})) /\ Kept(ClearFlags(kn, t, {f}))
  <2> SUFFICES ASSUME NEW kn \in Kernel, kn.prio = k.prio, NEW t \in CB, NEW f \in Flag
               PROVE  Kept(SetFlags(kn, t, {f})) /\ Kept(ClearFlags(kn, t, {f}))
    OBVIOUS
  <2>1. {f} \in SUBSET Flag
    OBVIOUS
  <2> QED BY <2>1, FlagsType, FlagsEffect
<1>4. Kept(k) /\ Task \subseteq CB /\ Task \subseteq TaskID /\ {"SUSPEND", "DELAY"} \subseteq Flag
  BY DEF CB, TaskID, Flag
<1> HIDE DEF Kept
<1>5. \A ctx, kn : Kept(kn) /\ (ThenSchedule(ctx, kn) \/ ThenReturn(kn)) => Kept(k')
  BY <1>1 DEF ThenSchedule, ThenReturn
<1>6. Kept(k') => k'.prio = k.prio
  BY DEF Kept
<1>7. [k EXCEPT !.fault = TRUE].prio = k.prio
  BY DEF Kernel
<1>8. ASSUME NEW ctx \in {"task", "isr"}, NEW op, Calls(ctx, op)
      PROVE  op \notin {"Create", "CreateOnly", "PriSet"}
  BY <1>8, MuxAssumption DEF Calls, FixedPriorities
<1>9. ASSUME NEW ctx \in {"task", "isr"}, NEW t \in Task, NEW p \in Pri
      PROVE  ~LOS_TaskCreateOnly(ctx, t, p) /\ ~LOS_TaskCreate(ctx, t, p) /\ ~LOS_TaskPriSet(t, p)
  BY <1>8 DEF LOS_TaskCreateOnly, LOS_TaskCreate, LOS_TaskPriSet
<1>10. ASSUME NEW ctx \in {"task", "isr"}, NEW t \in Task, LOS_TaskResume(ctx, t)
       PROVE  k'.prio = k.prio
  <2>1. Kept(ClearFlags(k, t, {"SUSPEND"})) /\ Kept(MakeReady(ClearFlags(k, t, {"SUSPEND"}), t))
    BY <1>2, <1>3, <1>4
  <2> QED BY <1>5, <1>6, <1>10, <2>1 DEF LOS_TaskResume
<1>11. ASSUME NEW ctx \in {"task", "isr"}, NEW t \in Task, LOS_TaskSuspend(ctx, t)
       PROVE  k'.prio = k.prio
  <2>1. /\ Kept(SetFlags(k, t, {"SUSPEND"}))
        /\ Kept(SetFlags(MakeUnready(k, t), t, {"SUSPEND"}))
    BY <1>2, <1>3, <1>4
  <2> QED BY <1>5, <1>6, <1>11, <2>1 DEF LOS_TaskSuspend
<1>12. ASSUME NEW ctx \in {"task", "isr"}, NEW t \in Task, LOS_TaskDelete(ctx, t)
       PROVE  k'.prio = k.prio
  BY <1>12, MuxAssumption DEF LOS_TaskDelete, Calls
<1>13. ASSUME NEW n \in Delays, LOS_TaskDelay(n)
       PROVE  k'.prio = k.prio
  <2>1. k.run \in TaskID /\ k.run \in CB /\ n \in Nat
    BY <1>13, BoundsAssumption DEF LOS_TaskDelay, Calls, At, CB
  <2>2. \A kn : Kept(kn) => Kept(osTaskAdd2TimerList(kn, k.run, n))
    <3>1. \A kn \in Kernel : osTaskAdd2TimerList(kn, k.run, n).prio = kn.prio
      BY DEF osTaskAdd2TimerList, Kernel
    <3> QED BY <2>1, <3>1, TimerType DEF Kept
  <2>3. Kept(SetFlags(osTaskAdd2TimerList(MakeUnready(k, k.run), k.run, n), k.run, {"DELAY"}))
    BY <1>2, <1>3, <1>4, <2>1, <2>2
  <2> QED BY <1>5, <1>6, <1>7, <1>13, <2>3 DEF LOS_TaskDelay, Halt
<1>14. CASE osTaskEntry \/ osTaskEntryDelete
  <2>1. CASE osTaskEntry
    BY <2>1 DEF osTaskEntry, Kernel
  <2>2. CASE osTaskEntryDelete
    BY <2>2, DeletePrio DEF osTaskEntryDelete, At
  <2> QED BY <1>14, <2>1, <2>2
<1>15. CASE LOS_TaskYield \/ Tick
  <2>1. ASSUME CanYield(k)
        PROVE  Kept(Requeue(k)) /\ Kept(LOS_Schedule(Requeue(k)))
    <3>1. k.run \in TaskID
      BY <2>1 DEF CanYield, Kernel, CB
    <3>2. Kept(Requeue(k))
      <4>1. ListDelete(k, k.run) \in Kernel /\ ListDelete(k, k.run).prio = k.prio
        BY ListDeleteType, ListDeleteEffect DEF SameTasks
      <4>2. Requeue(k).prio = ListDelete(k, k.run).prio
        BY <3>1, <4>1, EnqueueEffect DEF Requeue, SameTasks
      <4> QED BY <3>1, <4>1, <4>2, RequeueType DEF Kept
    <3> QED BY <1>1, <3>2
  <2>2. CASE LOS_TaskYield
    BY <1>5, <1>6, <2>1, <2>2 DEF LOS_TaskYield
  <2>3. CASE Tick
    <3>1. \E r, s : Kept(r) /\ osTimesliceCheck(k) = [r EXCEPT !.slice = s]
      BY <1>4, <2>1 DEF osTimesliceCheck
    <3>2. osTimesliceCheck(k).prio = k.prio /\ osTimesliceCheck(k) \in Kernel
      BY <3>1, TimesliceType DEF Kept, Kernel
    <3> HIDE DEF Kept
    <3> QED BY <2>3, <3>2 DEF Tick, Kernel
  <2> QED BY <1>15, <2>2, <2>3
<1>16. CASE LOS_TaskLock \/ LOS_TaskUnlock
  BY <1>16 DEF LOS_TaskLock, LOS_TaskUnlock, ThenReturn, ThenSchedule, Kernel
<1>17. CASE Schedule \/ DeadTaskSchedule \/ UNCHANGED vars
  BY <1>1, <1>4, <1>6, <1>17 DEF Schedule, DeadTaskSchedule, vars, Kernel
<1>18. CASE PendSV
  BY <1>18 DEF PendSV, PendSVHandler, SetFlags, ClearFlags, Kernel
<1>19. ASSUME NEW t \in Task, osTaskScan(t)
       PROVE  k'.prio = k.prio
  BY <1>19, ScanPrio DEF osTaskScan, TaskID
<1>20. CASE osTaskScanEnd
  <2> DEFINE k1 == IF k.need THEN LOS_Schedule(k) ELSE k
  <2>1. Kept(k1)
    BY <1>1, <1>4
  <2> HIDE DEF k1
  <2> QED BY <1>20, <2>1 DEF osTaskScanEnd, k1, Kept, Kernel
<1> QED BY <1>9, <1>10, <1>11, <1>12, <1>13, <1>14, <1>15, <1>16, <1>17, <1>18, <1>19, <1>20
        DEF Next, TaskNext, KernelNext

\* A call that changes a control block only.
LEMMA BlockInherits ==
  ASSUME NEW P, HasMux(P), MuxInv(P), Inherits, OneAtATime', NEW m \in Mux,
         \/ LOS_MuxCreate(m)
         \/ LOS_MuxDelete(m)
         \/ LOS_MuxPendTake(m)
         \/ LOS_MuxPost(m) /\ mux[m].count > 1
  PROVE  Inherits'
<1>1. PICK t : t = k.run
  OBVIOUS
<1>2. k' = k /\ t \in Task
  BY <1>1 DEF LOS_MuxCreate, LOS_MuxDelete, LOS_MuxPendTake, LOS_MuxPost, Calls, At, TaskID
<1>3. /\ mux \in [Mux -> MuxCB] /\ mux[m] \in MuxCB /\ mux[m].count \in Nat
      /\ k \in Kernel /\ k.prio[t] \in Pri
      /\ mux[m].count > 0 => mux[m].used
  <2>1. MuxTyped /\ Owners(m) /\ k \in Kernel
    BY DEF MuxInv, MuxLocal, IInv, Typed
  <2>2. mux[m] \in MuxCB
    BY <2>1 DEF MuxTyped
  <2>3. mux[m].count \in Nat
    BY <2>2 DEF MuxCB
  <2> QED BY <1>2, <2>1, <2>2, <2>3 DEF MuxTyped, Owners, Kernel, TaskID
<1>4. ASSUME NEW r \in MuxCB, mux' = [mux EXCEPT ![m] = r],
             \/ r.count = 0 /\ mux[m].count = 0
             \/ r.count > 0 /\ mux[m].count > 0 /\ r.owner = mux[m].owner /\ r.prio = mux[m].prio
             \/ r.count > 0 /\ mux[m].count = 0 /\ r.owner = t /\ r.prio = k.prio[t]
      PROVE  Inherits'
  <2>1. mux'[m] = r /\ \A x \in Mux : x # m => mux'[x] = mux[x]
    BY <1>3, <1>4
  <2>2. ASSUME NEW u \in Task, \A x \in Mux : ~Owns(u, x)' PROVE \A x \in Mux : ~Owns(u, x)
    BY <1>4, <2>1, <2>2 DEF Owns
  <2>3. PriorityRestored'
    <3> SUFFICES ASSUME NEW u \in Task
                 PROVE  /\ k.prio[u] <= BootPrio(u)
                        /\ (\A x \in Mux : ~Owns(u, x)') => k.prio[u] = BootPrio(u)
      BY <1>2, <1>3, <2>1 DEF PriorityRestored, Owns, MuxCB
    <3> QED BY <1>3, <2>2 DEF Inherits, PriorityRestored, Owns, MuxCB
  <2>4. Saved'
    <3> SUFFICES ASSUME NEW x \in Mux, mux'[x].count > 0
                 PROVE  mux'[x].prio = BootPrio(mux'[x].owner)
      BY DEF Saved
    <3>1. CASE x # m
      BY <2>1, <3>1 DEF Inherits, Saved
    <3>2. CASE x = m /\ mux[m].count > 0
      BY <1>4, <2>1, <3>2 DEF Inherits, Saved
    <3>3. CASE x = m /\ mux[m].count = 0
      <4>1. r.owner = t /\ r.prio = k.prio[t] /\ r.count > 0
        BY <1>4, <2>1, <3>3
      <4>2. \A y \in Mux : ~Owns(t, y)
        <5> SUFFICES ASSUME NEW y \in Mux, Owns(t, y) PROVE FALSE
          OBVIOUS
        <5>1. y # m
          BY <3>3 DEF Owns
        <5>2. Owns(t, m)' /\ Owns(t, y)'
          BY <2>1, <4>1, <5>1 DEF Owns
        <5> QED BY <1>2, <5>1, <5>2 DEF OneAtATime
      <4>3. k.prio[t] = BootPrio(t)
        BY <1>2, <1>3, <4>2 DEF Inherits, PriorityRestored, Owns, MuxCB
      <4> QED BY <2>1, <3>3, <4>1, <4>3
    <3> QED BY <1>3, <3>1, <3>2, <3>3
  <2> QED BY <2>3, <2>4 DEF Inherits
<1>5. CASE LOS_MuxCreate(m)
  <2> DEFINE r == [used |-> TRUE, count |-> 0, owner |-> NoTask, prio |-> 0]
  <2>1. mux' = [mux EXCEPT ![m] = r] /\ mux[m].count = 0
    BY <1>3, <1>5 DEF LOS_MuxCreate
  <2>2. r \in MuxCB /\ r.count = 0
    BY LowestAssumption DEF MuxCB, Pri
  <2> HIDE DEF r
  <2> QED BY <1>4, <2>1, <2>2
<1>6. CASE LOS_MuxDelete(m)
  <2> DEFINE r == [mux[m] EXCEPT !.used = FALSE]
  <2>1. mux' = [mux EXCEPT ![m] = r] /\ mux[m].count = 0
    BY <1>3, <1>6 DEF LOS_MuxDelete
  <2>2. r \in MuxCB /\ r.count = 0
    BY <1>3, <2>1 DEF MuxCB
  <2> HIDE DEF r
  <2> QED BY <1>4, <2>1, <2>2
<1>7. CASE LOS_MuxPendTake(m)
  <2>1. CASE mux[m].count = 0 /\ mux' = [mux EXCEPT ![m].count = 1, ![m].owner = t, ![m].prio = k.prio[t]]
    <3> DEFINE r == [mux[m] EXCEPT !.count = 1, !.owner = t, !.prio = k.prio[t]]
    <3>1. mux' = [mux EXCEPT ![m] = r]
      BY <1>3, <2>1
    <3>2. r \in MuxCB /\ r.count = 1 /\ r.owner = t
      BY <1>2, <1>3 DEF MuxCB
    <3>3. r.prio = k.prio[t]
      BY <1>2, <1>3 DEF MuxCB
    <3> HIDE DEF r
    <3>4. r.count > 0
      BY <3>2
    <3> QED BY <1>4, <2>1, <3>1, <3>2, <3>3, <3>4
  <2>2. CASE mux[m].count > 0 /\ mux' = [mux EXCEPT ![m].count = @ + 1]
    <3> DEFINE r == [mux[m] EXCEPT !.count = @ + 1]
    <3>1. mux' = [mux EXCEPT ![m] = r]
      BY <1>3, <2>2
    <3>2. r \in MuxCB /\ r.count > 0 /\ r.owner = mux[m].owner /\ r.prio = mux[m].prio
      BY <1>3 DEF MuxCB
    <3> HIDE DEF r
    <3> QED BY <1>4, <2>2, <3>1, <3>2
  <2> QED BY <1>1, <1>3, <1>7, <2>1, <2>2, MuxAssumption DEF LOS_MuxPendTake
<1>8. CASE LOS_MuxPost(m) /\ mux[m].count > 1
  <2> DEFINE r == [mux[m] EXCEPT !.count = @ - 1]
  <2>1. mux' = [mux EXCEPT ![m] = r]
    BY <1>3, <1>8 DEF LOS_MuxPost
  <2>2. r \in MuxCB /\ r.count > 0 /\ r.owner = mux[m].owner /\ r.prio = mux[m].prio
    BY <1>3, <1>8 DEF MuxCB
  <2> HIDE DEF r
  <2>3. mux[m].count > 0
    BY <1>3, <1>8
  <2> QED BY <1>4, <2>1, <2>2, <2>3
<1> QED BY <1>5, <1>6, <1>7, <1>8

\* A step that changes no priority and no control block.
LEMMA StillInherits ==
  ASSUME Inherits, k'.prio = k.prio, mux' = mux
  PROVE  Inherits'
BY DEF Inherits, PriorityRestored, Saved

\* LOS_MuxPend that has to wait: only the owner of the mutex inherits.
LEMMA PendWaitInherits ==
  ASSUME NEW P, HasMux(P), MuxInv(P), Inherits, NEW m \in Mux, NEW timeout \in Timeouts,
         LOS_MuxPendWait(m, timeout)
  PROVE  Inherits'
<1>1. PICK t : t = k.run
  OBVIOUS
<1>2. PICK o : o = mux[m].owner
  OBVIOUS
<1>3. PICK k1 : k1 = IF k.prio[o] > k.prio[t] THEN osTaskPriModify(k, o, k.prio[t]) ELSE k
  OBVIOUS
<1>4. /\ Calls("task", "MuxPend") /\ mux[m].count > 0 /\ k.lock = 0
      /\ k' = osTaskWait(k1, m, "PEND", timeout) /\ Goto("mux_schedule") /\ mux' = mux
  BY <1>1, <1>2, <1>3 DEF LOS_MuxPendWait
<1>5. /\ Points(P) /\ IInv(P) /\ MuxLocal /\ k \in Kernel /\ Sound(k)
      /\ m \in WaitList /\ "PEND" \in Waiting /\ timeout \in Nat
      /\ "mux_schedule" \in P.all /\ "mux_schedule" \in P.window /\ "mux_schedule" \notin PC
  BY MuxAssumption DEF HasMux, MuxInv, IInv, Typed, MuxAt, PC, Waiting
<1>6. /\ t \in TaskID /\ o \in Task /\ o \in TaskID /\ Task \subseteq TaskID
      /\ k.prio[t] \in Pri /\ \A u \in Task : k.prio[u] \in Pri
  <2>1. t \in TaskID
    BY <1>1, <1>4 DEF Calls, At
  <2>2. Owners(m)
    BY <1>5 DEF MuxLocal
  <2> QED BY <1>2, <1>4, <1>5, <2>1, <2>2 DEF Owners, TaskID, Kernel
<1>7. Repriced(k1) /\ k1.prio = IF k.prio[o] > k.prio[t] THEN [k.prio EXCEPT ![o] = k.prio[t]] ELSE k.prio
  <2>1. /\ Repriced(osTaskPriModify(k, o, k.prio[t]))
        /\ osTaskPriModify(k, o, k.prio[t]).prio = [k.prio EXCEPT ![o] = k.prio[t]]
    BY <1>5, <1>6, PriModifyRepriced, PriModifyPrio
  <2>2. Repriced(k)
    BY <1>5, SameRepriced
  <2> QED BY <1>3, <2>1, <2>2
<1>8. k'.prio = k1.prio
  BY <1>1, <1>4, <1>5, <1>7, Blocks
<1>9. k'.prio[o] <= k.prio[o] /\ \A u \in Task \ {o} : k'.prio[u] = k.prio[u]
  <2>1. k.prio \in [TaskID -> Pri] /\ Pri \subseteq Nat
    BY <1>5, LowestAssumption DEF Kernel, Pri
  <2>2. CASE k.prio[o] > k.prio[t]
    <3>1. k'.prio = [k.prio EXCEPT ![o] = k.prio[t]]
      BY <1>7, <1>8, <2>2
    <3>2. k'.prio[o] = k.prio[t] /\ \A u \in Task \ {o} : k'.prio[u] = k.prio[u]
      BY <1>6, <2>1, <3>1
    <3>3. k.prio[t] \in Nat /\ k.prio[o] \in Nat
      BY <1>6, <2>1
    <3> QED BY <2>2, <3>2, <3>3
  <2>3. CASE ~(k.prio[o] > k.prio[t])
    <3>1. k'.prio = k.prio
      BY <1>7, <1>8, <2>3
    <3>2. k.prio[o] \in Nat
      BY <1>6, <2>1
    <3> QED BY <3>1, <3>2
  <2> QED BY <2>2, <2>3
<1>10. PriorityRestored'
  <2> SUFFICES ASSUME NEW u \in Task
               PROVE  /\ k'.prio[u] <= BootPrio(u)
                      /\ (\A x \in Mux : mux[x].count = 0 \/ mux[x].owner # u) => k'.prio[u] = BootPrio(u)
    BY <1>4 DEF PriorityRestored
  <2>1. CASE u # o
    BY <1>9, <2>1 DEF Inherits, PriorityRestored
  <2>2. CASE u = o
    <3>1. k.prio[o] <= BootPrio(o)
      BY <1>6 DEF Inherits, PriorityRestored
    <3>2. k'.prio[o] <= BootPrio(o)
      <4>1. k.prio[o] \in Nat /\ k'.prio[o] \in Nat
        <5>1. Pri \subseteq Nat
          BY LowestAssumption DEF Pri
        <5>2. k.prio \in [TaskID -> Pri]
          BY <1>5 DEF Kernel
        <5> QED BY <1>6, <1>7, <1>8, <5>1, <5>2
      <4>2. BootPrio(o) \in Nat
        BY <1>6, BootPrioType
      <4> QED BY <1>9, <3>1, <4>1, <4>2
    <3>3. ~(mux[m].count = 0 \/ mux[m].owner # o)
      BY <1>2, <1>4
    <3> QED BY <2>2, <3>2, <3>3
  <2> QED BY <2>1, <2>2
<1>11. Saved'
  BY <1>4 DEF Inherits, Saved
<1> QED BY <1>10, <1>11 DEF Inherits

\* LOS_MuxPend goes on to LOS_Schedule, and returns: no priority changes.
LEMMA PendReturnPrio ==
  ASSUME k \in Kernel, MuxPendSchedule \/ MuxPendReturn
  PROVE  k'.prio = k.prio /\ mux' = mux
<1>1. CASE MuxPendSchedule
  BY <1>1 DEF MuxPendSchedule, LOS_Schedule, Kernel
<1>2. CASE MuxPendReturn
  BY <1>2 DEF MuxPendReturn, ClearFlags, Kernel
<1> QED BY <1>1, <1>2

\* The last unlock: the owner is back at its own priority, and the mutex
\* keeps that of the next owner.
LEMMA PostInherits ==
  ASSUME NEW P, HasMux(P), MuxInv(P), Inherits, OneAtATime', NEW m \in Mux,
         LOS_MuxPost(m), ~(mux[m].count > 1)
  PROVE  Inherits'
<1>1. PICK t : t = k.run
  OBVIOUS
<1>2. PICK k1 : k1 = PriRestored(m)
  OBVIOUS
<1>3. PICK h : h = Head(k.list[m])
  OBVIOUS
<1>4. /\ Calls("task", "MuxPost") /\ mux[m].count > 0 /\ mux[m].owner = t
      /\ k.list[m] = <<>> => mux' = [mux EXCEPT ![m].count = 0] /\ k' = k1
      /\ k.list[m] # <<>> => /\ mux' = HandOver(m)
                             /\ ThenSchedule("task", osTaskWake(k1, h, "PEND"))
  BY <1>1, <1>2, <1>3 DEF LOS_MuxPost, Owned, NextOwner, ThenReturn
<1>5. /\ Points(P) /\ IInv(P) /\ MuxLocal /\ k \in Kernel /\ Sound(k)
      /\ mux \in [Mux -> MuxCB] /\ mux[m] \in MuxCB /\ Task \subseteq TaskID
  BY DEF HasMux, MuxInv, MuxLocal, MuxTyped, IInv, Typed, TaskID
<1>6. t \in Task /\ t \in TaskID
  BY <1>1, <1>4 DEF Calls, At, TaskID
<1>7. mux[m].prio = BootPrio(t) /\ mux[m].prio \in Pri
  BY <1>4, <1>5 DEF Inherits, Saved, MuxCB
<1>8. Repriced(k1) /\ k1.prio[t] = BootPrio(t) /\ \A u \in Task \ {t} : k1.prio[u] = k.prio[u]
  <2>1. /\ Repriced(osTaskPriModify(k, t, mux[m].prio))
        /\ osTaskPriModify(k, t, mux[m].prio).prio = [k.prio EXCEPT ![t] = mux[m].prio]
    BY <1>5, <1>6, <1>7, PriModifyRepriced, PriModifyPrio
  <2>2. Repriced(k)
    BY <1>5, SameRepriced
  <2>3. k.prio \in [TaskID -> Pri]
    BY <1>5 DEF Kernel
  <2>4. /\ k.prio[t] # mux[m].prio => k1 = osTaskPriModify(k, t, mux[m].prio)
        /\ k.prio[t] = mux[m].prio => k1 = k
    BY <1>1, <1>2 DEF PriRestored
  <2>5. CASE k.prio[t] # mux[m].prio
    BY <1>5, <1>6, <1>7, <2>1, <2>3, <2>4, <2>5
  <2>6. CASE k.prio[t] = mux[m].prio
    BY <1>7, <2>2, <2>4, <2>6
  <2> QED BY <2>5, <2>6
<1>9. \A u \in Task : BootPrio(u) \in Nat
  BY <1>5, BootPrioType
<1>10. ASSUME k'.prio = k1.prio, \A x \in Mux : x # m => mux'[x] = mux[x]
       PROVE  PriorityRestored'
  <2> SUFFICES ASSUME NEW u \in Task
               PROVE  /\ k1.prio[u] <= BootPrio(u)
                      /\ (\A x \in Mux : mux'[x].count = 0 \/ mux'[x].owner # u) => k1.prio[u] = BootPrio(u)
    BY <1>10 DEF PriorityRestored
  <2>1. CASE u = t
    BY <1>8, <1>9, <2>1
  <2>2. CASE u # t
    <3>1. k1.prio[u] = k.prio[u] /\ k.prio[u] <= BootPrio(u)
      BY <1>8, <2>2 DEF Inherits, PriorityRestored
    <3>2. ASSUME \A x \in Mux : mux'[x].count = 0 \/ mux'[x].owner # u
          PROVE  \A x \in Mux : mux[x].count = 0 \/ mux[x].owner # u
      BY <1>4, <1>10, <2>2, <3>2
    <3> QED BY <3>1, <3>2 DEF Inherits, PriorityRestored
  <2> QED BY <2>1, <2>2
<1>11. CASE k.list[m] = <<>>
  <2>1. /\ k' = k1 /\ mux'[m].count = 0
        /\ \A x \in Mux : x # m => mux'[x] = mux[x]
    BY <1>4, <1>5, <1>11 DEF MuxCB
  <2>2. Saved'
    BY <2>1 DEF Inherits, Saved
  <2> QED BY <1>10, <2>1, <2>2 DEF Inherits
<1>12. CASE k.list[m] # <<>>
  <2>1. mux' = HandOver(m) /\ ThenSchedule("task", osTaskWake(k1, h, "PEND"))
    BY <1>4, <1>12
  <2>2. h \in ToSet(k.list[m])
    <3>1. k.list[m] \in Seq(TaskID)
      BY <1>5, MuxAssumption DEF Kernel, ListHead
    <3>2. 1 \in DOMAIN k.list[m] /\ h = k.list[m][1]
      BY <1>3, <1>12, <3>1, EmptySeq, LenProperties
    <3> QED BY <3>2 DEF ToSet
  <2>3. h \in Task /\ h \in TaskID /\ "PEND" \in k.status[h] /\ pc[h] \in MuxAt
    BY <1>5, <2>2 DEF MuxLocal, MuxWaiters
  <2>4. k.status[h] \cap Waiting = {"PEND"} /\ "PEND" \in Waiting
    <3>1. TaskOK(k, h)
      BY <1>5, <2>3 DEF Sound
    <3> QED BY <2>3, <3>1 DEF TaskOK, Waiting
  <2>5. k'.prio = k1.prio
    BY <1>4, <1>5, <1>8, <2>1, <2>3, <2>4, CallServes
  <2>6. /\ mux'[m].count = mux[m].count /\ mux'[m].owner = h /\ mux'[m].prio = k.prio[h]
        /\ \A x \in Mux : x # m => mux'[x] = mux[x]
    <3> DEFINE r == [mux[m] EXCEPT !.owner = h, !.prio = k.prio[h]]
    <3>1. mux' = [mux EXCEPT ![m] = r]
      BY <1>3, <1>5, <2>1 DEF HandOver
    <3>2. r.count = mux[m].count /\ r.owner = h /\ r.prio = k.prio[h]
      BY <1>5 DEF MuxCB
    <3> HIDE DEF r
    <3> QED BY <1>5, <3>1, <3>2
  <2>7. h # t
    BY <1>1, <1>4, <2>3 DEF Calls, At, MuxAt
  <2>8. \A x \in Mux : ~Owns(h, x)
    <3> SUFFICES ASSUME NEW x \in Mux, Owns(h, x) PROVE FALSE
      OBVIOUS
    <3>1. x # m
      BY <1>4, <2>7 DEF Owns
    <3>2. Owns(h, m)' /\ Owns(h, x)'
      BY <1>4, <2>6, <3>1 DEF Owns
    <3> QED BY <2>3, <3>1, <3>2 DEF OneAtATime
  <2>9. k.prio[h] = BootPrio(h)
    <3>1. \A x \in Mux : mux[x].count \in Nat
      BY <1>5 DEF MuxCB
    <3> QED BY <2>3, <2>8, <3>1 DEF Inherits, PriorityRestored, Owns
  <2>10. Saved'
    <3> SUFFICES ASSUME NEW x \in Mux, mux'[x].count > 0
                 PROVE  mux'[x].prio = BootPrio(mux'[x].owner)
      BY DEF Saved
    <3> QED BY <2>6, <2>9 DEF Inherits, Saved
  <2> QED BY <1>10, <2>5, <2>6, <2>10 DEF Inherits
<1> QED BY <1>11, <1>12

\* Every step keeps the priorities and those the mutexes keep as they should be.
LEMMA InheritsStep ==
  ASSUME ~IsrRaces, NEW P, HasMux(P), MuxInv(P), FixedPriorities, Inherits, OneAtATime',
         [MuxNext]_muxVars
  PROVE  Inherits'
<1>0. k \in Kernel
  BY DEF MuxInv, IInv, Typed
<1>1. CASE MuxCallNext
  BY <1>0, <1>1, BlockInherits, PendWaitInherits, PendReturnPrio, StillInherits, PostInherits
     DEF MuxCallNext
<1>2. CASE [Next]_vars /\ UNCHANGED <<mux, on, holds>>
  BY <1>0, <1>2, PrioKept, StillInherits
<1> QED BY <1>1, <1>2 DEF MuxNext, muxVars, vars

-----------------------------------------------------------------------------
(* The guarantees *)

\* Priority inheritance and the hand-over of a mutex leave the ready queue,
\* the lists and the status words consistent.
THEOREM MuxConsistent ==
  ASSUME ~IsrRaces
  PROVE  MuxSpec => []KernelConsistent
<1>1. MuxInv(MuxPoints) => KernelConsistent
  <2> SUFFICES ASSUME MuxInv(MuxPoints) PROVE KernelOK(k)
    BY DEF KernelConsistent
  <2> QED BY SoundConsistent DEF MuxInv, IInv, Typed, Dispatch
<1> QED BY <1>1, MuxInvariance, PTL

\* Mutual exclusion: a task that LOS_MuxPend returned LOS_OK to, and that has
\* not posted as often, is the owner, with the lock count it knows of, even
\* when the hand-over of LOS_MuxPost raced with the time limit of the call.
THEOREM MutexesExclude ==
  ASSUME ~IsrRaces
  PROVE  MuxSpec => []MutualExclusion
<1>1. MuxInv(MuxPoints) => MutualExclusion
  BY DEF MuxInv, MuxLocal, Owners, MutualExclusion
<1> QED BY <1>1, MuxInvariance, PTL

\* A mutex that tasks wait for has an owner, who does not wait for it itself
\* and knows, or is about to be told, that the mutex is its own.
THEOREM WaitersAreServed ==
  ASSUME ~IsrRaces
  PROVE  MuxSpec => []WaitersHaveOwner
<1>1. MuxInv(MuxPoints) => WaitersHaveOwner
  <2> SUFFICES ASSUME MuxInv(MuxPoints), NEW m \in Mux, k.list[m] # <<>>
               PROVE  /\ mux[m].used /\ mux[m].count > 0
                      /\ mux[m].owner \notin ToSet(k.list[m])
                      /\ holds[mux[m].owner][m] > 0 \/ Granted(mux[m].owner, m)
    BY DEF WaitersHaveOwner, Granted, MuxAt
  <2>1. Owners(m) /\ MuxWaiters /\ MuxTyped
    BY DEF MuxInv, MuxLocal
  <2>2. PICK o : o = mux[m].owner
    OBVIOUS
  <2>3. /\ mux[m].used /\ mux[m].count > 0 /\ o \in Task
        /\ holds[o][m] > 0 \/ Granted(o, m)
    BY <2>1, <2>2 DEF Owners
  <2>4. o \notin ToSet(k.list[m])
    <3>1. CASE Granted(o, m)
      BY <3>1 DEF Granted
    <3>2. CASE holds[o][m] > 0
      <4>1. ~(pc[o] \in MuxAt /\ on[o] = m)
        BY <2>1, <2>3, <3>2 DEF Owners
      <4> QED BY <2>1, <4>1 DEF MuxWaiters
    <3> QED BY <2>3, <3>1, <3>2
  <2> QED BY <2>2, <2>3, <2>4
<1> QED BY <1>1, MuxInvariance, PTL

\* Inheritance ends with the lock: a task that owns no mutex has the priority
\* it was created with, and no task is ever less urgent than that, in every
\* run in which no task holds two mutexes at a time.
THEOREM InheritanceEnds ==
  ASSUME ~IsrRaces, FixedPriorities
  PROVE  MuxSpec /\ []OneAtATime => []PriorityRestored
<1>0. HasMux(MuxPoints)
  BY DEF HasMux, Points, MuxPoints, MuxAt, PC
<1>1. MuxInit => Inherits
  <2> SUFFICES ASSUME MuxInit PROVE Inherits
    OBVIOUS
  <2>1. \A t \in Task : k.prio[t] = BootPrio(t) /\ BootPrio(t) \in Nat
    BY BootPrioType DEF MuxInit, Init, KernelInit, TaskID
  <2>2. \A m \in Mux : mux[m].count = 0
    BY DEF MuxInit
  <2> QED BY <2>1, <2>2 DEF Inherits, PriorityRestored, Saved
<1>2. MuxInv(MuxPoints) /\ Inherits /\ OneAtATime' /\ [MuxNext]_muxVars => Inherits'
  BY <1>0, InheritsStep
<1>3. Inherits => PriorityRestored
  BY DEF Inherits
<1> QED BY <1>1, <1>2, <1>3, MuxInvariance, PTL DEF MuxSpec

\* With a single mutex the condition of InheritanceEnds always holds.
THEOREM SingleMutexRestores ==
  ASSUME ~IsrRaces, FixedPriorities, \A m, n \in Mux : m = n
  PROVE  MuxSpec => []PriorityRestored
<1>1. MuxInv(MuxPoints) => OneAtATime
  BY DEF OneAtATime
<1> QED BY <1>1, MuxInvariance, InheritanceEnds, PTL

-----------------------------------------------------------------------------
(***************************************************************************)
(* Message queues                                                          *)
(***************************************************************************)

(* The ring buffer *)

\* The n messages of a ring of len slots whose first one is in slot head.
Ring(node, head, len, n) == [i \in 1 .. n |-> node[(head + i - 1) % len]]

\* A ring with message m in slot i.
Stored(node, i, m) == [node EXCEPT ![i] = m]

\* An index that has passed the end once.
LEMMA Wrap ==
  ASSUME NEW len \in Nat \ {0}, NEW x, x \in 0 .. 2 * len - 1
  PROVE  x % len = IF x < len THEN x ELSE x - len
<1>1. PICK y \in 0 .. 2 * len - 1 : y = x
  OBVIOUS
<1>2. y % len = IF y < len THEN y ELSE y - len
  OBVIOUS
<1> QED BY <1>1, <1>2

\* Reading takes the first message.
LEMMA RingGet ==
  ASSUME NEW node \in [Slot -> Message], NEW len \in Nat \ {0}, NEW head \in 0 .. len - 1, NEW n \in 1 .. len,
         0 .. len - 1 \subseteq Slot
  PROVE  /\ Ring(node, head, len, n) # <<>>
         /\ Head(Ring(node, head, len, n)) = node[head]
         /\ Tail(Ring(node, head, len, n)) = Ring(node, After(head, len), len, n - 1)
         /\ After(head, len) \in 0 .. len - 1
         /\ (After(head, len) + (n - 1)) % len = (head + n) % len
<1> DEFINE r == Ring(node, head, len, n)
           f == After(head, len)
           s == Ring(node, f, len, n - 1)
<1>1. /\ f \in 0 .. len - 1 /\ f = IF head + 1 = len THEN 0 ELSE head + 1
  BY DEF After
<1> HIDE DEF f
<1>2. \A i \in 1 .. n : (head + i - 1) % len = IF head + i - 1 < len THEN head + i - 1 ELSE head + i - 1 - len
  <2> SUFFICES ASSUME NEW i \in 1 .. n
               PROVE  (head + i - 1) % len = IF head + i - 1 < len THEN head + i - 1 ELSE head + i - 1 - len
    OBVIOUS
  <2>1. head + i - 1 \in 0 .. 2 * len - 1
    OBVIOUS
  <2> QED BY <2>1, Wrap
<1>3. \A i \in 1 .. n - 1 : (f + i - 1) % len = IF f + i - 1 < len THEN f + i - 1 ELSE f + i - 1 - len
  <2> SUFFICES ASSUME NEW i \in 1 .. n - 1
               PROVE  (f + i - 1) % len = IF f + i - 1 < len THEN f + i - 1 ELSE f + i - 1 - len
    OBVIOUS
  <2>1. f + i - 1 \in 0 .. 2 * len - 1
    BY <1>1
  <2> QED BY <1>1, <2>1, Wrap
<1>4. \A i \in 1 .. n : (head + i - 1) % len \in 0 .. len - 1
  BY <1>2
<1>5. \A i \in 1 .. n - 1 : (f + i - 1) % len = (head + (i + 1) - 1) % len /\ i + 1 \in 1 .. n
  BY <1>1, <1>2, <1>3
<1>6. (head + 1 - 1) % len = head
  BY <1>2
<1>7. r \in Seq(Message) /\ Len(r) = n /\ \A i \in 1 .. n : r[i] = node[(head + i - 1) % len]
  BY <1>4 DEF Ring
<1>8. s \in Seq(Message) /\ Len(s) = n - 1 /\ \A i \in 1 .. n - 1 : s[i] = node[(f + i - 1) % len]
  <2>1. \A i \in 1 .. n - 1 : (f + i - 1) % len \in 0 .. len - 1
    BY <1>4, <1>5
  <2> QED BY <2>1 DEF Ring
<1> HIDE DEF r, s
<1>9. r # <<>> /\ Head(r) = r[1] /\ 1 \in 1 .. n
  BY <1>7, EmptySeq, HeadTailProperties
<1>10. Head(r) = node[head]
  BY <1>6, <1>7, <1>9
<1>11. /\ Tail(r) \in Seq(Message) /\ Len(Tail(r)) = n - 1
       /\ \A i \in 1 .. n - 1 : Tail(r)[i] = r[i + 1]
  BY <1>7, <1>9, HeadTailProperties
<1>12. \A i \in 1 .. n - 1 : Tail(r)[i] = s[i]
  <2> SUFFICES ASSUME NEW i \in 1 .. n - 1 PROVE Tail(r)[i] = s[i]
    OBVIOUS
  <2>1. i + 1 \in 1 .. n /\ (f + i - 1) % len = (head + (i + 1) - 1) % len
    BY <1>5
  <2>2. r[i + 1] = node[(head + (i + 1) - 1) % len]
    BY <1>7, <2>1
  <2> QED BY <1>8, <1>11, <2>1, <2>2
<1>13. Tail(r) = s
  BY <1>8, <1>11, <1>12, SeqEqual
<1>14. (f + (n - 1)) % len = (head + n) % len
  <2>1. (head + n) % len = IF head + n < len THEN head + n ELSE head + n - len
    <3>1. head + n \in 0 .. 2 * len - 1
      OBVIOUS
    <3> QED BY <3>1, Wrap
  <2>2. (f + (n - 1)) % len = IF f + (n - 1) < len THEN f + (n - 1) ELSE f + (n - 1) - len
    <3>1. f + (n - 1) \in 0 .. 2 * len - 1
      BY <1>1
    <3> QED BY <1>1, <3>1, Wrap
  <2> QED BY <1>1, <2>1, <2>2
<1> QED BY <1>1, <1>9, <1>10, <1>13, <1>14 DEF r, f, s

\* Writing at the tail adds a message at the end.
LEMMA RingPut ==
  ASSUME NEW node \in [Slot -> Message], NEW len \in Nat \ {0}, NEW head \in 0 .. len - 1, NEW n \in 0 .. len - 1,
         0 .. len - 1 \subseteq Slot,
         NEW m \in Message, NEW tail, tail = (head + n) % len, NEW new, new = Stored(node, tail, m),
         NEW before, before = Ring(node, head, len, n), NEW after, after = Ring(new, head, len, n + 1)
  PROVE  /\ after = Append(before, m)
         /\ tail \in 0 .. len - 1
         /\ After(tail, len) = (head + (n + 1)) % len
         /\ After(tail, len) \in 0 .. len - 1
<1> DEFINE r == Ring(node, head, len, n)
           s == Ring(new, head, len, n + 1)
<1>1. \A i \in 0 .. n + 1 : (head + i) % len = IF head + i < len THEN head + i ELSE head + i - len
  <2> SUFFICES ASSUME NEW i \in 0 .. n + 1
               PROVE  (head + i) % len = IF head + i < len THEN head + i ELSE head + i - len
    OBVIOUS
  <2>1. head + i \in 0 .. 2 * len - 1
    OBVIOUS
  <2> QED BY <2>1, Wrap
<1>2. /\ n \in 0 .. n + 1 /\ n + 1 \in 0 .. n + 1 /\ tail \in 0 .. len - 1
      /\ tail = IF head + n < len THEN head + n ELSE head + n - len
  BY <1>1
<1>3. After(tail, len) = (head + (n + 1)) % len /\ After(tail, len) \in 0 .. len - 1
  BY <1>1, <1>2 DEF After
<1>4. \A i \in 1 .. n : (head + i - 1) % len \in 0 .. len - 1 /\ (head + i - 1) % len # tail
  <2> SUFFICES ASSUME NEW i \in 1 .. n
               PROVE  (head + i - 1) % len \in 0 .. len - 1 /\ (head + i - 1) % len # tail
    OBVIOUS
  <2>1. i - 1 \in 0 .. n + 1 /\ head + (i - 1) = head + i - 1
    OBVIOUS
  <2>2. (head + i - 1) % len = IF head + i - 1 < len THEN head + i - 1 ELSE head + i - 1 - len
    BY <1>1, <2>1
  <2> QED BY <1>2, <2>2
<1>5. (head + (n + 1) - 1) % len = tail
  <2>1. head + (n + 1) - 1 = head + n
    OBVIOUS
  <2> QED BY <2>1
<1>6. new \in [Slot -> Message] /\ new[tail] = m /\ \A j \in 0 .. len - 1 : j # tail => new[j] = node[j]
  BY <1>2 DEF Stored
<1>7. r \in Seq(Message) /\ Len(r) = n /\ \A i \in 1 .. n : r[i] = node[(head + i - 1) % len]
  BY <1>4 DEF Ring
<1>8. \A i \in 1 .. n + 1 : new[(head + i - 1) % len] = IF i = n + 1 THEN m ELSE r[i]
  <2> SUFFICES ASSUME NEW i \in 1 .. n + 1
               PROVE  new[(head + i - 1) % len] = IF i = n + 1 THEN m ELSE r[i]
    OBVIOUS
  <2>1. CASE i = n + 1
    BY <1>5, <1>6, <2>1
  <2>2. CASE i # n + 1
    <3>1. i \in 1 .. n
      BY <2>2
    <3> QED BY <1>4, <1>6, <1>7, <2>2, <3>1
  <2> QED BY <2>1, <2>2
<1>9. /\ \A i \in 1 .. n + 1 : s[i] = IF i = n + 1 THEN m ELSE r[i]
      /\ s \in Seq(Message) /\ Len(s) = n + 1
  <2>1. s = [i \in 1 .. n + 1 |-> new[(head + i - 1) % len]]
    BY DEF Ring
  <2> HIDE DEF s, r
  <2>2. \A i \in 1 .. n + 1 : (IF i = n + 1 THEN m ELSE r[i]) \in Message
    BY <1>7
  <2>3. \A i \in 1 .. n + 1 : s[i] = IF i = n + 1 THEN m ELSE r[i]
    BY <1>8, <2>1
  <2>4. s \in [1 .. n + 1 -> Message]
    BY <2>1, <2>2, <1>8
  <2> QED BY <2>3, <2>4
<1> HIDE DEF r, s
<1>10. /\ Append(r, m) \in Seq(Message) /\ Len(Append(r, m)) = n + 1
       /\ \A i \in 1 .. n + 1 : Append(r, m)[i] = IF i = n + 1 THEN m ELSE r[i]
  BY <1>7, AppendProperties
<1>11. s = Append(r, m)
  BY <1>9, <1>10, SeqEqual
<1> QED BY <1>2, <1>3, <1>11 DEF r, s

\* Writing at the head adds a message in front of the others.
LEMMA RingPutFirst ==
  ASSUME NEW node \in [Slot -> Message], NEW len \in Nat \ {0}, NEW head \in 0 .. len - 1, NEW n \in 0 .. len - 1,
         0 .. len - 1 \subseteq Slot,
         NEW m \in Message, NEW h, h = Before(head, len), NEW new, new = Stored(node, h, m),
         NEW before, before = Ring(node, head, len, n), NEW after, after = Ring(new, h, len, n + 1)
  PROVE  /\ after = <<m>> \o before
         /\ h \in 0 .. len - 1
         /\ (h + (n + 1)) % len = (head + n) % len
<1> DEFINE r == Ring(node, head, len, n)
           s == Ring(new, h, len, n + 1)
<1>1. h \in 0 .. len - 1 /\ h = IF head = 0 THEN len - 1 ELSE head - 1
  BY DEF Before
<1>2. ASSUME NEW i \in 0 .. n
      PROVE  /\ (head + i) % len = IF head + i < len THEN head + i ELSE head + i - len
             /\ (h + i) % len = IF h + i < len THEN h + i ELSE h + i - len
             /\ (h + (i + 1)) % len = (head + i) % len
  <2>2. (head + i) % len = IF head + i < len THEN head + i ELSE head + i - len
    <3>1. head + i \in 0 .. 2 * len - 1
      OBVIOUS
    <3> QED BY <3>1, Wrap
  <2>3. (h + i) % len = IF h + i < len THEN h + i ELSE h + i - len
    <3>1. h + i \in 0 .. 2 * len - 1
      BY <1>1
    <3> QED BY <1>1, <3>1, Wrap
  <2>4. (h + (i + 1)) % len = IF h + (i + 1) < len THEN h + (i + 1) ELSE h + (i + 1) - len
    <3>1. h + (i + 1) \in 0 .. 2 * len - 1
      BY <1>1
    <3> QED BY <1>1, <3>1, Wrap
  <2> QED BY <1>1, <2>2, <2>3, <2>4
<1>3. \A i \in 1 .. n : /\ (head + i - 1) % len \in 0 .. len - 1 /\ (head + i - 1) % len # h
                        /\ (h + (i + 1) - 1) % len = (head + i - 1) % len
  <2> SUFFICES ASSUME NEW i \in 1 .. n
               PROVE  /\ (head + i - 1) % len \in 0 .. len - 1 /\ (head + i - 1) % len # h
                      /\ (h + (i + 1) - 1) % len = (head + i - 1) % len
    OBVIOUS
  <2>1. i - 1 \in 0 .. n /\ head + (i - 1) = head + i - 1 /\ h + ((i - 1) + 1) = h + (i + 1) - 1
    BY <1>1
  <2>2. /\ (head + i - 1) % len = IF head + i - 1 < len THEN head + i - 1 ELSE head + i - 1 - len
        /\ (h + (i + 1) - 1) % len = (head + i - 1) % len
    BY <1>2, <2>1
  <2> QED BY <1>1, <2>2
<1>4. (h + 1 - 1) % len = h
  <2>1. 0 \in 0 .. n /\ h + 0 = h /\ h + 1 - 1 = h /\ h < len
    BY <1>1
  <2>2. (h + 0) % len = IF h + 0 < len THEN h + 0 ELSE h + 0 - len
    BY <1>2, <2>1
  <2> QED BY <2>1, <2>2
<1>5. new \in [Slot -> Message] /\ new[h] = m /\ \A j \in 0 .. len - 1 : j # h => new[j] = node[j]
  BY <1>1 DEF Stored
<1>6. r \in Seq(Message) /\ Len(r) = n /\ \A i \in 1 .. n : r[i] = node[(head + i - 1) % len]
  BY <1>3 DEF Ring
<1>7. \A i \in 1 .. n + 1 : new[(h + i - 1) % len] = IF i = 1 THEN m ELSE r[i - 1]
  <2> SUFFICES ASSUME NEW i \in 1 .. n + 1
               PROVE  new[(h + i - 1) % len] = IF i = 1 THEN m ELSE r[i - 1]
    OBVIOUS
  <2>1. CASE i = 1
    BY <1>4, <1>5, <2>1
  <2>2. CASE i # 1
    <3>1. i - 1 \in 1 .. n /\ h + ((i - 1) + 1) - 1 = h + i - 1 /\ head + (i - 1) - 1 \in Int
      BY <1>1, <2>2
    <3>2. /\ (head + (i - 1) - 1) % len \in 0 .. len - 1 /\ (head + (i - 1) - 1) % len # h
          /\ (h + i - 1) % len = (head + (i - 1) - 1) % len
      BY <1>3, <3>1
    <3>3. r[i - 1] = node[(head + (i - 1) - 1) % len]
      BY <1>6, <3>1
    <3> QED BY <1>5, <2>2, <3>2, <3>3
  <2> QED BY <2>1, <2>2
<1>8. /\ \A i \in 1 .. n + 1 : s[i] = IF i = 1 THEN m ELSE r[i - 1]
      /\ s \in Seq(Message) /\ Len(s) = n + 1
  <2>1. s = [i \in 1 .. n + 1 |-> new[(h + i - 1) % len]]
    BY DEF Ring
  <2> HIDE DEF s, r
  <2>2. \A i \in 1 .. n + 1 : (IF i = 1 THEN m ELSE r[i - 1]) \in Message
    BY <1>6
  <2>3. \A i \in 1 .. n + 1 : s[i] = IF i = 1 THEN m ELSE r[i - 1]
    BY <1>7, <2>1
  <2>4. s \in [1 .. n + 1 -> Message]
    BY <2>1, <2>2, <1>7
  <2> QED BY <2>3, <2>4
<1> HIDE DEF r, s
<1>9. /\ <<m>> \o r \in Seq(Message) /\ Len(<<m>> \o r) = n + 1
      /\ \A i \in 1 .. n + 1 : (<<m>> \o r)[i] = IF i = 1 THEN m ELSE r[i - 1]
  BY <1>6
<1>10. s = <<m>> \o r
  BY <1>8, <1>9, SeqEqual
<1>11. (h + (n + 1)) % len = (head + n) % len
  <2>1. n \in 0 .. n
    OBVIOUS
  <2> QED BY <1>2, <2>1
<1> QED BY <1>1, <1>10, <1>11 DEF r, s

-----------------------------------------------------------------------------
(***************************************************************************)
(* The invariant.  As in LosTaskProofs, P is the points of the tasks' code *)
(* in the system that the queues are a part of.                            *)
(***************************************************************************)

QAt == {"queue_schedule", "queue_return"}

HasQueue(P) ==
  /\ Points(P) /\ QAt \subseteq P.all
  /\ "queue_schedule" \in P.window /\ "queue_return" \notin P.window

QueuePoints == [all |-> PC \cup QAt, window |-> {"schedule", "exit", "queue_schedule"}, strict |-> TRUE]

QCB == [used : BOOLEAN, len : Nat, head : Nat, tail : Nat, node : [Slot -> Message],
        cnt : [Side -> Nat]]

\* (The idle task never waits for a message.)
QueueTyped ==
  /\ queue \in [Queue -> QCB]
  /\ \A q \in Queue : queue[q].used =>
       /\ queue[q].len \in Lengths
       /\ queue[q].head \in 0 .. queue[q].len - 1 /\ queue[q].tail \in 0 .. queue[q].len - 1
  /\ call \in [Task -> [queue : Queue, op : Op, msg : Message]]
  /\ got \in [Queue -> Message]
  /\ pc[Idle] \notin QAt

\* The tasks on a list of a queue are blocked in a call on this queue and side.
QueueWaiters ==
  \A q \in Queue, side \in Side : \A t \in ToSet(k.list[ListOf(q, side)]) :
    /\ t \in Task /\ pc[t] \in QAt /\ "PEND_QUEUE" \in k.status[t]
    /\ call[t].queue = q /\ SideOf(call[t].op) = side

\* What tasks may read, or write, without waiting for each other: counted in
\* the control block, or promised.
Credit(q, side) == queue[q].cnt[side] + Cardinality(Promised(q, side))

\* The messages lie between head and tail.
Balanced ==
  \A q \in Queue :
    /\ queue[q].used =>
         /\ Credit(q, "read") + Credit(q, "write") = queue[q].len
         /\ queue[q].tail = (queue[q].head + Credit(q, "read")) % queue[q].len
    /\ ~queue[q].used => \A side \in Side : Promised(q, side) = {}

QueueLocal == QueueTyped /\ QueueWaiters /\ NobodyWaitsInVain /\ Balanced

QueueInv(P) == IInv(P) /\ QueueLocal

-----------------------------------------------------------------------------
(* Lists and credits *)

\* Each side of each queue has a list of its own.
LEMMA ListsApart ==
  /\ \A q \in Queue, side \in Side : ListOf(q, side) \in WaitList
  /\ \A q, r \in Queue : \A side, other \in Side :
       ListOf(q, side) = ListOf(r, other) => q = r /\ side = other
BY QueueAssumption DEF ListOf, Side

\* Slots and places of a queue.
LEMMA SlotFacts ==
  \A n \in Lengths : n \in Nat \ {0} /\ 0 .. n - 1 \subseteq Slot
<1>1. MaxLength \in Lengths /\ \A m \in Lengths : m <= MaxLength
  BY QueueAssumption DEF MaxLength
<1>2. Lengths \subseteq Nat \ {0}
  BY QueueAssumption
<1> QED BY <1>1, <1>2 DEF Slot

\* There are finitely many promises.
LEMMA PromisedFinite ==
  ASSUME NEW q, NEW side
  PROVE  /\ IsFiniteSet(Promised(q, side)) /\ Cardinality(Promised(q, side)) \in Nat
         /\ Promised(q, side) \subseteq Task
         /\ Cardinality(Promised(q, side)) = 0 <=> Promised(q, side) = {}
<1>1. Promised(q, side) \subseteq Task /\ IsFiniteSet(Task)
  BY QueueAssumption DEF Promised
<1>2. IsFiniteSet(Promised(q, side))
  BY <1>1, FS_Subset
<1> QED BY <1>1, <1>2, FS_CardinalityType, FS_EmptySet

\* So are the promises after a step.
LEMMA PromisedFiniteNext ==
  ASSUME NEW q, NEW side
  PROVE  /\ IsFiniteSet(Promised(q, side)') /\ Cardinality(Promised(q, side)') \in Nat
         /\ Promised(q, side)' \subseteq Task
         /\ Cardinality(Promised(q, side)') = 0 <=> Promised(q, side)' = {}
<1>1. Promised(q, side)' \subseteq Task /\ IsFiniteSet(Task)
  BY QueueAssumption DEF Promised
<1>2. IsFiniteSet(Promised(q, side)')
  BY <1>1, FS_Subset
<1> QED BY <1>1, <1>2, FS_CardinalityType, FS_EmptySet

\* Credits are numbers.
LEMMA CreditType ==
  ASSUME QueueTyped, NEW q \in Queue, NEW side \in Side
  PROVE  /\ Credit(q, side) \in Nat /\ queue[q].cnt[side] \in Nat
         /\ queue[q].cnt[side] <= Credit(q, side)
         /\ Promised(q, side) # {} => Credit(q, side) > 0
<1>1. queue[q].cnt[side] \in Nat
  BY DEF QueueTyped, QCB
<1> QED BY <1>1, PromisedFinite DEF Credit

\* What no step of a call changes.
SamePromises == \A q \in Queue, side \in Side : Promised(q, side)' = Promised(q, side)

\* A step that leaves the queues and the promises alone.
LEMMA SameBalance ==
  ASSUME Balanced, queue' = queue, SamePromises
  PROVE  /\ Balanced'
         /\ \A q \in Queue, side \in Side : Credit(q, side)' = Credit(q, side)
<1>1. \A q \in Queue, side \in Side : Credit(q, side)' = Credit(q, side)
  BY DEF Credit, SamePromises
<1>2. "read" \in Side /\ "write" \in Side
  BY DEF Side
<1> QED BY <1>1, <1>2 DEF Balanced, SamePromises

-----------------------------------------------------------------------------
(* Steps that leave the control blocks alone *)

\* A step that touches no list of a queue and no blocked call.
LEMMA StillQueue ==
  ASSUME QueueLocal, Still({ListOf(q, side) : q \in Queue, side \in Side}, QAt),
         UNCHANGED <<queue, call, got>>
  PROVE  QueueLocal' /\ SamePromises
<1>1. \A q \in Queue, side \in Side : k'.list[ListOf(q, side)] = k.list[ListOf(q, side)]
  BY DEF Still
<1>2. ASSUME NEW t \in TaskID
      PROVE  \/ pc'[t] = pc[t] /\ k'.status[t] \cap Limbo = k.status[t] \cap Limbo
             \/ pc[t] \notin QAt /\ pc'[t] \notin QAt
  BY DEF Still
<1>3. ASSUME NEW t \in Task
      PROVE  /\ pc'[t] \in QAt <=> pc[t] \in QAt
             /\ pc[t] \in QAt => /\ "PEND_QUEUE" \in k'.status[t] <=> "PEND_QUEUE" \in k.status[t]
                                 /\ "TIMEOUT" \in k'.status[t] <=> "TIMEOUT" \in k.status[t]
  BY <1>2 DEF TaskID, Limbo, Waiting
<1>4. SamePromises
  <2> SUFFICES ASSUME NEW q \in Queue, NEW side \in Side, NEW t \in Task
               PROVE  t \in Promised(q, side)' <=> t \in Promised(q, side)
    BY DEF SamePromises, Promised
  <2> QED BY <1>3 DEF Promised, QAt
<1>5. QueueWaiters'
  BY <1>1, <1>3 DEF QueueLocal, QueueWaiters
<1>6. QueueTyped'
  BY <1>2 DEF QueueLocal, QueueTyped, TaskID
<1>7. NobodyWaitsInVain'
  BY <1>1 DEF QueueLocal, NobodyWaitsInVain
<1>8. Balanced'
  BY <1>4, SameBalance DEF QueueLocal
<1> QED BY <1>4, <1>5, <1>6, <1>7, <1>8 DEF QueueLocal

\* What the lists of the queues hold after a task has left them.
LEMMA QueueLists ==
  ASSUME k \in Kernel, ListsOK(k), NEW t \in TaskID, Leaves(t)
  PROVE  \A q \in Queue, side \in Side :
           /\ ToSet(k'.list[ListOf(q, side)]) = ToSet(k.list[ListOf(q, side)]) \ {t}
           /\ k'.list[ListOf(q, side)] # <<>> => k.list[ListOf(q, side)] # <<>>
<1> SUFFICES ASSUME NEW q \in Queue, NEW side \in Side
             PROVE  /\ ToSet(k'.list[ListOf(q, side)]) = ToSet(k.list[ListOf(q, side)]) \ {t}
                    /\ k'.list[ListOf(q, side)] # <<>> => k.list[ListOf(q, side)] # <<>>
  OBVIOUS
<1>1. {ListOf(q, side)} \in SUBSET WaitList
  BY ListsApart
<1> QED BY <1>1, LeavesLists

\* A time limit that passes, or a task that ends, promises nothing and takes
\* nothing that was promised.  (No task is deleted inside a call.)
LEMMA LeavesQueue ==
  ASSUME k \in Kernel, ListsOK(k), QueueLocal, NEW t \in Task, Expires(t) \/ Vanishes(t),
         UNCHANGED <<queue, call, got>>
  PROVE  QueueLocal' /\ SamePromises
<1>1. Leaves(t) /\ t \in TaskID
  BY DEF Expires, Vanishes, TaskID
<1>2. ASSUME NEW u \in Task \ {t}
      PROVE  /\ pc'[u] \in QAt <=> pc[u] \in QAt
             /\ pc[u] \in QAt => /\ "PEND_QUEUE" \in k'.status[u] <=> "PEND_QUEUE" \in k.status[u]
                                 /\ "TIMEOUT" \in k'.status[u] <=> "TIMEOUT" \in k.status[u]
  <2>1. /\ k'.status[u] \cap Limbo = k.status[u] \cap Limbo
        /\ pc'[u] = pc[u] \/ {pc[u], pc'[u]} \subseteq PC
    BY <1>1 DEF Leaves, TaskID
  <2> QED BY <2>1 DEF Limbo, Waiting, QAt, PC
<1>3. /\ pc'[t] \in QAt <=> pc[t] \in QAt
      /\ pc[t] \in QAt => (k'.status[t] \cap {"PEND_QUEUE", "TIMEOUT"} = {} <=>
                           k.status[t] \cap {"PEND_QUEUE", "TIMEOUT"} = {})
  <2>1. CASE Expires(t)
    BY <2>1 DEF Expires, Leaves, Waiting
  <2>2. CASE Vanishes(t)
    BY <2>2, QueueAssumption DEF Vanishes, QAt, PC
  <2> QED BY <2>1, <2>2
<1>4. SamePromises
  <2> SUFFICES ASSUME NEW q \in Queue, NEW side \in Side, NEW u \in Task
               PROVE  u \in Promised(q, side)' <=> u \in Promised(q, side)
    BY DEF SamePromises, Promised
  <2>1. CASE u = t
    BY <1>3, <2>1 DEF Promised, QAt
  <2>2. CASE u # t
    BY <1>2, <2>2 DEF Promised, QAt
  <2> QED BY <2>1, <2>2
<1>5. \A q \in Queue, side \in Side :
        /\ ToSet(k'.list[ListOf(q, side)]) = ToSet(k.list[ListOf(q, side)]) \ {t}
        /\ k'.list[ListOf(q, side)] # <<>> => k.list[ListOf(q, side)] # <<>>
  BY <1>1, QueueLists
<1>6. QueueWaiters'
  BY <1>2, <1>5 DEF QueueLocal, QueueWaiters
<1>7. QueueTyped'
  <2>1. Idle \in TaskID \ {t}
    BY TaskAssumption DEF TaskID
  <2>2. pc'[Idle] = pc[Idle] \/ pc'[Idle] \in PC
    BY <1>1, <2>1 DEF Leaves
  <2>3. pc'[Idle] \notin QAt
    BY <2>2 DEF QueueLocal, QueueTyped, QAt, PC
  <2> QED BY <2>3 DEF QueueLocal, QueueTyped
<1>8. NobodyWaitsInVain'
  BY <1>5 DEF QueueLocal, NobodyWaitsInVain
<1>9. Balanced'
  BY <1>4, SameBalance DEF QueueLocal
<1> QED BY <1>4, <1>6, <1>7, <1>8, <1>9 DEF QueueLocal

\* Every step of the task manager keeps the invariant, and every promise.
LEMMA TaskStepQueue ==
  ASSUME NEW P, HasQueue(P), QueueInv(P), ~IsrRaces,
         [Next]_vars, UNCHANGED <<queue, call, got>>
  PROVE  QueueInv(P)' /\ SamePromises
<1>1. Points(P) /\ IInv(P) /\ QueueLocal /\ k \in Kernel /\ ListsOK(k)
  BY DEF QueueInv, HasQueue, IInv, Typed, Sound
<1>2. IInv(P)'
  BY <1>1, StepInv
<1>3. CASE Quiet
  <2>1. {ListOf(q, side) : q \in Queue, side \in Side} \in SUBSET WaitList /\ QAt \cap PC = {}
    BY ListsApart DEF QAt, PC
  <2>2. Still({ListOf(q, side) : q \in Queue, side \in Side}, QAt)
    BY <1>3, <2>1, QuietStill
  <2> QED BY <1>1, <1>2, <2>2, StillQueue DEF QueueInv
<1>4. ASSUME NEW t \in Task, Expires(t) \/ Vanishes(t) PROVE QueueInv(P)' /\ SamePromises
  BY <1>1, <1>2, <1>4, LeavesQueue DEF QueueInv
<1> QED BY <1>1, <1>3, <1>4, StepWaits

-----------------------------------------------------------------------------
(* Creating and deleting a queue *)

\* What the two write into the control block.
LEMMA QueueCreateEffect ==
  ASSUME QueueLocal, NEW ctx, NEW q \in Queue, NEW len \in Lengths, LOS_QueueCreate(ctx, q, len)
  PROVE  /\ k' = k /\ pc' = pc /\ call' = call /\ got' = got /\ ~queue[q].used
         /\ \E r \in QCB : /\ queue' = [queue EXCEPT ![q] = r]
                           /\ r.used /\ r.len = len /\ r.head = 0 /\ r.tail = 0
                           /\ r.cnt["read"] = 0 /\ r.cnt["write"] = len
<1> DEFINE cnt == [s \in Side |-> IF s = "read" THEN 0 ELSE len]
           r == [queue[q] EXCEPT !.used = TRUE, !.len = len, !.head = 0, !.tail = 0, !.cnt = cnt]
<1>1. queue[q] \in QCB /\ len \in Nat /\ queue \in [Queue -> QCB]
  BY SlotFacts DEF QueueLocal, QueueTyped
<1>2. cnt \in [Side -> Nat] /\ cnt["read"] = 0 /\ cnt["write"] = len
  BY <1>1 DEF Side
<1>3. queue' = [queue EXCEPT ![q].used = TRUE, ![q].len = len, ![q].head = 0, ![q].tail = 0,
                             ![q].cnt = cnt]
  BY DEF LOS_QueueCreate
<1> HIDE DEF cnt
<1>4. /\ r \in QCB /\ r.used /\ r.len = len /\ r.head = 0 /\ r.tail = 0
      /\ r.cnt["read"] = 0 /\ r.cnt["write"] = len
  BY <1>1, <1>2 DEF QCB
<1>5. queue' = [queue EXCEPT ![q] = r]
  BY <1>1, <1>3 DEF QCB
<1>6. k' = k /\ pc' = pc /\ call' = call /\ got' = got /\ ~queue[q].used
  BY DEF LOS_QueueCreate
<1> HIDE DEF r
<1> QED BY <1>4, <1>5, <1>6

\* Deleting needs both lists empty and no credit promised, for the counters make up
\* the length.
LEMMA QueueDeleteEffect ==
  ASSUME QueueLocal, NEW ctx, NEW q \in Queue, LOS_QueueDelete(ctx, q)
  PROVE  /\ k' = k /\ pc' = pc /\ call' = call /\ got' = got /\ queue[q].used
         /\ \A side \in Side : k.list[ListOf(q, side)] = <<>> /\ Promised(q, side) = {}
         /\ \E r \in QCB : queue' = [queue EXCEPT ![q] = r] /\ ~r.used
<1> DEFINE r == [queue[q] EXCEPT !.used = FALSE, !.node = EmptyBuffer]
<1>1. queue[q] \in QCB /\ queue \in [Queue -> QCB] /\ QueueTyped
  BY DEF QueueLocal, QueueTyped
<1>2. EmptyBuffer \in [Slot -> Message]
  <2>1. AnyMessage \in Message
    BY QueueAssumption DEF AnyMessage
  <2> QED BY <2>1 DEF EmptyBuffer
<1>3. r \in QCB /\ ~r.used
  BY <1>1, <1>2 DEF QCB
<1>4. /\ queue' = [queue EXCEPT ![q].used = FALSE, ![q].node = EmptyBuffer]
      /\ k' = k /\ pc' = pc /\ call' = call /\ got' = got /\ queue[q].used
      /\ k.list[ReadList[q]] = <<>> /\ k.list[WriteList[q]] = <<>>
      /\ queue[q].cnt["read"] + queue[q].cnt["write"] = queue[q].len
  BY DEF LOS_QueueDelete
<1>5. queue' = [queue EXCEPT ![q] = r]
  BY <1>1, <1>4 DEF QCB
<1>6. \A side \in Side : Promised(q, side) = {}
  <2>1. Credit(q, "read") + Credit(q, "write") = queue[q].len
    BY <1>4 DEF QueueLocal, Balanced
  <2>2. "read" \in Side /\ "write" \in Side /\ Side = {"read", "write"}
    BY DEF Side
  <2>3. \A side \in Side : /\ Cardinality(Promised(q, side)) \in Nat /\ queue[q].cnt[side] \in Nat
                           /\ Cardinality(Promised(q, side)) = 0 <=> Promised(q, side) = {}
    BY <1>1, CreditType, PromisedFinite
  <2>4. Cardinality(Promised(q, "read")) = 0 /\ Cardinality(Promised(q, "write")) = 0
    BY SMTT(60), <1>4, <2>1, <2>2, <2>3 DEF Credit
  <2> QED BY <2>2, <2>3, <2>4
<1>7. \A side \in Side : k.list[ListOf(q, side)] = <<>>
  BY <1>4 DEF ListOf
<1>8. \E x \in QCB : queue' = [queue EXCEPT ![q] = x] /\ ~x.used
  BY <1>3, <1>5
<1> HIDE DEF r
<1> QED BY <1>4, <1>6, <1>7, <1>8

\* Neither breaks a promise: there are none for the queue.
LEMMA BlockQueueInv ==
  ASSUME NEW P, QueueInv(P), NEW ctx, NEW q \in Queue,
         (\E len \in Lengths : LOS_QueueCreate(ctx, q, len)) \/ LOS_QueueDelete(ctx, q)
  PROVE  QueueInv(P)' /\ SamePromises
<1>0. QueueLocal /\ IInv(P)
  BY DEF QueueInv
<1>1. PICK r \in QCB : /\ k' = k /\ pc' = pc /\ call' = call /\ got' = got
                       /\ queue' = [queue EXCEPT ![q] = r]
                       /\ \A side \in Side : k.list[ListOf(q, side)] = <<>> /\ Promised(q, side) = {}
                       /\ r.used => /\ r.len \in Lengths /\ r.head = 0 /\ r.tail = 0
                                    /\ r.cnt["read"] = 0 /\ r.cnt["write"] = r.len
  <2>1. ASSUME NEW len \in Lengths, LOS_QueueCreate(ctx, q, len)
        PROVE  \A side \in Side : k.list[ListOf(q, side)] = <<>> /\ Promised(q, side) = {}
    <3>1. ~queue[q].used
      BY <1>0, <2>1, QueueCreateEffect
    <3> QED BY <1>0, <3>1 DEF QueueLocal, NobodyWaitsInVain, Balanced
  <2>2. ASSUME NEW len \in Lengths, LOS_QueueCreate(ctx, q, len)
        PROVE  /\ k' = k /\ pc' = pc /\ call' = call /\ got' = got
               /\ \E r \in QCB : /\ queue' = [queue EXCEPT ![q] = r]
                                 /\ r.used /\ r.len = len /\ r.head = 0 /\ r.tail = 0
                                 /\ r.cnt["read"] = 0 /\ r.cnt["write"] = len
    BY <1>0, <2>2, QueueCreateEffect
  <2>3. CASE LOS_QueueDelete(ctx, q)
    <3>1. /\ k' = k /\ pc' = pc /\ call' = call /\ got' = got
          /\ \A side \in Side : k.list[ListOf(q, side)] = <<>> /\ Promised(q, side) = {}
          /\ \E r \in QCB : queue' = [queue EXCEPT ![q] = r] /\ ~r.used
      BY <1>0, <2>3, QueueDeleteEffect
    <3> QED BY <3>1
  <2> QED BY <2>1, <2>2, <2>3
<1>2. IInv(P)'
  BY <1>0, <1>1 DEF IInv, Typed
<1>3. SamePromises
  BY <1>1 DEF SamePromises, Promised
<1>4. queue \in [Queue -> QCB] /\ QueueTyped
  BY <1>0 DEF QueueLocal, QueueTyped
<1>5. /\ queue' \in [Queue -> QCB] /\ queue'[q] = r
      /\ \A x \in Queue \ {q} : queue'[x] = queue[x]
  BY <1>1, <1>4
<1>6. QueueTyped'
  <2>1. r.used => r.head \in 0 .. r.len - 1 /\ r.tail \in 0 .. r.len - 1
    BY <1>1, SlotFacts
  <2>2. \A x \in Queue : queue'[x].used =>
          /\ queue'[x].len \in Lengths
          /\ queue'[x].head \in 0 .. queue'[x].len - 1 /\ queue'[x].tail \in 0 .. queue'[x].len - 1
    BY <1>1, <1>4, <1>5, <2>1 DEF QueueTyped
  <2> QED BY <1>1, <1>4, <1>5, <2>2 DEF QueueTyped
<1>7. QueueWaiters'
  BY <1>0, <1>1 DEF QueueLocal, QueueWaiters
<1>8. NobodyWaitsInVain'
  BY <1>0, <1>1, <1>5 DEF QueueLocal, NobodyWaitsInVain
<1>9. Balanced'
  <2>1. \A x \in Queue \ {q} : \A side \in Side : Credit(x, side)' = Credit(x, side)
    BY <1>3, <1>5 DEF Credit, SamePromises
  <2>2. "read" \in Side /\ "write" \in Side
    BY DEF Side
  <2>3. \A side \in Side : Promised(q, side)' = {} /\ Cardinality(Promised(q, side)') = 0
    BY <1>1, <1>3, FS_EmptySet DEF SamePromises
  <2>4. r.used => Credit(q, "read")' = 0 /\ Credit(q, "write")' = r.len
    BY <1>1, <1>5, <2>2, <2>3, SlotFacts DEF Credit
  <2>5. r.used => r.len \in Nat \ {0} /\ 0 % r.len = 0
    BY <1>1, SlotFacts
  <2>6. \A x \in Queue \ {q} : /\ queue'[x] = queue[x]
                               /\ queue[x].used =>
                                    /\ Credit(x, "read")' + Credit(x, "write")' = queue[x].len
                                    /\ queue[x].tail = (queue[x].head + Credit(x, "read")') % queue[x].len
                               /\ ~queue[x].used => \A side \in Side : Promised(x, side)' = {}
    BY <1>0, <1>3, <1>5, <2>1, <2>2 DEF QueueLocal, Balanced, SamePromises
  <2> QED BY <1>1, <1>5, <2>3, <2>4, <2>5, <2>6 DEF Balanced
<1> QED BY <1>2, <1>3, <1>6, <1>7, <1>8, <1>9 DEF QueueInv, QueueLocal

-----------------------------------------------------------------------------
(* Waiting *)

\* A call that has to wait joins its list, and is promised nothing yet.
LEMMA OperateWaitInv ==
  ASSUME NEW P, HasQueue(P), QueueInv(P), NEW q \in Queue, NEW op \in Op, NEW m \in Message,
         NEW timeout \in CallTimeouts, OperateWait(q, op, m, timeout)
  PROVE  QueueInv(P)' /\ SamePromises /\ UNCHANGED <<queue, got>>
<1>1. PICK t : t = k.run
  OBVIOUS
<1>2. PICK side : side = SideOf(op)
  OBVIOUS
<1>3. /\ Calls("task", op) /\ k.lock = 0 /\ queue[q].used /\ queue[q].cnt[side] = 0
      /\ k' = osTaskWait(k, ListOf(q, side), "PEND_QUEUE", timeout) /\ Goto("queue_schedule")
      /\ call' = [call EXCEPT ![t] = [queue |-> q, op |-> op, msg |-> m]]
      /\ queue' = queue /\ got' = got
  BY <1>1, <1>2 DEF OperateWait
<1>4. /\ side \in Side /\ ListOf(q, side) \in WaitList /\ "PEND_QUEUE" \in Waiting /\ timeout \in Nat
      /\ "queue_schedule" \in P.all /\ "queue_schedule" \in P.window /\ "queue_schedule" \notin PC
  BY <1>2, QueueAssumption, ListsApart DEF Waiting, HasQueue, QAt, PC, SideOf, Side
<1>5. Repriced(k) /\ Points(P) /\ IInv(P) /\ QueueLocal
  BY SameRepriced DEF QueueInv, HasQueue
<1>6. /\ IInv(P)' /\ t \in Task /\ pc' = [pc EXCEPT ![t] = "queue_schedule"]
      /\ \A w \in WaitList :
           k'.list[w] = IF w = ListOf(q, side) THEN Append(k.list[w], t) ELSE k.list[w]
      /\ \A u \in CB \ {t} : k'.status[u] = k.status[u]
      /\ "PEND_QUEUE" \in k'.status[t]
  BY <1>1, <1>3, <1>4, <1>5, Blocks
<1>7. /\ pc[t] = "user" /\ t \in TaskID /\ t # Idle /\ pc \in [TaskID -> P.all] /\ k \in Kernel
      /\ call \in [Task -> [queue : Queue, op : Op, msg : Message]]
  BY <1>1, <1>3, <1>5, <1>6, TaskAssumption
     DEF Calls, At, IInv, Typed, TaskID, QueueLocal, QueueTyped
<1>8. /\ pc'[t] = "queue_schedule" /\ \A u \in Task \ {t} : pc'[u] = pc[u]
      /\ call'[t].queue = q /\ SideOf(call'[t].op) = side
      /\ \A u \in Task \ {t} : call'[u] = call[u] /\ k'.status[u] = k.status[u]
      /\ call' \in [Task -> [queue : Queue, op : Op, msg : Message]]
  BY <1>2, <1>3, <1>6, <1>7 DEF TaskID, CB
<1>9. SamePromises
  <2> SUFFICES ASSUME NEW r \in Queue, NEW s \in Side, NEW u \in Task
               PROVE  u \in Promised(r, s)' <=> u \in Promised(r, s)
    BY DEF SamePromises, Promised
  <2>1. CASE u = t
    BY <1>6, <1>7, <2>1 DEF Promised
  <2>2. CASE u # t
    BY <1>8, <2>2 DEF Promised
  <2> QED BY <2>1, <2>2
<1>10. \A r \in Queue, s \in Side :
         k'.list[ListOf(r, s)] = IF r = q /\ s = side THEN Append(k.list[ListOf(r, s)], t)
                                 ELSE k.list[ListOf(r, s)]
  BY <1>4, <1>6, ListsApart
<1>11. QueueWaiters'
  <2> SUFFICES ASSUME NEW r \in Queue, NEW s \in Side, NEW u \in ToSet(k'.list[ListOf(r, s)])
               PROVE  /\ u \in Task /\ pc'[u] \in QAt /\ "PEND_QUEUE" \in k'.status[u]
                      /\ call'[u].queue = r /\ SideOf(call'[u].op) = s
    BY DEF QueueWaiters
  <2>1. u \in ToSet(k.list[ListOf(r, s)]) \/ (u = t /\ r = q /\ s = side)
    <3>1. k.list[ListOf(r, s)] \in Seq(TaskID)
      BY <1>7, ListsApart DEF Kernel, ListHead
    <3>2. ToSet(Append(k.list[ListOf(r, s)], t)) = ToSet(k.list[ListOf(r, s)]) \cup {t}
      BY <1>7, <3>1, AppendFacts
    <3> QED BY <1>10, <3>2
  <2>2. CASE u = t /\ r = q /\ s = side
    BY <1>6, <1>8, <2>2 DEF QAt
  <2>3. CASE u \in ToSet(k.list[ListOf(r, s)])
    <3>1. /\ u \in Task /\ pc[u] \in QAt /\ "PEND_QUEUE" \in k.status[u]
          /\ call[u].queue = r /\ SideOf(call[u].op) = s
      BY <1>5, <2>3 DEF QueueLocal, QueueWaiters
    <3>2. u # t
      BY <1>7, <3>1 DEF QAt
    <3> QED BY <1>8, <3>1, <3>2
  <2> QED BY <2>1, <2>2, <2>3
<1>12. QueueTyped'
  <2>1. pc'[Idle] = pc[Idle]
    BY <1>6, <1>7 DEF TaskID
  <2> QED BY <1>3, <1>5, <1>8, <2>1 DEF QueueLocal, QueueTyped
<1>13. NobodyWaitsInVain'
  BY <1>3, <1>5, <1>10 DEF QueueLocal, NobodyWaitsInVain
<1>14. Balanced'
  BY <1>3, <1>5, <1>9, SameBalance DEF QueueLocal
<1> QED BY <1>3, <1>6, <1>9, <1>11, <1>12, <1>13, <1>14 DEF QueueInv, QueueLocal

\* It goes on to LOS_Schedule.
LEMMA OperateScheduleInv ==
  ASSUME NEW P, HasQueue(P), QueueInv(P), OperateSchedule
  PROVE  QueueInv(P)' /\ SamePromises /\ UNCHANGED <<queue, got>>
<1>1. PICK t : t = k.run
  OBVIOUS
<1>2. /\ Points(P) /\ IInv(P) /\ "queue_return" \in P.all /\ "queue_return" \notin PC /\ QueueLocal
      /\ pc \in [TaskID -> P.all]
  BY DEF QueueInv, HasQueue, QAt, PC, IInv, Typed
<1>3. /\ IInv(P)' /\ k'.list = k.list /\ k'.status = k.status /\ t \in TaskID
      /\ pc[t] = "queue_schedule" /\ pc' = [pc EXCEPT ![t] = "queue_return"]
  BY <1>1, <1>2, Goes DEF OperateSchedule
<1>4. queue' = queue /\ call' = call /\ got' = got
  BY DEF OperateSchedule
<1>5. \A u \in TaskID : pc'[u] \in QAt <=> pc[u] \in QAt
  BY <1>2, <1>3 DEF QAt
<1>6. SamePromises
  <2> SUFFICES ASSUME NEW r \in Queue, NEW s \in Side, NEW u \in Task
               PROVE  u \in Promised(r, s)' <=> u \in Promised(r, s)
    BY DEF SamePromises, Promised
  <2> QED BY <1>3, <1>4, <1>5 DEF Promised, QAt, TaskID
<1>7. QueueWaiters'
  BY <1>2, <1>3, <1>4, <1>5 DEF QueueLocal, QueueWaiters, TaskID
<1>8. QueueTyped'
  BY <1>2, <1>4, <1>5 DEF QueueLocal, QueueTyped, TaskID
<1>9. NobodyWaitsInVain'
  BY <1>2, <1>3, <1>4 DEF QueueLocal, NobodyWaitsInVain
<1>10. Balanced'
  BY <1>2, <1>4, <1>6, SameBalance DEF QueueLocal
<1> QED BY <1>3, <1>4, <1>6, <1>7, <1>8, <1>9, <1>10 DEF QueueInv, QueueLocal

\* NoCall is a call.
LEMMA NoCallType ==
  NoCall \in [queue : Queue, op : Op, msg : Message]
<1>1. AnyMessage \in Message /\ (CHOOSE q \in Queue : TRUE) \in Queue
  BY QueueAssumption DEF AnyMessage
<1> QED BY <1>1 DEF NoCall, Op

\* A call whose time limit has passed returns with nothing.
LEMMA TimeoutInv ==
  ASSUME NEW P, HasQueue(P), QueueInv(P), OperateReturn, "TIMEOUT" \in k.status[k.run]
  PROVE  QueueInv(P)' /\ SamePromises /\ UNCHANGED <<queue, got>>
<1>1. PICK t : t = k.run
  OBVIOUS
<1>2. /\ At("queue_return") /\ k' = ClearFlags(k, k.run, {"TIMEOUT"}) /\ Goto("user")
      /\ queue' = queue /\ got' = got /\ call' = [call EXCEPT ![t] = NoCall]
  BY <1>1 DEF OperateReturn
<1>3. /\ Points(P) /\ IInv(P) /\ "queue_return" \notin P.window /\ QueueLocal
      /\ pc \in [TaskID -> P.all] /\ call \in [Task -> [queue : Queue, op : Op, msg : Message]]
  BY DEF QueueInv, HasQueue, IInv, Typed, QueueLocal, QueueTyped
<1>4. /\ IInv(P)' /\ k'.list = k.list /\ t \in TaskID /\ pc[t] = "queue_return"
      /\ pc' = [pc EXCEPT ![t] = "user"]
      /\ \A u \in CB \ {t} : k'.status[u] = k.status[u]
      /\ k.status[t] \cap Waiting = {}
  BY <1>1, <1>2, <1>3, Returns
<1>5. /\ pc'[t] = "user" /\ \A u \in Task \ {t} : pc'[u] = pc[u]
      /\ \A u \in Task \ {t} : call'[u] = call[u] /\ k'.status[u] = k.status[u]
      /\ call' \in [Task -> [queue : Queue, op : Op, msg : Message]]
  BY <1>2, <1>3, <1>4, NoCallType DEF TaskID, CB
<1>6. SamePromises
  <2> SUFFICES ASSUME NEW r \in Queue, NEW s \in Side, NEW u \in Task
               PROVE  u \in Promised(r, s)' <=> u \in Promised(r, s)
    BY DEF SamePromises, Promised
  <2>1. CASE u = t
    <3>1. u \notin Promised(r, s)'
      BY <1>5, <2>1 DEF Promised
    <3>2. u \notin Promised(r, s)
      BY <1>1, <2>1 DEF Promised
    <3> QED BY <3>1, <3>2
  <2>2. CASE u # t
    BY <1>5, <2>2 DEF Promised
  <2> QED BY <2>1, <2>2
<1>7. QueueWaiters'
  <2> SUFFICES ASSUME NEW r \in Queue, NEW s \in Side, NEW u \in ToSet(k.list[ListOf(r, s)])
               PROVE  /\ u \in Task /\ pc'[u] \in QAt /\ "PEND_QUEUE" \in k'.status[u]
                      /\ call'[u].queue = r /\ SideOf(call'[u].op) = s
    BY <1>4 DEF QueueWaiters
  <2>1. /\ u \in Task /\ pc[u] \in QAt /\ "PEND_QUEUE" \in k.status[u]
        /\ call[u].queue = r /\ SideOf(call[u].op) = s
    BY <1>3 DEF QueueLocal, QueueWaiters
  <2>2. u # t
    BY <1>4, <2>1 DEF Waiting
  <2> QED BY <1>5, <2>1, <2>2
<1>8. QueueTyped'
  <2>1. pc'[Idle] = pc[Idle] \/ pc'[Idle] = "user"
    BY <1>3, <1>4 DEF TaskID
  <2>2. pc'[Idle] \notin QAt
    BY <1>3, <2>1 DEF QueueLocal, QueueTyped, QAt
  <2> QED BY <1>2, <1>3, <1>5, <2>2 DEF QueueLocal, QueueTyped
<1>9. NobodyWaitsInVain'
  BY <1>2, <1>3, <1>4 DEF QueueLocal, NobodyWaitsInVain
<1>10. Balanced'
  BY <1>2, <1>3, <1>6, SameBalance DEF QueueLocal
<1> QED BY <1>2, <1>4, <1>6, <1>7, <1>8, <1>9, <1>10 DEF QueueInv, QueueLocal

-----------------------------------------------------------------------------
(***************************************************************************)
(* Transfers.  A call that has what it waits for, or that finds a credit,  *)
(* uses the buffer and hands a credit to the other side.                   *)
(***************************************************************************)

\* What osQueueBufferOperate does to control block c.
BufferMoved(op, m, c, r) ==
  /\ r.used = c.used /\ r.len = c.len
  /\ op = "ReadHead" => r.head = After(c.head, c.len) /\ r.tail = c.tail /\ r.node = c.node
  /\ op = "WriteHead" => /\ r.head = Before(c.head, c.len) /\ r.tail = c.tail
                         /\ r.node = [c.node EXCEPT ![Before(c.head, c.len)] = m]
  /\ op = "WriteTail" => /\ r.head = c.head /\ r.tail = After(c.tail, c.len)
                         /\ r.node = [c.node EXCEPT ![c.tail] = m]

\* The slots next to a slot.
LEMMA NextSlot ==
  ASSUME NEW n \in Nat \ {0}, NEW i \in 0 .. n - 1
  PROVE  After(i, n) \in 0 .. n - 1 /\ Before(i, n) \in 0 .. n - 1
BY DEF After, Before

\* osQueueBufferOperate moves the buffer and keeps its type and the counters.
LEMMA BufferFacts ==
  ASSUME NEW c \in QCB, c.len \in Lengths, c.head \in 0 .. c.len - 1, c.tail \in 0 .. c.len - 1,
         NEW op \in Op, NEW m \in Message, NEW r, r = osQueueBufferOperate(c, op, m)
  PROVE  /\ r \in QCB /\ BufferMoved(op, m, c, r) /\ r.cnt = c.cnt
         /\ r.head \in 0 .. c.len - 1 /\ r.tail \in 0 .. c.len - 1
<1>1. c.len \in Nat \ {0} /\ 0 .. c.len - 1 \subseteq Slot
  BY SlotFacts
<1>2. PICK a : a = After(c.head, c.len)
  OBVIOUS
<1>3. PICK b : b = Before(c.head, c.len)
  OBVIOUS
<1>4. PICK z : z = After(c.tail, c.len)
  OBVIOUS
<1>5. a \in 0 .. c.len - 1 /\ b \in 0 .. c.len - 1 /\ z \in 0 .. c.len - 1
  BY <1>1, <1>2, <1>3, <1>4, NextSlot
<1>6. a \in Nat /\ b \in Nat /\ z \in Nat /\ b \in Slot /\ c.tail \in Slot
  BY <1>1, <1>5
<1>7. CASE op = "ReadHead"
  <2>1. r = [c EXCEPT !.head = a]
    BY <1>2, <1>7 DEF osQueueBufferOperate
  <2> QED BY <1>2, <1>5, <1>6, <1>7, <2>1 DEF QCB, BufferMoved
<1>8. CASE op = "WriteHead"
  <2>1. r = [c EXCEPT !.head = b, !.node[b] = m]
    BY <1>3, <1>8 DEF osQueueBufferOperate
  <2>2. c.node \in [Slot -> Message] /\ [c.node EXCEPT ![b] = m] \in [Slot -> Message]
    BY <1>6 DEF QCB
  <2>3. r = [c EXCEPT !.head = b, !.node = [c.node EXCEPT ![b] = m]]
    BY <2>1 DEF QCB
  <2>4. /\ r \in QCB /\ r.used = c.used /\ r.len = c.len /\ r.head = b /\ r.tail = c.tail
        /\ r.node = [c.node EXCEPT ![b] = m] /\ r.cnt = c.cnt
    BY <1>6, <2>2, <2>3 DEF QCB
  <2> QED BY <1>3, <1>5, <1>8, <2>4 DEF BufferMoved
<1>9. CASE op = "WriteTail"
  <2>1. r = [c EXCEPT !.tail = z, !.node[c.tail] = m]
    BY <1>4, <1>9 DEF osQueueBufferOperate
  <2>2. c.node \in [Slot -> Message] /\ [c.node EXCEPT ![c.tail] = m] \in [Slot -> Message]
    BY <1>6 DEF QCB
  <2>3. r = [c EXCEPT !.tail = z, !.node = [c.node EXCEPT ![c.tail] = m]]
    BY <2>1 DEF QCB
  <2>4. /\ r \in QCB /\ r.used = c.used /\ r.len = c.len /\ r.head = c.head /\ r.tail = z
        /\ r.node = [c.node EXCEPT ![c.tail] = m] /\ r.cnt = c.cnt
    BY <1>6, <2>2, <2>3 DEF QCB
  <2> QED BY <1>4, <1>5, <1>9, <2>4 DEF BufferMoved
<1> QED BY <1>7, <1>8, <1>9 DEF Op

\* The sides of an operation.
LEMMA SideFacts ==
  ASSUME NEW op \in Op
  PROVE  /\ SideOf(op) \in Side /\ Other(SideOf(op)) \in Side /\ Other(SideOf(op)) # SideOf(op)
         /\ Side = {SideOf(op), Other(SideOf(op))}
         /\ op = "ReadHead" => SideOf(op) = "read" /\ Other(SideOf(op)) = "write"
         /\ op # "ReadHead" => SideOf(op) = "write" /\ Other(SideOf(op)) = "read"
BY DEF SideOf, Other, Side

\* What the transfer does to the control block.  C is the caller if it was
\* promised something, W the task that is woken.
Paid(q, op, m, C, W) ==
  /\ queue[q].used /\ queue' \in [Queue -> QCB]
  /\ BufferMoved(op, m, queue[q], queue'[q])
  /\ queue'[q].head \in 0 .. queue[q].len - 1 /\ queue'[q].tail \in 0 .. queue[q].len - 1
  /\ \A r \in Queue \ {q} : queue'[r] = queue[r]
  /\ IF C = {} THEN /\ queue[q].cnt[SideOf(op)] > 0
                    /\ queue'[q].cnt[SideOf(op)] = queue[q].cnt[SideOf(op)] - 1
               ELSE queue'[q].cnt[SideOf(op)] = queue[q].cnt[SideOf(op)]
  /\ queue'[q].cnt[Other(SideOf(op))] =
       queue[q].cnt[Other(SideOf(op))] + (IF W = {} THEN 1 ELSE 0)
  /\ got' = IF op = "ReadHead" THEN [got EXCEPT ![q] = queue[q].node[queue[q].head]] ELSE got

\* What it does to the calls that wait.
Handed(q, op, C, W) ==
  /\ C = {} \/ \E t \in Promised(q, SideOf(op)) : C = {t}
  /\ \/ W = {} /\ k.list[ListOf(q, Other(SideOf(op)))] = <<>>
     \/ \E u \in ToSet(k.list[ListOf(q, Other(SideOf(op)))]) : W = {u}
  /\ \A w \in WaitList : /\ ToSet(k'.list[w]) = ToSet(k.list[w]) \ W
                         /\ k'.list[w] # <<>> => k.list[w] # <<>>
  /\ \A x \in TaskID \ (C \cup W) : /\ k'.status[x] \cap Limbo = k.status[x] \cap Limbo
                                    /\ pc'[x] = pc[x] \/ {pc[x], pc'[x]} \subseteq PC
  /\ \A x \in C : pc'[x] \in PC /\ k.status[x] \cap Waiting = {}
  /\ \A x \in W : pc'[x] = pc[x] /\ k'.status[x] \cap Limbo = {}
  /\ call' \in [Task -> [queue : Queue, op : Op, msg : Message]]
  /\ \A x \in Task \ C : call'[x] = call[x]

\* Transfer pays for the caller, and counts for the other side or wakes.
LEMMA TransferPaid ==
  ASSUME QueueLocal, NEW ctx, NEW q \in Queue, NEW op \in Op, NEW m \in Message, NEW C, NEW W,
         queue[q].used, NEW paid, Transfer(ctx, q, paid, op, m),
         \/ C # {} /\ paid = queue[q]
         \/ /\ C = {} /\ queue[q].cnt[SideOf(op)] > 0
            /\ paid = [queue[q] EXCEPT !.cnt[SideOf(op)] = @ - 1],
         W = {} <=> k.list[ListOf(q, Other(SideOf(op)))] = <<>>
  PROVE  Paid(q, op, m, C, W)
<1>1. PICK side \in Side, other \in Side : side = SideOf(op) /\ other = Other(SideOf(op)) /\ side # other
  BY SideFacts
<1>2. PICK c : c = queue[q]
  OBVIOUS
<1>3. /\ queue \in [Queue -> QCB] /\ c \in QCB /\ c.used /\ c.len \in Lengths
      /\ c.head \in 0 .. c.len - 1 /\ c.tail \in 0 .. c.len - 1
  BY <1>2 DEF QueueLocal, QueueTyped
<1>4. /\ paid \in QCB /\ paid.used = c.used /\ paid.len = c.len
      /\ paid.head = c.head /\ paid.tail = c.tail /\ paid.node = c.node
      /\ paid.cnt[other] = c.cnt[other]
      /\ IF C = {} THEN c.cnt[side] > 0 /\ paid.cnt[side] = c.cnt[side] - 1
                   ELSE paid.cnt[side] = c.cnt[side]
  <2>1. CASE C # {} /\ paid = queue[q]
    BY <1>2, <1>3, <2>1
  <2>2. CASE /\ C = {} /\ queue[q].cnt[SideOf(op)] > 0
             /\ paid = [queue[q] EXCEPT !.cnt[SideOf(op)] = @ - 1]
    <3>1. paid = [c EXCEPT !.cnt[side] = @ - 1] /\ c.cnt[side] > 0 /\ c.cnt \in [Side -> Nat]
      BY <1>1, <1>2, <1>3, <2>2 DEF QCB
    <3>2. c.cnt[side] - 1 \in Nat
      BY <3>1
    <3>3. [c.cnt EXCEPT ![side] = @ - 1] \in [Side -> Nat]
      BY <3>1, <3>2
    <3>4. paid = [c EXCEPT !.cnt = [c.cnt EXCEPT ![side] = @ - 1]]
      BY <1>3, <3>1 DEF QCB
    <3>5. /\ paid \in QCB /\ paid.used = c.used /\ paid.len = c.len
          /\ paid.head = c.head /\ paid.tail = c.tail /\ paid.node = c.node
          /\ paid.cnt = [c.cnt EXCEPT ![side] = @ - 1]
      BY <1>3, <3>3, <3>4 DEF QCB
    <3> QED BY <1>1, <2>2, <3>1, <3>5
  <2> QED BY <2>1, <2>2
<1>5. PICK r : r = osQueueBufferOperate(paid, op, m)
  OBVIOUS
<1>6. /\ r \in QCB /\ BufferMoved(op, m, paid, r) /\ r.cnt = paid.cnt
      /\ r.head \in 0 .. c.len - 1 /\ r.tail \in 0 .. c.len - 1
  BY <1>3, <1>4, <1>5, BufferFacts
<1>7. BufferMoved(op, m, c, r)
  BY <1>4, <1>6 DEF BufferMoved
<1>8. PICK n : /\ queue' = [queue EXCEPT ![q] = n]
               /\ n = IF W = {} THEN [r EXCEPT !.cnt[other] = @ + 1] ELSE r
  BY <1>1, <1>5 DEF Transfer
<1>9. /\ n \in QCB /\ BufferMoved(op, m, c, n)
      /\ n.head = r.head /\ n.tail = r.tail /\ n.cnt[side] = paid.cnt[side]
      /\ n.cnt[other] = c.cnt[other] + (IF W = {} THEN 1 ELSE 0)
  <2>1. CASE W # {}
    BY SMTT(60), <1>3, <1>4, <1>6, <1>7, <1>8, <2>1 DEF QCB
  <2>2. CASE W = {}
    <3>1. n = [r EXCEPT !.cnt[other] = @ + 1] /\ r.cnt \in [Side -> Nat]
      BY <1>6, <1>8, <2>2 DEF QCB
    <3>2. r.cnt[other] + 1 \in Nat
      BY <3>1
    <3>3. [r.cnt EXCEPT ![other] = @ + 1] \in [Side -> Nat]
      BY <3>1, <3>2
    <3>4. n = [r EXCEPT !.cnt = [r.cnt EXCEPT ![other] = @ + 1]]
      BY <1>6, <3>1 DEF QCB
    <3>5. /\ n \in QCB /\ n.used = r.used /\ n.len = r.len
          /\ n.head = r.head /\ n.tail = r.tail /\ n.node = r.node
          /\ n.cnt = [r.cnt EXCEPT ![other] = @ + 1]
      BY <1>6, <3>3, <3>4 DEF QCB
    <3>6. BufferMoved(op, m, c, n)
      BY <1>7, <3>5 DEF BufferMoved
    <3> QED BY <1>1, <1>4, <1>6, <2>2, <3>1, <3>5, <3>6
  <2> QED BY <2>1, <2>2
<1>10. queue' \in [Queue -> QCB] /\ queue'[q] = n /\ \A x \in Queue \ {q} : queue'[x] = queue[x]
  BY <1>3, <1>8, <1>9
<1>11. got' = IF op = "ReadHead" THEN [got EXCEPT ![q] = c.node[c.head]] ELSE got
  BY <1>4 DEF Transfer
<1>12. BufferMoved(op, m, queue[q], queue'[q])
  BY <1>2, <1>9, <1>10
<1>13. /\ IF C = {} THEN /\ queue[q].cnt[SideOf(op)] > 0
                         /\ queue'[q].cnt[SideOf(op)] = queue[q].cnt[SideOf(op)] - 1
                    ELSE queue'[q].cnt[SideOf(op)] = queue[q].cnt[SideOf(op)]
       /\ queue'[q].cnt[Other(SideOf(op))] =
            queue[q].cnt[Other(SideOf(op))] + (IF W = {} THEN 1 ELSE 0)
  BY SMTT(60), <1>1, <1>2, <1>4, <1>9, <1>10
<1> QED BY <1>2, <1>3, <1>6, <1>9, <1>10, <1>11, <1>12, <1>13 DEF Paid

\* The first task of the other side.
LEMMA FirstWaiter ==
  ASSUME NEW P, QueueInv(P), NEW q \in Queue, NEW side \in Side, k.list[ListOf(q, side)] # <<>>,
         NEW u, u = Head(k.list[ListOf(q, side)])
  PROVE  /\ u \in ToSet(k.list[ListOf(q, side)]) /\ u \in Task /\ u \in TaskID
         /\ k.status[u] \cap Waiting = {"PEND_QUEUE"} /\ "PEND_QUEUE" \in Waiting
<1>1. k \in Kernel /\ QueueLocal /\ IInv(P)
  BY DEF QueueInv, IInv, Typed
<1>2. u \in ToSet(k.list[ListOf(q, side)])
  <2>1. k.list[ListOf(q, side)] \in Seq(TaskID)
    BY <1>1, ListsApart DEF Kernel, ListHead
  <2>2. 1 \in DOMAIN k.list[ListOf(q, side)] /\ u = k.list[ListOf(q, side)][1]
    BY <2>1, EmptySeq, LenProperties
  <2> QED BY <2>2 DEF ToSet
<1>3. u \in Task /\ u \in TaskID /\ "PEND_QUEUE" \in k.status[u]
  BY <1>1, <1>2 DEF QueueLocal, QueueWaiters, TaskID
<1>4. TaskOK(k, u)
  BY <1>1, <1>3 DEF IInv, Sound
<1> QED BY <1>2, <1>3, <1>4 DEF TaskOK, Waiting

\* A call that finds a credit transfers without waiting.
LEMMA OperateNowEffect ==
  ASSUME NEW P, HasQueue(P), QueueInv(P), NEW ctx \in {"task", "isr"}, NEW q \in Queue,
         NEW op \in Op, NEW m \in Message, OperateNow(ctx, q, op, m)
  PROVE  \E C, W : IInv(P)' /\ Paid(q, op, m, C, W) /\ Handed(q, op, C, W)
<1>1. PICK paid : /\ paid = [queue[q] EXCEPT !.cnt[SideOf(op)] = @ - 1]
                  /\ Calls(ctx, op) /\ queue[q].used /\ queue[q].cnt[SideOf(op)] > 0
                  /\ Transfer(ctx, q, paid, op, m) /\ call' = call
  BY DEF OperateNow
<1>2. PICK other \in Side : other = Other(SideOf(op))
  BY SideFacts
<1>3. /\ Points(P) /\ IInv(P) /\ Repriced(k) /\ QueueLocal /\ k \in Kernel /\ ListsOK(k)
      /\ pc \in [TaskID -> P.all] /\ call \in [Task -> [queue : Queue, op : Op, msg : Message]]
  BY SameRepriced DEF QueueInv, HasQueue, IInv, Typed, Sound, QueueLocal, QueueTyped
<1>4. CASE k.list[ListOf(q, other)] = <<>>
  <2>1. ThenLeave(ctx)
    BY <1>1, <1>2, <1>4 DEF Transfer
  <2>2. k' = k /\ pc' = pc
    <3>1. CASE ctx = "task"
      <4>1. k.run \in TaskID /\ pc[k.run] = "user" /\ pc' = [pc EXCEPT ![k.run] = "user"]
        BY <1>1, <2>1, <3>1 DEF ThenLeave, Goto, Calls, At
      <4>2. pc' = pc
        BY <1>3, <4>1
      <4> QED BY <2>1, <4>2 DEF ThenLeave
    <3>2. CASE ctx # "task"
      BY <2>1, <3>2 DEF ThenLeave
    <3> QED BY <3>1, <3>2
  <2>3. IInv(P)'
    BY <1>3, <2>2 DEF IInv, Typed
  <2>4. Paid(q, op, m, {}, {})
    BY <1>1, <1>2, <1>3, <1>4, TransferPaid
  <2>5. Handed(q, op, {}, {})
    BY <1>1, <1>2, <1>3, <1>4, <2>2 DEF Handed
  <2> QED BY <2>3, <2>4, <2>5
<1>5. CASE k.list[ListOf(q, other)] # <<>>
  <2>1. PICK u : u = Head(k.list[ListOf(q, other)])
    OBVIOUS
  <2>2. ThenSchedule(ctx, osTaskWake(k, u, "PEND_QUEUE"))
    BY <1>1, <1>2, <1>5, <2>1 DEF Transfer
  <2>3. /\ u \in ToSet(k.list[ListOf(q, other)]) /\ u \in Task /\ u \in TaskID
        /\ k.status[u] \cap Waiting = {"PEND_QUEUE"} /\ "PEND_QUEUE" \in Waiting
    BY <1>5, <2>1, FirstWaiter
  <2>4. IInv(P)' /\ Served(u)
    BY <1>1, <1>3, <2>2, <2>3, CallServes
  <2>5. Leaves(u) /\ pc'[u] = pc[u] /\ k'.status[u] \cap Limbo = {}
    BY <2>4 DEF Served
  <2>6. \A w \in WaitList : /\ ToSet(k'.list[w]) = ToSet(k.list[w]) \ {u}
                            /\ k'.list[w] # <<>> => k.list[w] # <<>>
    <3>1. WaitList \in SUBSET WaitList
      OBVIOUS
    <3> QED BY <1>3, <2>3, <2>5, <3>1, LeavesLists
  <2>7. \A x \in TaskID \ {u} : /\ k'.status[x] \cap Limbo = k.status[x] \cap Limbo
                                /\ pc'[x] = pc[x] \/ {pc[x], pc'[x]} \subseteq PC
    BY <2>5 DEF Leaves
  <2>8. Handed(q, op, {}, {u})
    BY <1>1, <1>2, <1>3, <2>3, <2>5, <2>6, <2>7 DEF Handed
  <2>9. Paid(q, op, m, {}, {u})
    BY <1>1, <1>2, <1>3, <1>5, TransferPaid
  <2> QED BY <2>4, <2>8, <2>9
<1> QED BY <1>4, <1>5

\* What the wait lists hold after a task has been taken off its list.
LEMMA UnlinkedLists ==
  ASSUME k \in Kernel, ListsOK(k), NEW t \in TaskID,
         \A w \in WaitList : k'.list[w] = Unlink(k.list[w], t)
  PROVE  \A w \in WaitList : /\ ToSet(k'.list[w]) = ToSet(k.list[w]) \ {t}
                             /\ k'.list[w] # <<>> => k.list[w] # <<>>
<1> SUFFICES ASSUME NEW w \in WaitList
             PROVE  /\ ToSet(k'.list[w]) = ToSet(k.list[w]) \ {t}
                    /\ k'.list[w] # <<>> => k.list[w] # <<>>
  OBVIOUS
<1>1. /\ k'.list[w] = Unlink(k.list[w], t)
      /\ k.list[w] \in Seq(TaskID) /\ IsInjective(k.list[w])
  BY DEF Kernel, ListsOK, ListHead
<1>2. k.list[w] = <<>> => t \notin ToSet(k.list[w])
  BY <1>1, EmptySeq, LenProperties DEF ToSet
<1> QED BY <1>1, <1>2, UnlinkFacts DEF Unlink

\* A call that was woken in time transfers what it was promised.
LEMMA OperateReturnEffect ==
  ASSUME NEW P, HasQueue(P), QueueInv(P), OperateReturn, "TIMEOUT" \notin k.status[k.run],
         NEW t, t = k.run
  PROVE  /\ t \in Task /\ call[t].queue \in Queue /\ call[t].op \in Op /\ call[t].msg \in Message
         /\ \E C, W : /\ IInv(P)' /\ Paid(call[t].queue, call[t].op, call[t].msg, C, W)
                      /\ Handed(call[t].queue, call[t].op, C, W)
<1>1. /\ At("queue_return") /\ call' = [call EXCEPT ![t] = NoCall]
      /\ Transfer("task", call[t].queue, queue[call[t].queue], call[t].op, call[t].msg)
  BY DEF OperateReturn
<1>2. /\ Points(P) /\ IInv(P) /\ Repriced(k) /\ QueueLocal /\ k \in Kernel /\ ListsOK(k)
      /\ pc \in [TaskID -> P.all] /\ call \in [Task -> [queue : Queue, op : Op, msg : Message]]
      /\ "queue_return" \notin P.window
  BY SameRepriced DEF QueueInv, HasQueue, IInv, Typed, Sound, QueueLocal, QueueTyped
<1>3. /\ t \in TaskID /\ ~k.pendSV /\ pc[t] = "queue_return" /\ k.status[t] \cap Waiting = {}
      /\ k.status[t] \cap Limbo = {}
  BY <1>1, <1>2, AtFacts DEF Limbo
<1>4. t \in Task
  BY <1>2, <1>3 DEF TaskID, QueueLocal, QueueTyped, QAt
<1>5. PICK q \in Queue, op \in Op, m \in Message : q = call[t].queue /\ op = call[t].op /\ m = call[t].msg
  BY <1>2, <1>4
<1>6. t \in Promised(q, SideOf(op))
  BY <1>3, <1>4, <1>5 DEF Promised, Waiting
<1>7. queue[q].used
  BY <1>2, <1>6, SideFacts DEF QueueLocal, Balanced
<1>8. PICK other \in Side : other = Other(SideOf(op))
  BY SideFacts
<1>9. call' \in [Task -> [queue : Queue, op : Op, msg : Message]] /\ \A x \in Task \ {t} : call'[x] = call[x]
  BY <1>1, <1>2, NoCallType
<1>10. Transfer("task", q, queue[q], op, m)
  BY <1>1, <1>5
<1>11. CASE k.list[ListOf(q, other)] = <<>>
  <2>1. k' = k /\ Goto("user")
    BY <1>8, <1>10, <1>11 DEF Transfer, ThenLeave
  <2>2. IInv(P)' /\ pc' = [pc EXCEPT ![t] = "user"]
    BY <1>1, <1>2, <2>1, ReturnsQuietly
  <2>3. pc'[t] = "user" /\ \A x \in TaskID \ {t} : pc'[x] = pc[x]
    BY <1>2, <1>3, <2>2
  <2>4. Handed(q, op, {t}, {})
    BY <1>3, <1>6, <1>8, <1>9, <1>11, <2>1, <2>3 DEF Handed, PC
  <2>5. Paid(q, op, m, {t}, {})
    BY <1>2, <1>7, <1>8, <1>10, <1>11, TransferPaid
  <2> QED BY <1>4, <1>5, <2>2, <2>4, <2>5
<1>12. CASE k.list[ListOf(q, other)] # <<>>
  <2>1. PICK u : u = Head(k.list[ListOf(q, other)])
    OBVIOUS
  <2>2. ThenSchedule("task", osTaskWake(k, u, "PEND_QUEUE"))
    BY <1>8, <1>10, <1>12, <2>1 DEF Transfer
  <2>3. /\ u \in ToSet(k.list[ListOf(q, other)]) /\ u \in Task /\ u \in TaskID
        /\ k.status[u] \cap Waiting = {"PEND_QUEUE"} /\ "PEND_QUEUE" \in Waiting
    BY <1>12, <2>1, FirstWaiter
  <2>4. /\ IInv(P)' /\ pc' = [pc EXCEPT ![t] = "schedule"]
        /\ \A w \in WaitList : k'.list[w] = Unlink(k.list[w], u)
        /\ \A x \in CB \ {u} : k'.status[x] = k.status[x]
        /\ k'.status[u] \cap Limbo = {}
    BY <1>2, <1>3, <2>2, <2>3, Wakes
  <2>5. u # t
    BY <1>3, <2>3
  <2>6. pc'[t] = "schedule" /\ \A x \in TaskID \ {t} : pc'[x] = pc[x]
    BY <1>2, <1>3, <2>4
  <2>7. \A w \in WaitList : /\ ToSet(k'.list[w]) = ToSet(k.list[w]) \ {u}
                            /\ k'.list[w] # <<>> => k.list[w] # <<>>
    BY <1>2, <2>3, <2>4, UnlinkedLists
  <2>8. \A x \in TaskID \ ({t} \cup {u}) : /\ k'.status[x] \cap Limbo = k.status[x] \cap Limbo
                                          /\ pc'[x] = pc[x]
    BY <2>4, <2>6 DEF CB
  <2>9. pc'[u] = pc[u] /\ pc'[t] \in PC
    BY <2>3, <2>5, <2>6 DEF PC
  <2>10. Handed(q, op, {t}, {u})
    BY <1>3, <1>6, <1>8, <1>9, <2>3, <2>4, <2>7, <2>8, <2>9 DEF Handed
  <2>11. Paid(q, op, m, {t}, {u})
    BY <1>2, <1>7, <1>8, <1>10, <1>12, TransferPaid
  <2> QED BY <1>4, <1>5, <2>4, <2>10, <2>11
<1> QED BY <1>11, <1>12

\* The promise of the caller is kept, and the woken task gets one.
LEMMA HandedPromises ==
  ASSUME QueueLocal, NEW q \in Queue, NEW op \in Op, NEW C, NEW W, Handed(q, op, C, W)
  PROVE  /\ Promised(q, SideOf(op))' = Promised(q, SideOf(op)) \ C
         /\ Promised(q, Other(SideOf(op)))' = Promised(q, Other(SideOf(op))) \cup W
         /\ \A r \in Queue \ {q}, s \in Side : Promised(r, s)' = Promised(r, s)
         /\ C \subseteq Promised(q, SideOf(op)) /\ W \cap Promised(q, Other(SideOf(op))) = {}
         /\ W \subseteq Task /\ C \cap W = {}
<1>1. PICK side \in Side, other \in Side :
        side = SideOf(op) /\ other = Other(SideOf(op)) /\ side # other /\ Side = {side, other}
  BY SideFacts
<1>2. /\ C \subseteq Promised(q, side) /\ C \subseteq Task
      /\ \A x \in C : x \notin Promised(q, other)' /\ x \notin Promised(q, side)'
      /\ \A x \in C : \A r \in Queue, s \in Side : x \in Promised(r, s) => r = q /\ s = side
      /\ \A x \in C : \A r \in Queue, s \in Side : x \notin Promised(r, s)'
  <2>1. C \subseteq Promised(q, side) /\ \A x \in C : pc'[x] \in PC
    BY <1>1 DEF Handed
  <2>2. C \subseteq Task
    BY <2>1 DEF Promised
  <2>3. \A x \in C : \A r \in Queue, s \in Side : x \notin Promised(r, s)'
    BY <2>1 DEF Promised, PC
  <2>4. \A x \in C : \A r \in Queue, s \in Side : x \in Promised(r, s) => r = q /\ s = side
    BY <2>1 DEF Promised
  <2> QED BY <2>1, <2>2, <2>3, <2>4
<1>3. \A x \in W : /\ x \in Task /\ pc[x] \in QAt /\ "PEND_QUEUE" \in k.status[x]
                   /\ call[x].queue = q /\ SideOf(call[x].op) = other
                   /\ pc'[x] = pc[x] /\ k'.status[x] \cap Limbo = {}
  <2>1. W \subseteq ToSet(k.list[ListOf(q, other)])
    BY <1>1 DEF Handed
  <2>2. \A x \in W : pc'[x] = pc[x] /\ k'.status[x] \cap Limbo = {}
    BY DEF Handed
  <2> QED BY <1>1, <2>1, <2>2 DEF QueueLocal, QueueWaiters
<1>4. \A x \in W : \A r \in Queue, s \in Side : x \notin Promised(r, s)
  BY <1>3 DEF Promised
<1>5. C \cap W = {}
  BY <1>1, <1>2, <1>4
<1>6. ASSUME NEW x \in W, NEW r \in Queue, NEW s \in Side
      PROVE  x \in Promised(r, s)' <=> r = q /\ s = other
  <2>1. call'[x] = call[x]
    BY <1>3, <1>5 DEF Handed
  <2>2. k'.status[x] \cap {"PEND_QUEUE", "TIMEOUT"} = {} /\ pc'[x] \in {"queue_schedule", "queue_return"}
    BY <1>3 DEF Limbo, Waiting, QAt
  <2> QED BY <1>3, <2>1, <2>2 DEF Promised
<1>7. ASSUME NEW x \in Task \ (C \cup W), NEW r \in Queue, NEW s \in Side
      PROVE  x \in Promised(r, s)' <=> x \in Promised(r, s)
  <2>1. /\ k'.status[x] \cap Limbo = k.status[x] \cap Limbo
        /\ pc'[x] = pc[x] \/ {pc[x], pc'[x]} \subseteq PC
        /\ call'[x] = call[x]
    BY DEF Handed, TaskID
  <2>2. /\ k'.status[x] \cap {"PEND_QUEUE", "TIMEOUT"} = k.status[x] \cap {"PEND_QUEUE", "TIMEOUT"}
        /\ pc'[x] \in {"queue_schedule", "queue_return"} <=> pc[x] \in {"queue_schedule", "queue_return"}
    BY <2>1 DEF Limbo, Waiting, PC
  <2> QED BY <2>1, <2>2 DEF Promised
<1>8. \A r, s : Promised(r, s) \subseteq Task /\ Promised(r, s)' \subseteq Task
  BY DEF Promised
<1>9. Promised(q, side)' = Promised(q, side) \ C
  <2> SUFFICES ASSUME NEW x \in Task
               PROVE  x \in Promised(q, side)' <=> x \in Promised(q, side) /\ x \notin C
    BY <1>8
  <2>1. CASE x \in C
    BY <1>2, <2>1
  <2>2. CASE x \in W
    BY <1>1, <1>4, <1>6, <2>2
  <2>3. CASE x \notin C \cup W
    BY <1>7, <2>3
  <2> QED BY <2>1, <2>2, <2>3
<1>10. Promised(q, other)' = Promised(q, other) \cup W
  <2> SUFFICES ASSUME NEW x \in Task
               PROVE  x \in Promised(q, other)' <=> x \in Promised(q, other) \/ x \in W
    BY <1>3, <1>8
  <2>1. CASE x \in C
    BY <1>1, <1>2, <1>5, <2>1
  <2>2. CASE x \in W
    BY <1>6, <2>2
  <2>3. CASE x \notin C \cup W
    BY <1>7, <2>3
  <2> QED BY <2>1, <2>2, <2>3
<1>11. ASSUME NEW r \in Queue \ {q}, NEW s \in Side PROVE Promised(r, s)' = Promised(r, s)
  <2> SUFFICES ASSUME NEW x \in Task
               PROVE  x \in Promised(r, s)' <=> x \in Promised(r, s)
    BY SMTT(60), <1>8
  <2>1. CASE x \in C
    BY <1>2, <2>1
  <2>2. CASE x \in W
    BY <1>4, <1>6, <2>2
  <2>3. CASE x \notin C \cup W
    BY <1>7, <2>3
  <2> QED BY <2>1, <2>2, <2>3
<1> QED BY <1>1, <1>2, <1>3, <1>4, <1>5, <1>9, <1>10, <1>11

\* A transfer moves one credit from the side of the call to the other.
LEMMA CreditStep ==
  ASSUME QueueLocal, NEW q \in Queue, NEW op \in Op, NEW m, NEW C, NEW W,
         Paid(q, op, m, C, W), Handed(q, op, C, W)
  PROVE  /\ Credit(q, SideOf(op)) > 0
         /\ Credit(q, SideOf(op))' = Credit(q, SideOf(op)) - 1
         /\ Credit(q, Other(SideOf(op)))' = Credit(q, Other(SideOf(op))) + 1
         /\ \A r \in Queue \ {q}, s \in Side : Credit(r, s)' = Credit(r, s)
<1>1. PICK side \in Side, other \in Side :
        side = SideOf(op) /\ other = Other(SideOf(op)) /\ side # other /\ Side = {side, other}
  BY SideFacts
<1>2. PICK A : A = Promised(q, side)
  OBVIOUS
<1>3. PICK B : B = Promised(q, other)
  OBVIOUS
<1>4. /\ Promised(q, side)' = A \ C /\ Promised(q, other)' = B \cup W
      /\ \A r \in Queue \ {q}, s \in Side : Promised(r, s)' = Promised(r, s)
      /\ C \subseteq A /\ W \cap B = {} /\ W \subseteq Task
  BY <1>1, <1>2, <1>3, HandedPromises
<1>5. IsFiniteSet(A) /\ IsFiniteSet(B) /\ Cardinality(A) \in Nat /\ Cardinality(B) \in Nat
  BY <1>2, <1>3, PromisedFinite
<1>6. queue[q].cnt[side] \in Nat /\ queue[q].cnt[other] \in Nat /\ QueueTyped
  BY CreditType DEF QueueLocal
<1>7. /\ IF C = {} THEN queue[q].cnt[side] > 0 /\ queue'[q].cnt[side] = queue[q].cnt[side] - 1
                   ELSE queue'[q].cnt[side] = queue[q].cnt[side]
      /\ queue'[q].cnt[other] = queue[q].cnt[other] + (IF W = {} THEN 1 ELSE 0)
      /\ \A r \in Queue \ {q} : queue'[r] = queue[r]
  BY <1>1 DEF Paid
<1>8. Cardinality(A \ C) = Cardinality(A) - (IF C = {} THEN 0 ELSE 1)
  <2>1. CASE C = {}
    <3>1. A \ C = A
      BY <2>1
    <3> QED BY <1>5, <2>1, <3>1
  <2>2. CASE C # {}
    <3>1. PICK t \in A : C = {t}
      BY <1>1, <1>2, <2>2 DEF Handed
    <3>2. Cardinality(A \ {t}) = Cardinality(A) - 1
      BY <1>5, <3>1, FS_RemoveElement
    <3> QED BY <2>2, <3>1, <3>2
  <2> QED BY <2>1, <2>2
<1>9. C # {} => Cardinality(A) > 0
  BY <1>4, <1>5, FS_EmptySet
<1>10. Cardinality(B \cup W) = Cardinality(B) + (IF W = {} THEN 0 ELSE 1)
  <2>1. CASE W = {}
    <3>1. B \cup W = B
      BY <2>1
    <3> QED BY <1>5, <2>1, <3>1
  <2>2. CASE W # {}
    <3>1. PICK u : W = {u}
      BY <2>2 DEF Handed
    <3>2. u \notin B
      BY <1>4, <3>1
    <3>3. Cardinality(B \cup {u}) = Cardinality(B) + 1
      BY <1>5, <3>2, FS_AddElement
    <3> QED BY <2>2, <3>1, <3>3
  <2> QED BY <2>1, <2>2
<1>11. Credit(q, side) = queue[q].cnt[side] + Cardinality(A) /\ Credit(q, other) = queue[q].cnt[other] + Cardinality(B)
  BY <1>2, <1>3 DEF Credit
<1>12. /\ Credit(q, side)' = queue'[q].cnt[side] + Cardinality(A \ C)
       /\ Credit(q, other)' = queue'[q].cnt[other] + Cardinality(B \cup W)
  BY <1>4 DEF Credit
<1>13. \A r \in Queue \ {q}, s \in Side : Credit(r, s)' = Credit(r, s)
  BY <1>4, <1>7 DEF Credit
<1>14. Credit(q, side) > 0
  BY <1>5, <1>6, <1>7, <1>9, <1>11
<1>15. Credit(q, side)' = Credit(q, side) - 1
  BY <1>5, <1>6, <1>7, <1>8, <1>11, <1>12
<1>16. Credit(q, other)' = Credit(q, other) + 1
  BY <1>5, <1>6, <1>7, <1>10, <1>11, <1>12
<1> QED BY <1>1, <1>13, <1>14, <1>15, <1>16

\* The ring and the credits of a queue that exists.
LEMMA RingFacts ==
  ASSUME QueueLocal, NEW q \in Queue, queue[q].used
  PROVE  /\ queue[q].len \in Nat \ {0} /\ 0 .. queue[q].len - 1 \subseteq Slot
         /\ queue[q].node \in [Slot -> Message] /\ queue[q].head \in 0 .. queue[q].len - 1
         /\ Credit(q, "read") \in 0 .. queue[q].len /\ Credit(q, "write") \in 0 .. queue[q].len
         /\ Credit(q, "read") + Credit(q, "write") = queue[q].len
         /\ queue[q].tail = (queue[q].head + Credit(q, "read")) % queue[q].len
<1>1. QueueTyped /\ queue[q] \in QCB /\ "read" \in Side /\ "write" \in Side
  BY DEF QueueLocal, QueueTyped, Side
<1>2. Credit(q, "read") \in Nat /\ Credit(q, "write") \in Nat
  BY <1>1, CreditType
<1>3. queue[q].len \in Nat \ {0} /\ 0 .. queue[q].len - 1 \subseteq Slot /\ queue[q].head \in 0 .. queue[q].len - 1
  BY <1>1, SlotFacts DEF QueueTyped
<1>4. /\ Credit(q, "read") + Credit(q, "write") = queue[q].len
      /\ queue[q].tail = (queue[q].head + Credit(q, "read")) % queue[q].len
  BY DEF QueueLocal, Balanced
<1> QED BY <1>1, <1>2, <1>3, <1>4 DEF QCB

\* What the queue holds, the next message to read first.
Content(q) == Ring(queue[q].node, queue[q].head, queue[q].len, Credit(q, "read"))

\* A transfer reads the first message, or adds one at its end of the queue.
LEMMA ContentStep ==
  ASSUME QueueLocal, NEW q \in Queue, NEW op \in Op, NEW m \in Message, NEW C, NEW W,
         Paid(q, op, m, C, W), Handed(q, op, C, W)
  PROVE  /\ op = "ReadHead" => /\ Content(q) # <<>> /\ Content(q)' = Tail(Content(q))
                               /\ Head(Content(q)) = queue[q].node[queue[q].head]
         /\ op # "ReadHead" => Credit(q, "read") < queue[q].len
         /\ op = "WriteHead" => Content(q)' = <<m>> \o Content(q)
         /\ op = "WriteTail" => Content(q)' = Append(Content(q), m)
         /\ queue'[q].tail = (queue'[q].head + Credit(q, "read")') % queue'[q].len
         /\ Credit(q, "read")' + Credit(q, "write")' = queue'[q].len
<1>1. PICK c : c = queue[q]
  OBVIOUS
<1>2. PICK r : r = queue'[q]
  OBVIOUS
<1>3. PICK n : n = Credit(q, "read")
  OBVIOUS
<1>4. /\ c.len \in Nat \ {0} /\ 0 .. c.len - 1 \subseteq Slot /\ c.node \in [Slot -> Message]
      /\ c.head \in 0 .. c.len - 1 /\ n \in 0 .. c.len /\ Credit(q, "write") \in 0 .. c.len
      /\ n + Credit(q, "write") = c.len /\ c.tail = (c.head + n) % c.len
  BY <1>1, <1>3, RingFacts DEF Paid
<1>a. PICK node \in [Slot -> Message] : node = c.node
  BY <1>4
<1>b. PICK len \in Nat \ {0} : len = c.len
  BY <1>4
<1>c. PICK front \in 0 .. len - 1 : front = c.head
  BY <1>4, <1>b
<1>d. 0 .. len - 1 \subseteq Slot
  BY <1>4, <1>b
<1>5. BufferMoved(op, m, c, r) /\ r.len = len
  BY <1>1, <1>b, <1>2 DEF Paid, BufferMoved
<1>6. CASE op = "ReadHead"
  <2>1. SideOf(op) = "read" /\ Other(SideOf(op)) = "write"
    BY <1>6, SideFacts
  <2>2. n > 0 /\ Credit(q, "read")' = n - 1 /\ Credit(q, "write")' = Credit(q, "write") + 1
    BY <1>3, <2>1, CreditStep
  <2>3. r.head = After(front, len) /\ r.tail = c.tail /\ r.node = node
    BY <1>5, <1>6, <1>a, <1>b, <1>c DEF BufferMoved
  <2>4. n \in 1 .. len
    BY <1>4, <1>b, <2>2
  <2>5. /\ Ring(node, front, len, n) # <<>>
        /\ Head(Ring(node, front, len, n)) = node[front]
        /\ Tail(Ring(node, front, len, n)) = Ring(node, After(front, len), len, n - 1)
        /\ (After(front, len) + (n - 1)) % len = (front + n) % len
    BY ZenonT(60), <1>d, <2>4, RingGet
  <2>6. Content(q) = Ring(node, front, len, n)
    BY <1>1, <1>3, <1>a, <1>b, <1>c DEF Content
  <2>7. Content(q)' = Ring(node, After(front, len), len, n - 1)
    BY <1>2, <1>5, <2>2, <2>3 DEF Content
  <2>8. r.tail = (r.head + Credit(q, "read")') % r.len
    BY <1>4, <1>5, <1>a, <1>b, <1>c, <2>2, <2>3, <2>5
  <2>9. Credit(q, "read")' + Credit(q, "write")' = r.len
    BY <1>4, <1>5, <1>a, <1>b, <1>c, <2>2
  <2> QED BY <1>1, <1>2, <1>6, <1>a, <1>c, <2>5, <2>6, <2>7, <2>8, <2>9
<1>7. CASE op # "ReadHead"
  <2>1. SideOf(op) = "write" /\ Other(SideOf(op)) = "read"
    BY <1>7, SideFacts
  <2>2. /\ Credit(q, "write") > 0 /\ Credit(q, "read")' = n + 1
        /\ Credit(q, "write")' = Credit(q, "write") - 1
    BY <1>3, <2>1, CreditStep
  <2>3. n \in 0 .. len - 1
    BY <1>4, <1>b, <2>2
  <2>4. Content(q) = Ring(node, front, len, n)
    BY <1>1, <1>3, <1>a, <1>b, <1>c DEF Content
  <2>5. Content(q)' = Ring(r.node, r.head, len, n + 1)
    BY <1>2, <1>5, <2>2 DEF Content
  <2>6. Credit(q, "read")' + Credit(q, "write")' = r.len
    BY <1>4, <1>5, <1>a, <1>b, <1>c, <2>2
  <2>7. CASE op = "WriteHead"
    <3>1. PICK h : h = Before(front, len)
      OBVIOUS
    <3>a. PICK new : new = Stored(node, h, m)
      OBVIOUS
    <3>2. r.head = h /\ r.tail = c.tail /\ r.node = new
      BY <1>5, <2>7, <3>1, <3>a, <1>a, <1>b, <1>c DEF BufferMoved, Stored
    <3>b. PICK before : before = Ring(node, front, len, n)
      OBVIOUS
    <3>c. PICK after : after = Ring(new, h, len, n + 1)
      OBVIOUS
    <3>d. after = <<m>> \o before
      BY SMTT(60), <1>d, <2>3, <3>1, <3>a, <3>b, <3>c, RingPutFirst
    <3>e. (h + (n + 1)) % len = (front + n) % len
      BY ZenonT(60), <1>d, <2>3, <3>1, <3>a, RingPutFirst
    <3>3. after = <<m>> \o before /\ (h + (n + 1)) % len = (front + n) % len
      BY <3>d, <3>e
    <3>4. Content(q)' = <<m>> \o Content(q)
      BY <2>4, <2>5, <3>2, <3>3, <3>b, <3>c
    <3>5. r.tail = (r.head + Credit(q, "read")') % r.len
      BY <1>4, <1>5, <1>a, <1>b, <1>c, <2>2, <3>2, <3>3
    <3> QED BY <1>1, <1>2, <1>3, <1>4, <1>b, <2>3, <2>6, <2>7, <3>4, <3>5
  <2>8. CASE op = "WriteTail"
    <3>1. PICK z : z = c.tail /\ z = (front + n) % len
      BY <1>4, <1>b, <1>c
    <3>a. PICK new : new = Stored(node, z, m)
      OBVIOUS
    <3>2. r.head = front /\ r.tail = After(z, len) /\ r.node = new
      BY <1>5, <2>8, <3>1, <3>a, <1>a, <1>b, <1>c DEF BufferMoved, Stored
    <3>b. PICK before : before = Ring(node, front, len, n)
      OBVIOUS
    <3>c. PICK after : after = Ring(new, front, len, n + 1)
      OBVIOUS
    <3>3. after = Append(before, m) /\ After(z, len) = (front + (n + 1)) % len
      BY <1>d, <2>3, <3>1, <3>a, <3>b, <3>c, RingPut
    <3>4. Content(q)' = Append(Content(q), m)
      BY <2>4, <2>5, <3>2, <3>3, <3>b, <3>c
    <3>5. r.tail = (r.head + Credit(q, "read")') % r.len
      BY <1>4, <1>5, <1>a, <1>b, <1>c, <2>2, <3>2, <3>3
    <3> QED BY <1>1, <1>2, <1>3, <1>4, <1>b, <2>3, <2>6, <2>8, <3>4, <3>5
  <2> QED BY <1>7, <2>7, <2>8 DEF Op
<1> QED BY <1>6, <1>7

\* A transfer keeps the invariant.
LEMMA TransferInv ==
  ASSUME NEW P, HasQueue(P), QueueInv(P), NEW q \in Queue, NEW op \in Op, NEW m \in Message,
         NEW C, NEW W, IInv(P)', Paid(q, op, m, C, W), Handed(q, op, C, W)
  PROVE  QueueInv(P)'
<1>1. PICK side \in Side, other \in Side :
        side = SideOf(op) /\ other = Other(SideOf(op)) /\ side # other /\ Side = {side, other}
  BY SideFacts
<1>2. QueueLocal /\ QueueTyped /\ queue[q].used
  BY DEF QueueInv, QueueLocal, Paid
<1>3. /\ queue' \in [Queue -> QCB] /\ \A r \in Queue \ {q} : queue'[r] = queue[r]
      /\ queue'[q].used = queue[q].used /\ queue'[q].len = queue[q].len
      /\ queue'[q].head \in 0 .. queue[q].len - 1 /\ queue'[q].tail \in 0 .. queue[q].len - 1
  BY DEF Paid, BufferMoved
<1>4. /\ Promised(q, side)' = Promised(q, side) \ C /\ Promised(q, other)' = Promised(q, other) \cup W
      /\ \A r \in Queue \ {q}, s \in Side : Promised(r, s)' = Promised(r, s)
      /\ C \subseteq Promised(q, side) /\ W \subseteq Task
  BY <1>1, <1>2, HandedPromises
<1>5. \A x \in C : x \in Task /\ k.status[x] \cap Waiting = {}
  BY <1>4 DEF Promised, Handed
<1>6. QueueTyped'
  <2>1. \A r \in Queue : queue'[r].used =>
          /\ queue'[r].len \in Lengths
          /\ queue'[r].head \in 0 .. queue'[r].len - 1 /\ queue'[r].tail \in 0 .. queue'[r].len - 1
    BY <1>2, <1>3 DEF QueueTyped
  <2>2. got' \in [Queue -> Message]
    <3>1. queue[q].node \in [Slot -> Message] /\ queue[q].head \in Slot
      BY <1>2, RingFacts
    <3>2. queue[q].node[queue[q].head] \in Message /\ got \in [Queue -> Message]
      BY <1>2, <3>1 DEF QueueTyped
    <3>3. got' = IF op = "ReadHead" THEN [got EXCEPT ![q] = queue[q].node[queue[q].head]] ELSE got
      BY DEF Paid
    <3> QED BY <3>2, <3>3
  <2>3. pc'[Idle] \notin QAt
    <3>1. Idle \in TaskID \ (C \cup W)
      BY <1>4, <1>5, TaskAssumption DEF TaskID
    <3>2. pc'[Idle] = pc[Idle] \/ pc'[Idle] \in PC
      BY <3>1 DEF Handed
    <3> QED BY <1>2, <3>2 DEF QueueTyped, QAt, PC
  <2>4. call' \in [Task -> [queue : Queue, op : Op, msg : Message]]
    BY DEF Handed
  <2> QED BY <1>3, <2>1, <2>2, <2>3, <2>4 DEF QueueTyped
<1>7. \A r \in Queue, s \in Side :
        /\ ToSet(k'.list[ListOf(r, s)]) \subseteq ToSet(k.list[ListOf(r, s)]) \ W
        /\ k'.list[ListOf(r, s)] # <<>> => k.list[ListOf(r, s)] # <<>>
  <2>1. \A w \in WaitList : /\ ToSet(k'.list[w]) = ToSet(k.list[w]) \ W
                            /\ k'.list[w] # <<>> => k.list[w] # <<>>
    BY DEF Handed
  <2> QED BY <2>1, ListsApart
<1>8. QueueWaiters'
  <2> SUFFICES ASSUME NEW r \in Queue, NEW s \in Side, NEW u \in ToSet(k'.list[ListOf(r, s)])
               PROVE  /\ u \in Task /\ pc'[u] \in QAt /\ "PEND_QUEUE" \in k'.status[u]
                      /\ call'[u].queue = r /\ SideOf(call'[u].op) = s
    BY DEF QueueWaiters
  <2>1. u \in ToSet(k.list[ListOf(r, s)]) /\ u \notin W
    BY <1>7
  <2>2. /\ u \in Task /\ pc[u] \in QAt /\ "PEND_QUEUE" \in k.status[u]
        /\ call[u].queue = r /\ SideOf(call[u].op) = s
    BY <1>2, <2>1 DEF QueueLocal, QueueWaiters
  <2>3. u \notin C
    BY <1>5, <2>2 DEF Waiting
  <2>4. /\ k'.status[u] \cap Limbo = k.status[u] \cap Limbo
        /\ pc'[u] = pc[u] \/ {pc[u], pc'[u]} \subseteq PC
        /\ call'[u] = call[u]
    BY <2>1, <2>2, <2>3 DEF Handed, TaskID
  <2>5. "PEND_QUEUE" \in k'.status[u]
    BY <2>2, <2>4 DEF Limbo, Waiting
  <2>6. pc'[u] = pc[u]
    BY <2>2, <2>4 DEF QAt, PC
  <2> QED BY <2>2, <2>4, <2>5, <2>6
<1>9. NobodyWaitsInVain'
  <2> SUFFICES ASSUME NEW r \in Queue, NEW s \in Side, k'.list[ListOf(r, s)] # <<>>
               PROVE  queue'[r].used /\ queue'[r].cnt[s] = 0
    BY DEF NobodyWaitsInVain
  <2>1. k.list[ListOf(r, s)] # <<>> /\ queue[r].used /\ queue[r].cnt[s] = 0
    BY <1>2, <1>7 DEF QueueLocal, NobodyWaitsInVain
  <2>2. CASE r # q
    BY <1>3, <2>1, <2>2
  <2>3. CASE r = q /\ s = side
    <3>1. IF C = {} THEN queue[q].cnt[side] > 0 /\ queue'[q].cnt[side] = queue[q].cnt[side] - 1
                    ELSE queue'[q].cnt[side] = queue[q].cnt[side]
      BY <1>1 DEF Paid
    <3>2. ~(queue[q].cnt[side] > 0)
      BY <2>1, <2>3
    <3> QED BY <1>3, <2>1, <2>3, <3>1, <3>2
  <2>4. CASE r = q /\ s = other
    <3>1. W # {}
      BY <1>1, <2>1, <2>4 DEF Handed
    <3>2. queue'[q].cnt[other] = queue[q].cnt[other] + (IF W = {} THEN 1 ELSE 0)
      BY <1>1 DEF Paid
    <3>3. queue'[q].cnt[other] = queue[q].cnt[other] + 0
      BY <3>1, <3>2
    <3> QED BY <1>3, <2>1, <2>4, <3>3
  <2> QED BY <1>1, <2>2, <2>3, <2>4
<1>10. Balanced'
  <2>1. /\ queue'[q].tail = (queue'[q].head + Credit(q, "read")') % queue'[q].len
        /\ Credit(q, "read")' + Credit(q, "write")' = queue'[q].len
    BY <1>2, ContentStep
  <2>2. \A r \in Queue \ {q}, s \in Side : Credit(r, s)' = Credit(r, s)
    BY <1>2, CreditStep
  <2>3. "read" \in Side /\ "write" \in Side
    BY DEF Side
  <2>4. \A r \in Queue \ {q} :
          /\ queue'[r].used =>
               /\ Credit(r, "read")' + Credit(r, "write")' = queue'[r].len
               /\ queue'[r].tail = (queue'[r].head + Credit(r, "read")') % queue'[r].len
          /\ ~queue'[r].used => \A s \in Side : Promised(r, s)' = {}
    BY <1>2, <1>3, <1>4, <2>2, <2>3 DEF QueueLocal, Balanced
  <2> QED BY <1>2, <1>3, <2>1, <2>4 DEF Balanced
<1> QED BY <1>6, <1>8, <1>9, <1>10 DEF QueueInv, QueueLocal

-----------------------------------------------------------------------------
(* Every state *)

\* The messages of the calls are messages.
LEMMA PayloadFacts ==
  \A op \in Op : Payload(op) \subseteq Message
<1>1. AnyMessage \in Message
  BY QueueAssumption DEF AnyMessage
<1> QED BY <1>1 DEF Payload

\* Every step of the system keeps the invariant.
LEMMA QueueStepInv ==
  ASSUME NEW P, HasQueue(P), QueueInv(P), ~IsrRaces, [QueueNext]_queueVars
  PROVE  QueueInv(P)'
<1>1. ASSUME NEW ctx \in {"task", "isr"}, NEW q \in Queue, NEW op \in Op, NEW m \in Payload(op),
             OperateNow(ctx, q, op, m)
      PROVE  QueueInv(P)'
  <2>1. m \in Message
    BY PayloadFacts
  <2>2. PICK C, W : IInv(P)' /\ Paid(q, op, m, C, W) /\ Handed(q, op, C, W)
    BY <1>1, <2>1, OperateNowEffect
  <2> QED BY <2>1, <2>2, TransferInv
<1>2. CASE OperateReturn
  <2>1. CASE "TIMEOUT" \in k.status[k.run]
    BY <1>2, <2>1, TimeoutInv
  <2>2. CASE "TIMEOUT" \notin k.status[k.run]
    <3>1. PICK t : t = k.run
      OBVIOUS
    <3>2. PICK q \in Queue, op \in Op, m \in Message :
            \E C, W : IInv(P)' /\ Paid(q, op, m, C, W) /\ Handed(q, op, C, W)
      BY <1>2, <2>2, <3>1, OperateReturnEffect
    <3>3. PICK C, W : IInv(P)' /\ Paid(q, op, m, C, W) /\ Handed(q, op, C, W)
      BY <3>2
    <3> QED BY <3>3, TransferInv
  <2> QED BY <2>1, <2>2
<1>3. ASSUME NEW ctx \in {"task", "isr"}, NEW q \in Queue,
             (\E len \in Lengths : LOS_QueueCreate(ctx, q, len)) \/ LOS_QueueDelete(ctx, q)
      PROVE  QueueInv(P)'
  BY <1>3, BlockQueueInv
<1>4. ASSUME NEW q \in Queue, NEW op \in Op, NEW timeout \in CallTimeouts, NEW m \in Payload(op),
             OperateWait(q, op, m, timeout)
      PROVE  QueueInv(P)'
  <2>1. m \in Message
    BY PayloadFacts
  <2> QED BY <1>4, <2>1, OperateWaitInv
<1>5. CASE OperateSchedule
  BY <1>5, OperateScheduleInv
<1>6. CASE [Next]_vars /\ UNCHANGED <<queue, call, got>>
  BY <1>6, TaskStepQueue
<1>7. CASE QueueCallNext
  BY <1>1, <1>2, <1>3, <1>4, <1>5, <1>7 DEF QueueCallNext
<1> QED BY <1>6, <1>7 DEF QueueNext, queueVars, vars

\* It holds at the start.
LEMMA QueueInitInv ==
  ASSUME NEW P, HasQueue(P), QueueInit
  PROVE  QueueInv(P)
<1>1. IInv(P) /\ pc = [t \in TaskID |-> "user"] /\ \A w \in WaitList : k.list[w] = <<>>
  BY InitInv, WaitListAssumption DEF QueueInit, HasQueue, Init, KernelInit, ListHead
<1>2. /\ queue = [q \in Queue |-> [used |-> FALSE, len |-> 0, head |-> 0, tail |-> 0,
                                   node |-> EmptyBuffer, cnt |-> [s \in Side |-> 0]]]
      /\ call = [t \in Task |-> NoCall] /\ got = [q \in Queue |-> AnyMessage]
  BY DEF QueueInit
<1>3. AnyMessage \in Message /\ EmptyBuffer \in [Slot -> Message]
  <2>1. AnyMessage \in Message
    BY QueueAssumption DEF AnyMessage
  <2> QED BY <2>1 DEF EmptyBuffer
<1>4. queue \in [Queue -> QCB] /\ \A q \in Queue : ~queue[q].used
  BY <1>2, <1>3 DEF QCB
<1>5. QueueTyped
  <2>1. pc[Idle] \notin QAt
    BY <1>1 DEF TaskID, QAt
  <2> QED BY <1>2, <1>3, <1>4, <2>1, NoCallType DEF QueueTyped
<1>6. \A q \in Queue, side \in Side : k.list[ListOf(q, side)] = <<>> /\ Promised(q, side) = {}
  BY <1>1, ListsApart DEF Promised, TaskID
<1>7. QueueWaiters
  BY <1>6 DEF QueueWaiters, ToSet
<1>8. NobodyWaitsInVain /\ Balanced
  BY <1>4, <1>6 DEF NobodyWaitsInVain, Balanced
<1> QED BY <1>1, <1>5, <1>7, <1>8 DEF QueueInv, QueueLocal

\* The invariant holds in every state, if handlers keep to their rules.
LEMMA QueueInvariance ==
  ASSUME ~IsrRaces
  PROVE  QueueSpec => []QueueInv(QueuePoints)
<1>0. HasQueue(QueuePoints)
  BY DEF HasQueue, Points, QueuePoints, QAt, PC
<1>1. QueueInit => QueueInv(QueuePoints)
  BY <1>0, QueueInitInv
<1>2. QueueInv(QueuePoints) /\ [QueueNext]_queueVars => QueueInv(QueuePoints)'
  BY <1>0, QueueStepInv
<1> QED BY <1>1, <1>2, PTL DEF QueueSpec

-----------------------------------------------------------------------------
(* The guarantees *)

\* No wake-up is lost: a task waits to read, or to write, only while there is
\* no message, or no room, that nobody was promised.
THEOREM NobodyWaitsForACredit ==
  ASSUME ~IsrRaces
  PROVE  QueueSpec => []NobodyWaitsInVain
<1>1. QueueInv(QueuePoints) => NobodyWaitsInVain
  BY DEF QueueInv, QueueLocal
<1> QED BY <1>1, QueueInvariance, PTL

\* Time limits and hand-overs neither lose a slot of a queue nor make one, and
\* no queue is deleted while a woken task is about to use its buffer.
THEOREM QueuesConserveCredits ==
  ASSUME ~IsrRaces
  PROVE  QueueSpec => []CreditsConserved
<1>1. QueueInv(QueuePoints) => CreditsConserved
  <2> SUFFICES ASSUME QueueInv(QueuePoints), NEW q \in Queue,
                      NEW n, n = Cardinality(Promised(q, "read")) + Cardinality(Promised(q, "write"))
               PROVE  IF queue[q].used
                      THEN queue[q].cnt["read"] + queue[q].cnt["write"] + n = queue[q].len
                      ELSE n = 0
    BY DEF CreditsConserved
  <2>1. QueueTyped /\ Balanced /\ "read" \in Side /\ "write" \in Side
    BY DEF QueueInv, QueueLocal, Side
  <2>2. /\ queue[q].cnt["read"] \in Nat /\ queue[q].cnt["write"] \in Nat
        /\ Cardinality(Promised(q, "read")) \in Nat /\ Cardinality(Promised(q, "write")) \in Nat
        /\ Promised(q, "read") = {} => Cardinality(Promised(q, "read")) = 0
        /\ Promised(q, "write") = {} => Cardinality(Promised(q, "write")) = 0
    BY <2>1, CreditType, PromisedFinite
  <2>3. CASE queue[q].used
    <3>1. Credit(q, "read") + Credit(q, "write") = queue[q].len
      BY <2>1, <2>3 DEF Balanced
    <3> QED BY <2>2, <2>3, <3>1 DEF Credit
  <2>4. CASE ~queue[q].used
    BY <2>1, <2>2, <2>4 DEF Balanced
  <2> QED BY <2>3, <2>4
<1> QED BY <1>1, QueueInvariance, PTL

-----------------------------------------------------------------------------
(***************************************************************************)
(* The refinement.  Items(q) is the content of the ring between head and   *)
(* tail, those messages included that a woken reader was promised.         *)
(***************************************************************************)

\* The items of a queue that exists are its content.
LEMMA ItemsContent ==
  \A q \in Queue : /\ Items(q) = IF queue[q].used THEN Content(q) ELSE <<>>
                   /\ Items(q)' = IF queue'[q].used THEN Content(q)' ELSE <<>>
BY DEF Items, Content, Ring, Credit

\* A step that leaves the queues and the promises alone stutters.
LEMMA QueuesStutter ==
  ASSUME SamePromises, UNCHANGED <<queue, got>>
  PROVE  UNCHANGED Abstract!queueVars
<1>1. "read" \in Side
  BY DEF Side
<1>2. \A q \in Queue : Items(q)' = Items(q)
  BY <1>1 DEF SamePromises, Items
<1>3. [q \in Queue |-> Items(q)]' = [q \in Queue |-> Items(q)]
  BY <1>2
<1> QED BY <1>3 DEF Abstract!queueVars

\* What the other queues hold does not change when q changes.
LEMMA OneQueue ==
  ASSUME NEW q \in Queue, \A r \in Queue \ {q} : queue'[r] = queue[r],
         \A r \in Queue \ {q}, s \in Side : Promised(r, s)' = Promised(r, s),
         NEW used \in BOOLEAN, used = queue'[q].used,
         NEW n, n = IF used THEN queue'[q].len ELSE 0,
         NEW items, items = Items(q)'
  PROVE  /\ {r \in Queue : queue[r].used}' =
              IF used THEN {r \in Queue : queue[r].used} \cup {q} ELSE {r \in Queue : queue[r].used} \ {q}
         /\ [r \in Queue |-> IF queue[r].used THEN queue[r].len ELSE 0]' =
              [[r \in Queue |-> IF queue[r].used THEN queue[r].len ELSE 0] EXCEPT ![q] = n]
         /\ [r \in Queue |-> Items(r)]' = [[r \in Queue |-> Items(r)] EXCEPT ![q] = items]
<1>1. "read" \in Side
  BY DEF Side
<1>2. \A r \in Queue \ {q} : Items(r)' = Items(r)
  BY <1>1 DEF Items
<1>3. [r \in Queue |-> Items(r)]' = [[r \in Queue |-> Items(r)] EXCEPT ![q] = items]
  BY <1>2
<1>4. [r \in Queue |-> IF queue[r].used THEN queue[r].len ELSE 0]' =
        [[r \in Queue |-> IF queue[r].used THEN queue[r].len ELSE 0] EXCEPT ![q] = n]
  OBVIOUS
<1>5. {r \in Queue : queue[r].used}' =
        IF used THEN {r \in Queue : queue[r].used} \cup {q} ELSE {r \in Queue : queue[r].used} \ {q}
  OBVIOUS
<1> QED BY <1>3, <1>4, <1>5

\* LOS_QueueCreate is Create.
LEMMA CreateImplements ==
  ASSUME NEW P, QueueInv(P), NEW ctx \in {"task", "isr"}, NEW q \in Queue, NEW len \in Lengths,
         LOS_QueueCreate(ctx, q, len)
  PROVE  Abstract!Next
<1>1. PICK r \in QCB : /\ pc' = pc /\ call' = call /\ got' = got /\ k' = k /\ ~queue[q].used
                       /\ queue' = [queue EXCEPT ![q] = r]
                       /\ r.used /\ r.len = len /\ r.cnt["read"] = 0
  BY QueueCreateEffect DEF QueueInv
<1>2. /\ queue \in [Queue -> QCB] /\ SamePromises /\ \A side \in Side : Promised(q, side) = {}
      /\ "read" \in Side
  BY <1>1, BlockQueueInv DEF QueueInv, QueueLocal, QueueTyped, Balanced, Side
<1>3. queue'[q] = r /\ \A x \in Queue \ {q} : queue'[x] = queue[x]
  BY <1>1, <1>2
<1>4. Items(q)' = <<>>
  <2>1. Promised(q, "read")' = {} /\ Cardinality(Promised(q, "read")') = 0
    BY <1>2, FS_EmptySet DEF SamePromises
  <2>2. Credit(q, "read")' = 0
    BY <1>1, <1>3, <2>1 DEF Credit
  <2>3. Content(q)' = <<>>
    BY <2>2 DEF Content, Ring
  <2> QED BY <1>1, <1>3, <2>3, ItemsContent
<1>5. PICK items : items = Items(q)'
  OBVIOUS
<1>6. PICK used \in BOOLEAN : used = queue'[q].used /\ used
  BY <1>1, <1>3
<1>7. /\ {x \in Queue : queue[x].used}' = {x \in Queue : queue[x].used} \cup {q}
      /\ [x \in Queue |-> IF queue[x].used THEN queue[x].len ELSE 0]' =
           [[x \in Queue |-> IF queue[x].used THEN queue[x].len ELSE 0] EXCEPT ![q] = len]
      /\ [x \in Queue |-> Items(x)]' = [[x \in Queue |-> Items(x)] EXCEPT ![q] = items]
  BY ZenonT(60), <1>1, <1>2, <1>3, <1>5, <1>6, OneQueue DEF SamePromises
<1>8. Abstract!Create(q, len)
  BY <1>1, <1>4, <1>5, <1>7 DEF Abstract!Create
<1> QED BY <1>8 DEF Abstract!Next

\* LOS_QueueDelete is Destroy.
LEMMA DeleteImplements ==
  ASSUME NEW P, QueueInv(P), NEW ctx \in {"task", "isr"}, NEW q \in Queue, LOS_QueueDelete(ctx, q)
  PROVE  Abstract!Next
<1>1. PICK r \in QCB : /\ pc' = pc /\ call' = call /\ got' = got /\ k' = k /\ queue[q].used
                       /\ queue' = [queue EXCEPT ![q] = r] /\ ~r.used
  BY QueueDeleteEffect DEF QueueInv
<1>2. queue \in [Queue -> QCB] /\ SamePromises
  BY BlockQueueInv DEF QueueInv, QueueLocal, QueueTyped
<1>3. queue'[q] = r /\ \A x \in Queue \ {q} : queue'[x] = queue[x]
  BY <1>1, <1>2
<1>4. Items(q)' = <<>>
  BY <1>1, <1>3, ItemsContent
<1>5. PICK items : items = Items(q)'
  OBVIOUS
<1>a. queue'[q].used \in BOOLEAN /\ ~queue'[q].used
  BY <1>1, <1>3 DEF QCB
<1>6. PICK used \in BOOLEAN : used = queue'[q].used /\ ~used
  BY <1>a
<1>7. /\ {x \in Queue : queue[x].used}' = {x \in Queue : queue[x].used} \ {q}
      /\ [x \in Queue |-> IF queue[x].used THEN queue[x].len ELSE 0]' =
           [[x \in Queue |-> IF queue[x].used THEN queue[x].len ELSE 0] EXCEPT ![q] = 0]
      /\ [x \in Queue |-> Items(x)]' = [[x \in Queue |-> Items(x)] EXCEPT ![q] = items]
  BY <1>1, <1>2, <1>3, <1>5, <1>6, OneQueue DEF SamePromises
<1>8. Abstract!Destroy(q)
  BY <1>1, <1>4, <1>5, <1>7 DEF Abstract!Destroy
<1> QED BY <1>8 DEF Abstract!Next

\* A transfer is Get, PutFirst or Put.
LEMMA TransferImplements ==
  ASSUME NEW P, QueueInv(P), NEW q \in Queue, NEW op \in Op, NEW m \in Message, NEW C, NEW W,
         Paid(q, op, m, C, W), Handed(q, op, C, W)
  PROVE  Abstract!Next
<1>1. QueueLocal /\ queue[q].used
  BY DEF QueueInv, Paid
<1>2. /\ queue \in [Queue -> QCB] /\ queue'[q].used /\ queue'[q].len = queue[q].len
      /\ \A r \in Queue \ {q} : queue'[r] = queue[r]
  BY <1>1 DEF Paid, BufferMoved, QueueLocal, QueueTyped
<1>3. \A r \in Queue \ {q}, s \in Side : Promised(r, s)' = Promised(r, s)
  BY <1>1, HandedPromises
<1>4. PICK before : before = Content(q)
  OBVIOUS
<1>5. PICK after : after = Content(q)'
  OBVIOUS
<1>6. Items(q) = before /\ Items(q)' = after
  BY <1>1, <1>2, <1>4, <1>5, ItemsContent
<1>7. PICK used \in BOOLEAN : used = queue'[q].used /\ used
  BY <1>2
<1>8. PICK len : len = queue[q].len
  OBVIOUS
<1>9. /\ {x \in Queue : queue[x].used}' = {x \in Queue : queue[x].used} \cup {q}
      /\ [x \in Queue |-> IF queue[x].used THEN queue[x].len ELSE 0]' =
           [[x \in Queue |-> IF queue[x].used THEN queue[x].len ELSE 0] EXCEPT ![q] = len]
      /\ [x \in Queue |-> Items(x)]' = [[x \in Queue |-> Items(x)] EXCEPT ![q] = after]
  BY <1>2, <1>3, <1>6, <1>7, <1>8, OneQueue
<1>10. /\ {x \in Queue : queue[x].used}' = {x \in Queue : queue[x].used}
       /\ q \in {x \in Queue : queue[x].used}
  BY <1>1, <1>9
<1>11. [x \in Queue |-> IF queue[x].used THEN queue[x].len ELSE 0]' =
         [x \in Queue |-> IF queue[x].used THEN queue[x].len ELSE 0]
  BY <1>1, <1>8, <1>9
<1>12. [x \in Queue |-> Items(x)][q] = before
  BY <1>6
<1>13. CASE op = "ReadHead"
  <2>1. /\ before # <<>> /\ after = Tail(before)
        /\ Head(before) = queue[q].node[queue[q].head]
    BY <1>1, <1>4, <1>5, <1>13, ContentStep
  <2>2. got' = [got EXCEPT ![q] = Head(before)]
    BY <1>13, <2>1 DEF Paid
  <2>3. Abstract!Get(q)
    BY <1>9, <1>10, <1>11, <1>12, <2>1, <2>2 DEF Abstract!Get
  <2> QED BY <2>3 DEF Abstract!Next
<1>14. CASE op # "ReadHead"
  <2>1. got' = got
    BY <1>14 DEF Paid
  <2>2. Credit(q, "read") < queue[q].len
    BY <1>1, <1>14, ContentStep
  <2>3. Len(before) < [x \in Queue |-> IF queue[x].used THEN queue[x].len ELSE 0][q]
    <3>1. Credit(q, "read") \in Nat
      BY <1>1, RingFacts
    <3>2. Len(before) = Credit(q, "read")
      BY <1>4, <3>1 DEF Content, Ring
    <3> QED BY <1>1, <2>2, <3>2
  <2>4. CASE op = "WriteHead"
    <3>1. after = <<m>> \o before
      BY <1>1, <1>4, <1>5, <2>4, ContentStep
    <3>2. Abstract!PutFirst(q, m)
      BY <1>9, <1>10, <1>11, <1>12, <2>1, <2>3, <3>1 DEF Abstract!PutFirst
    <3> QED BY <3>2 DEF Abstract!Next
  <2>5. CASE op = "WriteTail"
    <3>1. after = Append(before, m)
      BY <1>1, <1>4, <1>5, <2>5, ContentStep
    <3>2. Abstract!Put(q, m)
      BY <1>9, <1>10, <1>11, <1>12, <2>1, <2>3, <3>1 DEF Abstract!Put
    <3> QED BY <3>2 DEF Abstract!Next
  <2> QED BY <1>14, <2>4, <2>5 DEF Op
<1> QED BY <1>13, <1>14

\* Every step is a step of the abstract queues, or leaves them alone.
LEMMA QueueStepImplements ==
  ASSUME NEW P, HasQueue(P), QueueInv(P), ~IsrRaces, [QueueNext]_queueVars
  PROVE  [Abstract!Next]_(Abstract!queueVars)
<1>1. ASSUME NEW ctx \in {"task", "isr"}, NEW q \in Queue, NEW op \in Op, NEW m \in Payload(op),
             OperateNow(ctx, q, op, m)
      PROVE  Abstract!Next
  <2>1. m \in Message
    BY PayloadFacts
  <2>2. PICK C, W : IInv(P)' /\ Paid(q, op, m, C, W) /\ Handed(q, op, C, W)
    BY <1>1, <2>1, OperateNowEffect
  <2> QED BY <2>1, <2>2, TransferImplements
<1>2. CASE OperateReturn
  <2>1. CASE "TIMEOUT" \in k.status[k.run]
    BY <1>2, <2>1, TimeoutInv, QueuesStutter
  <2>2. CASE "TIMEOUT" \notin k.status[k.run]
    <3>1. PICK t : t = k.run
      OBVIOUS
    <3>2. PICK q \in Queue, op \in Op, m \in Message :
            \E C, W : IInv(P)' /\ Paid(q, op, m, C, W) /\ Handed(q, op, C, W)
      BY <1>2, <2>2, <3>1, OperateReturnEffect
    <3>3. PICK C, W : IInv(P)' /\ Paid(q, op, m, C, W) /\ Handed(q, op, C, W)
      BY <3>2
    <3> QED BY <3>3, TransferImplements
  <2> QED BY <2>1, <2>2
<1>3. ASSUME NEW ctx \in {"task", "isr"}, NEW q \in Queue,
             (\E len \in Lengths : LOS_QueueCreate(ctx, q, len)) \/ LOS_QueueDelete(ctx, q)
      PROVE  Abstract!Next
  BY <1>3, CreateImplements, DeleteImplements
<1>4. ASSUME NEW q \in Queue, NEW op \in Op, NEW timeout \in CallTimeouts, NEW m \in Payload(op),
             OperateWait(q, op, m, timeout)
      PROVE  UNCHANGED Abstract!queueVars
  <2>1. m \in Message
    BY PayloadFacts
  <2> QED BY <1>4, <2>1, OperateWaitInv, QueuesStutter
<1>5. CASE OperateSchedule
  BY <1>5, OperateScheduleInv, QueuesStutter
<1>6. CASE [Next]_vars /\ UNCHANGED <<queue, call, got>>
  BY <1>6, TaskStepQueue, QueuesStutter
<1>7. CASE QueueCallNext
  BY <1>1, <1>2, <1>3, <1>4, <1>5, <1>7 DEF QueueCallNext
<1> QED BY <1>6, <1>7 DEF QueueNext, queueVars, vars

\* No queue exists at the start.
LEMMA QueueInitImplements ==
  ASSUME QueueInit
  PROVE  Abstract!Init
<1>1. /\ \A q \in Queue : ~queue[q].used
      /\ got = [q \in Queue |-> AnyMessage]
  BY DEF QueueInit
<1>2. got \in [Queue -> Message]
  <2>1. AnyMessage \in Message
    BY QueueAssumption DEF AnyMessage
  <2> QED BY <1>1, <2>1
<1>3. \A q \in Queue : Items(q) = <<>>
  BY <1>1, ItemsContent
<1>4. {q \in Queue : queue[q].used} = {} /\ [q \in Queue |-> Items(q)] = [q \in Queue |-> <<>>]
  BY <1>1, <1>3
<1>5. [q \in Queue |-> IF queue[q].used THEN queue[q].len ELSE 0] = [q \in Queue |-> 0]
  BY <1>1
<1> QED BY <1>2, <1>4, <1>5 DEF Abstract!Init

\* The queues implement the abstract ones, for every number of tasks and
\* queues, every length and every choice of messages: each message put into a
\* queue is delivered once, in its place, whatever order blocked readers and
\* writers are woken and run in, and a call that timed out moves none.
THEOREM QueuesKeepTheirPromise ==
  ASSUME ~IsrRaces
  PROVE  QueueSpec => ImplementsBoundedQueue
<1>0. HasQueue(QueuePoints)
  BY DEF HasQueue, Points, QueuePoints, QAt, PC
<1>1. QueueInit => Abstract!Init
  BY QueueInitImplements
<1>2. QueueInv(QueuePoints) /\ [QueueNext]_queueVars => [Abstract!Next]_(Abstract!queueVars)
  BY <1>0, QueueStepImplements
<1> QED BY <1>1, <1>2, QueueInvariance, PTL DEF QueueSpec, ImplementsBoundedQueue, Abstract!Spec
=============================================================================
