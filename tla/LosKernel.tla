------------------------------ MODULE LosKernel ------------------------------
(***************************************************************************)
(* The kernel data of the LiteOS scheduler and the internal routines every *)
(* kernel object is built from: the priority ready queue (los_priqueue.c), *)
(* the timeout list, blocking and waking a task (los_task.c), and the two  *)
(* halves of a context switch (los_hw.c, PendSV).                          *)
(*                                                                         *)
(* The module has no variables.  A kernel state is a record k and a        *)
(* routine is an operator from kernel states to kernel states, so that an  *)
(* action of a module that uses it composes the routines in the order the  *)
(* C function calls them.  A routine that the code runs with interrupts    *)
(* masked is one operator application.                                     *)
(***************************************************************************)
EXTENDS Naturals, Sequences, SequencesExt

CONSTANTS
  Task,        \* the control blocks application tasks are created in
  Idle,        \* the idle task
  Dummy,       \* g_pstTaskCBArray[g_uwTskMaxNum], stands in for a task that deleted itself
  NoTask,      \* the NULL task pointer
  WaitList,    \* the heads of the lists tasks wait on (semaphores, mutexes, queues, events)
  Lowest,      \* OS_TASK_PRIORITY_LOWEST, the priority of the idle task only
  TimeSlice    \* LOSCFG_BASE_CORE_TIMESLICE_TIMEOUT, in ticks

Pri    == 0 .. Lowest
TaskID == Task \cup {Idle}
CB     == TaskID \cup {Dummy}

ASSUME LowestAssumption == Lowest \in Nat \ {0}
ASSUME SliceAssumption == TimeSlice \in Nat \ {0}
ASSUME TaskAssumption ==
  /\ Idle \notin Task
  /\ Dummy \notin TaskID
  /\ NoTask \notin CB
ASSUME WaitListAssumption == WaitList \cap Pri = {}

(***************************************************************************)
(* usTaskStatus is a set of flags.  OS_TASK_STATUS_EVENT is never set by   *)
(* the code and is left out.                                               *)
(***************************************************************************)
Flag == {"UNUSED", "SUSPEND", "READY", "PEND", "RUNNING", "DELAY",
         "TIMEOUT", "PEND_QUEUE"}

Waiting == {"PEND", "PEND_QUEUE"}

\* OS_CHECK_TASK_BLOCK: what keeps a task out of the ready queue.
TaskBlock == {"DELAY", "PEND", "SUSPEND", "PEND_QUEUE"}

(***************************************************************************)
(* list[h] is the doubly linked list with head h.  A task owns a single    *)
(* node for all of them (stPendList): list[p] for a priority p is one list *)
(* of the ready queue, list[w] for a wait list w holds the tasks blocked   *)
(* on a kernel object.  timer and left are the timeout list and the ticks  *)
(* a task in it has left (the sort link that stores them is LosSortLink).  *)
(* run, new and lock are g_stLosTask and g_usLosTaskLock; pendSV is the    *)
(* pending bit of the PendSV exception; scan and need are the tick handler *)
(* inside osTaskScan and its local bNeedSchedule; round is the task the    *)
(* scan has at hand (pstTaskCB) and the status it read (usTempStatus),     *)
(* while a handler may come in between; slice is g_stTaskTimeSlice.  fault *)
(* records that a list routine followed a NULL link, the outcome of which  *)
(* is a HardFault.                                                         *)
(***************************************************************************)
ListHead == Pri \cup WaitList

NoRound == [task |-> NoTask, status |-> {}]

Kernel == [status : [CB -> SUBSET Flag],
           prio   : [TaskID -> Pri],
           list   : [ListHead -> Seq(TaskID)],
           bitmap : SUBSET Pri,
           timer  : SUBSET TaskID,
           left   : [TaskID -> Nat],
           run    : CB,
           new    : CB,
           lock   : Nat,
           pendSV : BOOLEAN,
           scan   : BOOLEAN,
           need   : BOOLEAN,
           round  : [task : TaskID \cup {NoTask}, status : SUBSET Flag],
           slice  : [task : CB, left : Nat \ {0}] \cup [task : {NoTask}, left : {0}],
           fault  : BOOLEAN]

-----------------------------------------------------------------------------
(* Lists *)

Unlink(s, t) ==
  IF t \in ToSet(s) THEN RemoveAt(s, CHOOSE i \in DOMAIN s : s[i] = t) ELSE s

IsLinked(k, t) == \E h \in ListHead : t \in ToSet(k.list[h])

\* LOS_ListDelete(&pstTaskCB->stPendList): the node leaves the list it is on.
\* A node that is on no list has NULL links, which the routine dereferences.
ListDelete(k, t) ==
  IF IsLinked(k, t)
  THEN [k EXCEPT !.list = [h \in ListHead |-> Unlink(k.list[h], t)]]
  ELSE [k EXCEPT !.fault = TRUE]

ListTailInsert(k, h, t) == [k EXCEPT !.list[h] = Append(@, t)]

SetFlags(k, t, F)   == [k EXCEPT !.status[t] = @ \cup F]
ClearFlags(k, t, F) == [k EXCEPT !.status[t] = @ \ F]

-----------------------------------------------------------------------------
(* The priority ready queue *)

osPriqueueEnqueue(k, t) ==
  LET p  == k.prio[t]
      k1 == IF k.list[p] = <<>> THEN [k EXCEPT !.bitmap = @ \cup {p}] ELSE k
  IN  ListTailInsert(k1, p, t)

osPriqueueDequeue(k, t) ==
  LET p  == k.prio[t]
      k1 == ListDelete(k, t)
  IN  IF k1.list[p] = <<>> THEN [k1 EXCEPT !.bitmap = @ \ {p}] ELSE k1

\* CLZ of the bitmap is the most urgent priority; NULL when it is empty.
osPriqueueTop(k) ==
  LET Urgent(p) == p \in k.bitmap /\ \A q \in k.bitmap : p <= q
  IN  IF \E p \in Pri : Urgent(p) /\ k.list[p] # <<>>
      THEN Head(k.list[CHOOSE p \in Pri : Urgent(p)])
      ELSE Dummy

osPriqueueSize(k, p) == Len(k.list[p])

\* The two lines that put a task in the ready queue, and take it out.
MakeReady(k, t)   == osPriqueueEnqueue(SetFlags(k, t, {"READY"}), t)
MakeUnready(k, t) == ClearFlags(osPriqueueDequeue(k, t), t, {"READY"})

\* Mutant: a ready task stays on the list of its old priority.
PriModify_NoRequeue(k, t, p) == [k EXCEPT !.prio[t] = p]

osTaskPriModify(k, t, p) ==
  IF "READY" \in k.status[t]
  THEN MakeReady([MakeUnready(k, t) EXCEPT !.prio[t] = p], t)
  ELSE [k EXCEPT !.prio[t] = p]

-----------------------------------------------------------------------------
(* The timeout list *)

osTaskAdd2TimerList(k, t, timeout) ==
  [k EXCEPT !.timer = @ \cup {t}, !.left[t] = timeout]

\* Unlinking a node that is not on the list follows the NULL links the first
\* LOS_ListDelete left in it.
osTimerListDelete(k, t) ==
  IF t \in k.timer
  THEN [k EXCEPT !.timer = @ \ {t}, !.left[t] = 0]
  ELSE [k EXCEPT !.fault = TRUE]

-----------------------------------------------------------------------------
(* Blocking and waking a task *)

\* The running task joins a wait list; timeout is LOS_WAIT_FOREVER or ticks.
Forever == 0

osTaskWait(k, w, flag, timeout) ==
  LET t  == k.run
      k1 == SetFlags(MakeUnready(k, t), t, {flag})
      k2 == ListTailInsert(k1, w, t)
  IN  IF timeout = Forever
      THEN k2
      ELSE osTaskAdd2TimerList(SetFlags(k2, t, {"TIMEOUT"}), t, timeout)

osTaskWake(k, t, flag) ==
  LET k1 == ClearFlags(ListDelete(k, t), t, {flag})
      k2 == IF "TIMEOUT" \in k1.status[t]
            THEN ClearFlags(osTimerListDelete(k1, t), t, {"TIMEOUT"})
            ELSE k1
  IN  IF "SUSPEND" \in k2.status[t] THEN k2 ELSE MakeReady(k2, t)

\* Mutants: a suspended task is left for the next tick; a suspended task is
\* made ready.
Scan_SkipsSuspended(k, t, usTempStatus) ==
  LET k1 == [k EXCEPT !.timer = @ \ {t}, !.left[t] = 0]
      k2 == IF usTempStatus \cap Waiting # {} THEN ListDelete(k1, t) ELSE k1
  IN  IF "SUSPEND" \in usTempStatus
      THEN [k EXCEPT !.left[t] = 1]
      ELSE [MakeReady(ClearFlags(k2, t, Waiting \cup {"DELAY"}), t) EXCEPT !.need = TRUE]

Scan_IgnoresSuspend(k, t, usTempStatus) ==
  LET k1 == [k EXCEPT !.timer = @ \ {t}, !.left[t] = 0]
      k2 == IF usTempStatus \cap Waiting # {} THEN ListDelete(k1, t) ELSE k1
  IN  [MakeReady(ClearFlags(k2, t, Waiting \cup {"DELAY"}), t) EXCEPT !.need = TRUE]

\* One round of the loop of osTaskScan, with the status it has read: task t,
\* whose time is up, leaves the timeout list and what it waits for.  TIMEOUT
\* stays set: the call that blocked reads it when the task runs again.
ScanTask(k, t, usTempStatus) ==
  LET k1 == [k EXCEPT !.timer = @ \ {t}, !.left[t] = 0]
      waits == usTempStatus \cap Waiting
      k2 == IF waits # {}
            THEN ClearFlags(ListDelete(k1, t), t,
                            IF "PEND" \in waits THEN {"PEND"} ELSE {"PEND_QUEUE"})
            ELSE ClearFlags(k1, t, {"DELAY"})
  IN  IF "SUSPEND" \in usTempStatus
      THEN k2
      ELSE [MakeReady(k2, t) EXCEPT !.need = TRUE]

-----------------------------------------------------------------------------
(* The context switch *)

\* Mutant: the scheduler lock is not looked at.
Schedule_IgnoresLock(k) ==
  LET top == osPriqueueTop(k)
  IN  [k EXCEPT !.new = top, !.pendSV = @ \/ k.run # top]

LOS_Schedule(k) ==
  LET top == osPriqueueTop(k)
  IN  [k EXCEPT !.new = top, !.pendSV = @ \/ (k.run # top /\ k.lock = 0)]

\* The exception that osTaskSchedule pends: it switches to whatever
\* pstNewTask is by then.
PendSVHandler(k) ==
  [SetFlags(ClearFlags(k, k.run, {"RUNNING"}), k.new, {"RUNNING"})
     EXCEPT !.run = k.new, !.pendSV = FALSE]

\* Mutant: off by one in the number of tasks of the priority.
CanYield_OffByOne(k) ==
  /\ k.run # Dummy
  /\ "READY" \in k.status[k.run]
  /\ osPriqueueSize(k, k.prio[k.run]) > 2

\* LOS_TaskYield has something to do only when another ready task shares the
\* priority of the running one.
CanYield(k) ==
  /\ k.run # Dummy
  /\ "READY" \in k.status[k.run]
  /\ osPriqueueSize(k, k.prio[k.run]) > 1

Requeue(k) == osPriqueueEnqueue(ListDelete(k, k.run), k.run)

\* osTimesliceCheck of the tick handler.  slice.left is usTime - g_ullTickCount
\* at the end of the tick, 0 meaning that the slice ends at this tick.
osTimesliceCheck(k) ==
  LET left == IF k.slice.task # k.run THEN TimeSlice - 1 ELSE k.slice.left - 1
      k1   == IF CanYield(k) THEN LOS_Schedule(Requeue(k)) ELSE k
  IN  IF left = 0
      THEN [k1 EXCEPT !.slice = [task |-> NoTask, left |-> 0]]
      ELSE [k EXCEPT !.slice = [task |-> k.run, left |-> left]]

-----------------------------------------------------------------------------
(* What a kernel state satisfies *)

\* Every ready task is on the list of its priority, once, every blocked task
\* on one wait list, once, and a bit is set exactly when its list has a task.
ListsOK(k) ==
  /\ \A h \in ListHead : IsInjective(k.list[h])
  /\ \A g, h \in ListHead : g # h => ToSet(k.list[g]) \cap ToSet(k.list[h]) = {}
  /\ \A t \in TaskID, p \in Pri :
       t \in ToSet(k.list[p]) <=> "READY" \in k.status[t] /\ k.prio[t] = p
  /\ \A t \in TaskID :
       (\E w \in WaitList : t \in ToSet(k.list[w])) <=> k.status[t] \cap Waiting # {}
  /\ k.bitmap = {p \in Pri : k.list[p] # <<>>}

\* A created task is ready or something that will end keeps it from being so.
StatusOK(k) ==
  \A t \in TaskID :
    \/ k.status[t] = {"UNUSED"}
    \/ /\ "UNUSED" \notin k.status[t]
       /\ "READY" \in k.status[t] <=> k.status[t] \cap TaskBlock = {}
       /\ \A f, g \in k.status[t] \cap (Waiting \cup {"DELAY"}) : f = g

\* The timeout list holds the tasks that wait with a time limit.
TimerOK(k) ==
  /\ k.timer = {t \in TaskID :
                  \/ "DELAY" \in k.status[t]
                  \/ "TIMEOUT" \in k.status[t] /\ k.status[t] \cap Waiting # {}}
  /\ \A t \in k.timer : k.left[t] = 0 => k.scan
  /\ k.need => k.scan

\* One control block is marked RUNNING, the one the processor executes.
RunOK(k) == \A t \in CB : "RUNNING" \in k.status[t] <=> t = k.run

\* Nothing is done under the task lock that pends a switch.
LockOK(k) == k.pendSV \/ k.run = Dummy => k.lock = 0

KernelOK(k) == ListsOK(k) /\ StatusOK(k) /\ TimerOK(k) /\ RunOK(k) /\ LockOK(k)
=============================================================================
