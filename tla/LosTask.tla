------------------------------- MODULE LosTask -------------------------------
(***************************************************************************)
(* The task manager and scheduler of LiteOS on one Cortex-M core           *)
(* (los_task.c, los_tick.c, los_timeslice.c, los_hw.c, PendSV).            *)
(*                                                                         *)
(* An action is one stretch of code that runs with interrupts masked, or   *)
(* one round of osTaskScan.  Between two of them an interrupt may occur:   *)
(* the tick, or a handler of the application that calls the kernel, but    *)
(* see the rules of handlers below.  PendSV has the lowest interrupt       *)
(* priority, so the only code that can see what a handler left half done   *)
(* is another handler: a kernel call made by a handler is one action,      *)
(* while a call made by a task is split at the point where it unmasks the  *)
(* interrupts before it calls LOS_Schedule.  The instruction that pends    *)
(* PendSV counts to the critical section before it: an interrupt between   *)
(* the two finds the same data as one that comes before PendSV is taken.   *)
(***************************************************************************)
EXTENDS LosKernel

CONSTANTS
  BootQueue,   \* the ready lists when LOS_Start starts the first task
  TaskCalls,   \* the kernel calls the tasks make
  IsrCalls,    \* the kernel calls the interrupt handlers make
  Delays,      \* the timeouts passed to the kernel, in ticks
  MaxLock,     \* bound on the nesting of LOS_TaskLock
  IsrRaces     \* handlers break the rules of handlers (see below)

ASSUME BootAssumption ==
  /\ BootQueue \in [Pri -> Seq(TaskID)]
  /\ \A p \in Pri : \A i, j \in DOMAIN BootQueue[p] :
       BootQueue[p][i] = BootQueue[p][j] => i = j
  /\ \A p, q \in Pri : \A i \in DOMAIN BootQueue[p] : \A j \in DOMAIN BootQueue[q] :
       BootQueue[p][i] = BootQueue[q][j] => p = q
  /\ BootQueue[Lowest] = <<Idle>>
ASSUME BoundsAssumption ==
  Delays \subseteq Nat \ {0} /\ MaxLock \in Nat /\ IsrRaces \in BOOLEAN

(***************************************************************************)
(* The rules of handlers.  There are two places where the code does not    *)
(* stand a handler that calls the kernel, and unless IsrRaces the handlers *)
(* keep out of them:                                                       *)
(*                                                                         *)
(*   - osTaskScan does not mask the interrupts (los_task.c:254-293).  It   *)
(*     goes on with the task and the status it has read, whatever a        *)
(*     handler has done to them.  A handler that calls the kernel has the  *)
(*     priority of SysTick then, so that it does not interrupt the scan.   *)
(*   - LOS_TaskSuspend does not choose another task when it suspends the   *)
(*     one a pending switch leads to (los_task.c:978).                     *)
(***************************************************************************)

VARIABLES
  k,    \* the kernel state
  pc    \* pc[t]: what task t does when it runs next

vars == <<k, pc>>

\* Interrupted or switched out, a task is in its own code, or has blocked,
\* woken or moved a task and is about to call LOS_Schedule, or its entry
\* function has returned and it is about to delete itself.
PC == {"user", "schedule", "exit"}

BootTasks == UNION {ToSet(BootQueue[p]) : p \in Pri}
BootPrio(t) == IF t \in BootTasks
               THEN CHOOSE p \in Pri : t \in ToSet(BootQueue[p]) ELSE 0
BootBitmap == {p \in Pri : BootQueue[p] # <<>>}
First == Head(BootQueue[CHOOSE p \in BootBitmap : \A q \in BootBitmap : p <= q])

\* osTaskInit, the tasks the application creates before LOS_Start, and
\* LOS_StartToRun.
KernelInit ==
  [status |-> [t \in CB |-> IF t = First THEN {"READY", "RUNNING"}
                            ELSE IF t \in BootTasks THEN {"READY"} ELSE {"UNUSED"}],
   prio   |-> [t \in TaskID |-> BootPrio(t)],
   list   |-> [h \in ListHead |-> IF h \in Pri THEN BootQueue[h] ELSE <<>>],
   bitmap |-> BootBitmap,
   timer  |-> {},
   left   |-> [t \in TaskID |-> 0],
   run    |-> First,
   new    |-> First,
   lock   |-> 0,
   pendSV |-> FALSE,
   scan   |-> FALSE,
   need   |-> FALSE,
   round  |-> NoRound,
   slice  |-> [task |-> NoTask, left |-> 0],
   fault  |-> FALSE]

Init == /\ k = KernelInit
        /\ pc = [t \in TaskID |-> "user"]

-----------------------------------------------------------------------------
(* Who runs *)

\* Code of task t executes: no handler is active and no switch is pending.
Runs(t) == k.run = t /\ ~k.pendSV /\ ~k.scan /\ ~k.fault

\* The running task is at the point here of its code.
At(here) == k.run \in TaskID /\ Runs(k.run) /\ pc[k.run] = here

Goto(there) == pc' = [pc EXCEPT ![k.run] = there]

\* Code that may make the kernel call named by op.
Calls(ctx, op) ==
  \/ ctx = "task" /\ op \in TaskCalls /\ k.run # Idle /\ At("user")
  \/ ctx = "isr" /\ op \in IsrCalls /\ ~k.fault /\ (k.scan => IsrRaces)

\* The call leaves the kernel in state k1 and then calls LOS_Schedule: a
\* handler at once, a task after a window in which an interrupt may occur.
ThenSchedule(ctx, k1) ==
  IF ctx = "isr"
  THEN k' = LOS_Schedule(k1) /\ UNCHANGED pc
  ELSE k' = k1 /\ Goto("schedule")

ThenReturn(k1) == k' = k1 /\ UNCHANGED pc

Created(t) == "UNUSED" \notin k.status[t]

-----------------------------------------------------------------------------
(* Kernel calls of the task manager *)

LOS_TaskCreateOnly(ctx, t, p) ==
  /\ Calls(ctx, "CreateOnly")
  /\ ~Created(t) /\ p < Lowest
  /\ ThenReturn([k EXCEPT !.status[t] = {"SUSPEND"}, !.prio[t] = p])

LOS_TaskCreate(ctx, t, p) ==
  /\ Calls(ctx, "Create")
  /\ ~Created(t) /\ p < Lowest
  /\ LET k1 == [k EXCEPT !.status[t] = {"SUSPEND"}, !.prio[t] = p]
         k2 == MakeReady(ClearFlags(k1, t, {"SUSPEND"}), t)
         k3 == [k2 EXCEPT !.new = osPriqueueTop(k2)]
     IN  ThenReturn([k3 EXCEPT !.pendSV = @ \/ (k3.lock = 0 /\ k3.run # k3.new)])

LOS_TaskResume(ctx, t) ==
  /\ Calls(ctx, "Resume")
  /\ Created(t) /\ "SUSPEND" \in k.status[t]
  /\ LET k1 == ClearFlags(k, t, {"SUSPEND"})
     IN  IF k1.status[t] \cap TaskBlock = {}
         THEN ThenSchedule(ctx, MakeReady(k1, t))
         ELSE ThenReturn(k1)

\* Mutant: the running task is suspended although the scheduler is locked.
Suspend_IgnoresLock(ctx, t) ==
  /\ Calls(ctx, "Suspend")
  /\ Created(t) /\ "SUSPEND" \notin k.status[t]
  /\ LET k1 == IF "READY" \in k.status[t] THEN MakeUnready(k, t) ELSE k
         k2 == SetFlags(k1, t, {"SUSPEND"})
     IN  IF t = k.run THEN ThenSchedule(ctx, k2) ELSE ThenReturn(k2)

\* A switch is pending, or about to be, that leads to t.
SwitchLeadsTo(t) == (k.pendSV \/ k.run = Dummy) /\ k.new = t /\ k.run # t

LOS_TaskSuspend(ctx, t) ==
  /\ Calls(ctx, "Suspend")
  /\ SwitchLeadsTo(t) => IsrRaces
  /\ Created(t) /\ "SUSPEND" \notin k.status[t]
  /\ ~("RUNNING" \in k.status[t] /\ k.lock # 0)
  /\ LET k1 == IF "READY" \in k.status[t] THEN MakeUnready(k, t) ELSE k
         k2 == SetFlags(k1, t, {"SUSPEND"})
     IN  IF t = k.run THEN ThenSchedule(ctx, k2) ELSE ThenReturn(k2)

\* Mutants: the pending switch still leads to the deleted task; it stays on the
\* list it waits on.
Delete_KeepsNewTask(kern, t) ==
  LET st == kern.status[t]
      k1 == IF "RUNNING" \in st THEN [kern EXCEPT !.lock = 0] ELSE kern
      k2 == IF "READY" \in st THEN MakeUnready(k1, t) ELSE k1
      k3 == IF "DELAY" \in st THEN osTimerListDelete(k2, t) ELSE k2
      k4 == [k3 EXCEPT !.status[t] = {"UNUSED"}]
  IN  IF "RUNNING" \in st
      THEN [k4 EXCEPT !.run = Dummy, !.new = osPriqueueTop(k3),
                      !.status[Dummy] = (st \ {"READY", "SUSPEND"}) \cup {"UNUSED"}]
      ELSE k4

Delete_KeepsWaiting(kern, t) ==
  LET st == kern.status[t]
      k2 == IF "READY" \in st THEN MakeUnready(kern, t) ELSE kern
      k3 == IF "TIMEOUT" \in st THEN osTimerListDelete(k2, t) ELSE k2
  IN  [k3 EXCEPT !.status[t] = {"UNUSED"}, !.new = osPriqueueTop(k3)]

\* What LOS_TaskDelete does to the kernel.  A task that deletes itself goes on
\* as Dummy until the switch it requests; its own control block is free at once.
TaskDelete(kern, t) ==
  LET st == kern.status[t]
      k1 == IF "RUNNING" \in st THEN [kern EXCEPT !.lock = 0] ELSE kern
      k2 == IF "READY" \in st THEN MakeUnready(k1, t)
            ELSE IF st \cap Waiting # {} THEN ListDelete(k1, t)
            ELSE k1
      k3 == IF st \cap {"DELAY", "TIMEOUT"} # {} THEN osTimerListDelete(k2, t) ELSE k2
      k4 == [k3 EXCEPT !.status[t] = {"UNUSED"}, !.new = osPriqueueTop(k3)]
  IN  IF "RUNNING" \in st
      THEN [k4 EXCEPT !.run = Dummy,
                      !.status[Dummy] = (st \ {"READY", "SUSPEND"}) \cup {"UNUSED"}]
      ELSE k4

\* A list routine that faults stops the system where it is.
Halt == k' = [k EXCEPT !.fault = TRUE] /\ UNCHANGED pc

\* Deleting the running task ends with osSchedule, which a handler executes
\* at once and the remains of a task in DeadTaskSchedule.
LOS_TaskDelete(ctx, t) ==
  /\ Calls(ctx, "Delete")
  /\ Created(t)
  /\ LET k1 == TaskDelete(k, t)
     IN  IF k1.fault THEN Halt
         ELSE /\ k' = [k1 EXCEPT !.pendSV = @ \/ (ctx = "isr" /\ t = k.run)]
              /\ pc' = [pc EXCEPT ![t] = "user"]

\* osTaskEntry when the entry function of the running task returns.  Nothing
\* is masked when it gives up the scheduler lock.
osTaskEntry ==
  /\ Calls("task", "Exit")
  /\ k' = [k EXCEPT !.lock = 0]
  /\ Goto("exit")

\* Its LOS_TaskDelete of the running task.
osTaskEntryDelete ==
  /\ At("exit") /\ k.run # Idle
  /\ k' = TaskDelete(k, k.run)
  /\ Goto("user")

DeadTaskSchedule ==
  /\ Runs(Dummy)
  /\ k' = [k EXCEPT !.pendSV = TRUE]
  /\ UNCHANGED pc

\* Mutant: the task lock does not refuse the call.
Delay_IgnoresLock(n) ==
  /\ Calls("task", "Delay")
  /\ LET k1 == MakeUnready(k, k.run)
         k2 == osTaskAdd2TimerList(k1, k.run, n)
     IN  IF k1.fault THEN Halt
         ELSE ThenSchedule("task", SetFlags(k2, k.run, {"DELAY"}))

LOS_TaskDelay(n) ==
  /\ Calls("task", "Delay")
  /\ k.lock = 0
  /\ LET k1 == MakeUnready(k, k.run)
         k2 == osTaskAdd2TimerList(k1, k.run, n)
     IN  IF k1.fault THEN Halt
         ELSE ThenSchedule("task", SetFlags(k2, k.run, {"DELAY"}))

\* Also LOS_TaskDelay(0).
LOS_TaskYield ==
  /\ Calls("task", "Yield")
  /\ CanYield(k)
  /\ ThenSchedule("task", Requeue(k))

\* Also LOS_CurTaskPriSet.  The guide forbids it in handlers.
LOS_TaskPriSet(t, p) ==
  /\ Calls("task", "PriSet")
  /\ Created(t)
  /\ IF "READY" \in k.status[t]
     THEN ThenSchedule("task", osTaskPriModify(k, t, p))
     ELSE ThenReturn(osTaskPriModify(k, t, p))

LOS_TaskLock ==
  /\ Calls("task", "Lock")
  /\ k.lock < MaxLock
  /\ ThenReturn([k EXCEPT !.lock = @ + 1])

\* Mutants: the count goes below zero; the last unlock does not schedule.
Unlock_Unguarded ==
  /\ Calls("task", "Lock")
  /\ ThenReturn([k EXCEPT !.lock = @ - 1])

Unlock_NoSchedule ==
  /\ Calls("task", "Lock")
  /\ k.lock > 0
  /\ ThenReturn([k EXCEPT !.lock = @ - 1])

LOS_TaskUnlock ==
  /\ Calls("task", "Lock")
  /\ k.lock > 0
  /\ LET k1 == [k EXCEPT !.lock = @ - 1]
     IN  IF k1.lock = 0 THEN ThenSchedule("task", k1) ELSE ThenReturn(k1)

-----------------------------------------------------------------------------
(* The scheduler and the tick *)

\* A task reaches the LOS_Schedule call that ends its kernel call.
Schedule == At("schedule") /\ k' = LOS_Schedule(k) /\ Goto("user")

PendSV ==
  /\ k.pendSV /\ ~k.scan /\ ~k.fault
  /\ k' = PendSVHandler(k)
  /\ UNCHANGED pc

\* osTickHandler up to the scan of the timeout list, which it enters.
Tick ==
  /\ ~k.scan /\ ~k.fault
  /\ LET k1 == osTimesliceCheck(k)
     IN  k' = [k1 EXCEPT !.left = [t \in TaskID |-> IF t \in k1.timer
                                                    THEN k1.left[t] - 1 ELSE k1.left[t]],
                         !.scan = TRUE]
  /\ UNCHANGED pc

Expired == {t \in k.timer : k.left[t] = 0}

\* One round of the scan.  If a handler may come in between, its first half
\* chooses a task and reads its status, and its second half, which unlinks the
\* task, uses both: LOS_ListDelete of a node that is on no list any more follows
\* NULL links.
osTaskScan(t) ==
  /\ k.scan /\ ~k.fault
  /\ IF ~IsrRaces
     THEN t \in Expired /\ k' = ScanTask(k, t, k.status[t])
     ELSE IF k.round = NoRound
     THEN t \in Expired /\ k' = [k EXCEPT !.round = [task |-> t, status |-> k.status[t]]]
     ELSE /\ t = k.round.task
          /\ k' = IF t \in k.timer
                  THEN [ScanTask(k, t, k.round.status) EXCEPT !.round = NoRound]
                  ELSE [k EXCEPT !.fault = TRUE]
  /\ UNCHANGED pc

osTaskScanEnd ==
  /\ k.scan /\ ~k.fault /\ Expired = {} /\ k.round = NoRound
  /\ LET k1 == IF k.need THEN LOS_Schedule(k) ELSE k
     IN  k' = [k1 EXCEPT !.scan = FALSE, !.need = FALSE]
  /\ UNCHANGED pc

-----------------------------------------------------------------------------

TaskNext ==
  \/ \E ctx \in {"task", "isr"}, t \in Task :
       \/ \E p \in Pri : \/ LOS_TaskCreateOnly(ctx, t, p)
                         \/ LOS_TaskCreate(ctx, t, p)
       \/ LOS_TaskResume(ctx, t)
       \/ LOS_TaskSuspend(ctx, t)
       \/ LOS_TaskDelete(ctx, t)
  \/ \E t \in Task, p \in Pri : LOS_TaskPriSet(t, p)
  \/ \E n \in Delays : LOS_TaskDelay(n)
  \/ osTaskEntry
  \/ osTaskEntryDelete
  \/ LOS_TaskYield
  \/ LOS_TaskLock
  \/ LOS_TaskUnlock

KernelNext ==
  \/ Schedule
  \/ DeadTaskSchedule
  \/ PendSV
  \/ Tick
  \/ \E t \in Task : osTaskScan(t)
  \/ osTaskScanEnd

Next == TaskNext \/ KernelNext

Spec == Init /\ [][Next]_vars

-----------------------------------------------------------------------------
(* Properties *)

\* Every variable has its type.
TypeOK == k \in Kernel /\ pc \in [TaskID -> PC]

\* The scheduler data agree with one another however calls, interrupts and
\* timeouts interleave, as long as handlers keep to their rules: a task is on exactly the list its status names, a task
\* that is not ready has a reason that will end, the bitmap describes the
\* ready lists (los_priqueue.c, osTaskWait, osTaskWake, osTaskScan).
KernelConsistent == KernelOK(k)

\* No list routine follows a NULL link: a task leaves a list, or the timeout
\* list, only while it is on it, as long as no handler changes the task that
\* osTaskScan has at hand.
NoFault == ~k.fault

\* Preemptive scheduling by priority: the task that executes its own code is
\* the first of the most urgent ready list, and a pending switch leads to it,
\* unless the scheduler is locked or osTaskScan has yet to call LOS_Schedule.
HighestRuns ==
  ~k.need =>
    /\ k.pendSV \/ k.run = Dummy => k.new = osPriqueueTop(k)
    /\ (k.run \in TaskID /\ ~k.pendSV /\ k.lock = 0 /\ pc[k.run] = "user") =>
         k.run = osPriqueueTop(k)

\* Only ready tasks compute: a pending switch leads to a task in the ready
\* queue, the task that runs its own code is in it, and so is the one that
\* holds the scheduler lock (LOS_TaskSuspend, LOS_TaskDelay under the lock).
RunningReady ==
  /\ k.pendSV \/ k.run = Dummy => k.new \in TaskID /\ "READY" \in k.status[k.new]
  /\ k.run \in TaskID /\ ~k.pendSV /\ pc[k.run] = "user" => "READY" \in k.status[k.run]
  /\ k.lock > 0 => k.run \in TaskID /\ "READY" \in k.status[k.run]

\* A context switch never leads to a task that is not ready, although handlers
\* may have resumed, created and deleted tasks since it was requested, the one
\* it leads to among them, and suspended others: LOS_TaskDelete chooses again,
\* LOS_TaskSuspend does not (PendSV_Handler, and the rules of handlers).
DispatchReady ==
  [][k'.run # k.run /\ k'.run # Dummy => "READY" \in k'.status[k'.run]]_vars

\* The processor changes hands only while the scheduler is not locked; a
\* task that is deleted while it holds the lock gives it up.
NoSwitchUnderLock ==
  [][k'.run # k.run => k'.lock = 0]_vars

(***************************************************************************)
(* Fairness: the tick recurs, and between two ticks the handler finishes,  *)
(* a pending switch is taken and the running task finishes the kernel call *)
(* it is in.  The latter are disabled during each tick, hence strong       *)
(* fairness.                                                               *)
(***************************************************************************)
Fairness ==
  /\ WF_vars(Tick \/ osTaskScanEnd \/ \E t \in Task : osTaskScan(t))
  /\ SF_vars(PendSV \/ Schedule \/ osTaskEntryDelete \/ DeadTaskSchedule)

FairSpec == Spec /\ Fairness

\* The time slice shares the processor: among tasks of the most urgent priority none waits for
\* ever while the others compute, unless one of them keeps the scheduler locked
\* (osTimesliceCheck).
RoundRobin ==
  \A t \in Task :
    ("READY" \in k.status[t] /\ k.prio[t] = 0)
      ~> (k.run = t \/ "READY" \notin k.status[t] \/ k.prio[t] # 0 \/ k.lock > 0)
=============================================================================
