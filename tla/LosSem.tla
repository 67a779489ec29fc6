------------------------------- MODULE LosSem -------------------------------
(***************************************************************************)
(* Semaphores (los_sem.c) over the scheduler.  The list head of semaphore  *)
(* s is the wait list s.                                                   *)
(***************************************************************************)
EXTENDS LosTask

CONSTANTS
  Sem,       \* semaphore control blocks
  SemMax,    \* the maximum counts semaphores are created with
  Timeouts   \* the timeouts passed to LOS_SemPend: ticks, or Forever

ASSUME SemAssumption ==
  /\ Sem \subseteq WaitList /\ Sem # {} /\ Timeouts \subseteq Nat
  /\ SemMax \subseteq Nat \ {0} /\ \E m \in SemMax : \A n \in SemMax : n <= m

VARIABLE sem   \* the control blocks

semVars == <<k, pc, sem>>

SemCB == [used : BOOLEAN, count : Nat, max : Nat \ {0}]

SemPC == PC \cup {"sem_schedule", "sem_return"}

SemInit ==
  /\ Init
  /\ sem = [s \in Sem |-> [used |-> FALSE, count |-> 0, max |-> 1]]

-----------------------------------------------------------------------------

osSemCreate(ctx, s, count, max) ==
  /\ Calls(ctx, "SemCreate")
  /\ ~sem[s].used /\ count <= max
  /\ sem' = [sem EXCEPT ![s] = [used |-> TRUE, count |-> count, max |-> max]]
  /\ UNCHANGED <<k, pc>>

\* Mutant: a semaphore tasks wait for is deleted.
SemDelete_WithWaiters(ctx, s) ==
  /\ Calls(ctx, "SemDelete")
  /\ sem[s].used
  /\ sem' = [sem EXCEPT ![s].used = FALSE]
  /\ UNCHANGED <<k, pc>>

LOS_SemDelete(ctx, s) ==
  /\ Calls(ctx, "SemDelete")
  /\ sem[s].used /\ k.list[s] = <<>>
  /\ sem' = [sem EXCEPT ![s].used = FALSE]
  /\ UNCHANGED <<k, pc>>

\* Mutant: a token is taken that is not there.
SemPendTake_NoCheck(ctx, s) ==
  /\ Calls(ctx, "SemPend")
  /\ sem[s].used
  /\ sem' = [sem EXCEPT ![s].count = @ - 1]
  /\ UNCHANGED <<k, pc>>

LOS_SemPendTake(ctx, s) ==
  /\ Calls(ctx, "SemPend")
  /\ sem[s].used /\ sem[s].count > 0
  /\ sem' = [sem EXCEPT ![s].count = @ - 1]
  /\ UNCHANGED <<k, pc>>

LOS_SemPendWait(s, timeout) ==
  /\ Calls("task", "SemPend")
  /\ sem[s].used /\ sem[s].count = 0 /\ k.lock = 0
  /\ k' = osTaskWait(k, s, "PEND", timeout)
  /\ Goto("sem_schedule")
  /\ UNCHANGED sem

SemPendSchedule ==
  /\ At("sem_schedule") /\ k' = LOS_Schedule(k) /\ Goto("sem_return")
  /\ UNCHANGED sem

\* Mutant: the flag stays set.
SemPendReturn_KeepsTimeout ==
  /\ At("sem_return") /\ Goto("user")
  /\ UNCHANGED <<k, sem>>

\* The pending call resumes.  It returns LOS_ERRNO_SEM_TIMEOUT if it finds the
\* TIMEOUT flag, which it clears, and LOS_OK otherwise.
SemPendReturn ==
  /\ At("sem_return") /\ Goto("user")
  /\ k' = ClearFlags(k, k.run, {"TIMEOUT"})
  /\ UNCHANGED sem

LOS_SemPost(ctx, s) ==
  /\ Calls(ctx, "SemPost")
  /\ sem[s].used /\ sem[s].count # sem[s].max
  /\ IF k.list[s] # <<>>
     THEN ThenSchedule(ctx, osTaskWake(k, Head(k.list[s]), "PEND")) /\ UNCHANGED sem
     ELSE sem' = [sem EXCEPT ![s].count = @ + 1] /\ UNCHANGED <<k, pc>>

SemCallNext ==
  \/ \E ctx \in {"task", "isr"}, s \in Sem :
       \/ \E max \in SemMax : \E count \in 0 .. max : osSemCreate(ctx, s, count, max)
       \/ LOS_SemDelete(ctx, s)
       \/ LOS_SemPendTake(ctx, s)
       \/ LOS_SemPost(ctx, s)
  \/ \E s \in Sem, timeout \in Timeouts : LOS_SemPendWait(s, timeout)
  \/ SemPendSchedule
  \/ SemPendReturn

SemNext == SemCallNext \/ (Next /\ UNCHANGED sem)

SemSpec == SemInit /\ [][SemNext]_semVars

-----------------------------------------------------------------------------
(* Properties *)

\* The kernel, the control blocks and the calls have their types.
SemTypeOK == k \in Kernel /\ sem \in [Sem -> SemCB]

\* A task never waits for a semaphore that has a token, or that does not
\* exist, whatever order posts, timeouts, deletions and creations come in.
NoIdleToken ==
  \A s \in Sem : k.list[s] # <<>> => sem[s].used /\ sem[s].count = 0

\* The flag a blocked call leaves behind: TIMEOUT is set only while a task is
\* inside a call that can block, so that no call finds the flag of an earlier one.
TimeoutFlagOwned ==
  \A t \in Task : "TIMEOUT" \in k.status[t] => pc[t] \notin PC

\* What became of the LOS_SemPend that task t is blocked in, read off the kernel state.
CallState(t) ==
  IF pc[t] \notin {"sem_schedule", "sem_return"} THEN "idle"
  ELSE IF \E s \in Sem : t \in ToSet(k.list[s]) THEN "waiting"
  ELSE IF "TIMEOUT" \in k.status[t] THEN "expired"
  ELSE "granted"

Abstract ==
  INSTANCE Semaphore WITH
    Sema <- Sem, Proc <- Task,
    MaxTokens <- CHOOSE m \in SemMax : \A n \in SemMax : n <= m,
    open <- {s \in Sem : sem[s].used},
    tokens <- [s \in Sem |-> sem[s].count], max <- [s \in Sem |-> sem[s].max],
    queue <- [s \in Sem |-> k.list[s]], state <- [t \in Task |-> CallState(t)]

\* The semaphores implement the abstract ones: LOS_SemPend returns LOS_OK
\* exactly when LOS_SemPost handed that call a token, in order of arrival,
\* and a call that timed out took none, however the timeout, the post, a
\* deletion of the task and the return of the call interleave.
ImplementsSemaphore == Abstract!Spec

\* The wait of a call with a time limit ends (osTaskScan), as long as no list is broken.
PendEnds ==
  \A t \in Task :
    "TIMEOUT" \in k.status[t] /\ k.status[t] \cap Waiting # {}
      ~> k.status[t] \cap Waiting = {} \/ k.fault
=============================================================================
