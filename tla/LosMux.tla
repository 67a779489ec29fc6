------------------------------- MODULE LosMux -------------------------------
(***************************************************************************)
(* Recursive mutexes with priority inheritance (los_mux.c) over the        *)
(* scheduler.  The list head of mutex m is the wait list m.  Tasks use     *)
(* mutexes as the guide asks: not from handlers, and no task that may own  *)
(* one is deleted.                                                         *)
(***************************************************************************)
EXTENDS LosTask

CONSTANTS
  Mux,       \* mutex control blocks
  Timeouts,  \* the timeouts passed to LOS_MuxPend: ticks, or Forever
  MaxNest    \* bound on the recursive locks of one mutex

ASSUME MuxAssumption ==
  /\ Mux \subseteq WaitList /\ Mux # {} /\ Timeouts \subseteq Nat /\ MaxNest \in Nat \ {0}
  /\ "Delete" \notin TaskCalls \cup IsrCalls

VARIABLES
  mux,    \* the control blocks
  on,     \* on[t]: the mutex of the last LOS_MuxPend of task t that blocked
  holds   \* holds[t][m]: the calls that returned LOS_OK to t, less its posts

muxVars == <<k, pc, mux, on, holds>>

MuxInit ==
  /\ Init
  /\ mux = [m \in Mux |-> [used |-> FALSE, count |-> 0, owner |-> NoTask, prio |-> 0]]
  /\ on = [t \in Task |-> CHOOSE m \in Mux : TRUE]
  /\ holds = [t \in Task |-> [m \in Mux |-> 0]]

-----------------------------------------------------------------------------

LOS_MuxCreate(m) ==
  /\ Calls("task", "MuxCreate")
  /\ ~mux[m].used
  /\ mux' = [mux EXCEPT ![m] = [used |-> TRUE, count |-> 0, owner |-> NoTask, prio |-> 0]]
  /\ UNCHANGED <<k, pc, on, holds>>

LOS_MuxDelete(m) ==
  /\ Calls("task", "MuxDelete")
  /\ mux[m].used /\ k.list[m] = <<>> /\ mux[m].count = 0
  /\ mux' = [mux EXCEPT ![m].used = FALSE]
  /\ UNCHANGED <<k, pc, on, holds>>

\* The mutex is free, or the caller owns it.
LOS_MuxPendTake(m) ==
  /\ Calls("task", "MuxPend")
  /\ mux[m].used
  /\ \/ /\ mux[m].count = 0
        /\ mux' = [mux EXCEPT ![m].count = 1, ![m].owner = k.run, ![m].prio = k.prio[k.run]]
     \/ /\ mux[m].count \in 1 .. MaxNest - 1 /\ mux[m].owner = k.run
        /\ mux' = [mux EXCEPT ![m].count = @ + 1]
  /\ holds' = [holds EXCEPT ![k.run][m] = @ + 1]
  /\ UNCHANGED <<k, pc, on>>

\* Mutant: the owner gets the priority of the caller whichever is more urgent.
MuxPendWait_LowersOwner(m, timeout) ==
  /\ Calls("task", "MuxPend")
  /\ mux[m].used /\ mux[m].count > 0 /\ mux[m].owner # k.run /\ k.lock = 0
  /\ k' = osTaskWait(osTaskPriModify(k, mux[m].owner, k.prio[k.run]), m, "PEND", timeout)
  /\ Goto("mux_schedule")
  /\ on' = [on EXCEPT ![k.run] = m]
  /\ UNCHANGED <<mux, holds>>

\* The owner inherits the priority of the caller if that is more urgent.
LOS_MuxPendWait(m, timeout) ==
  /\ Calls("task", "MuxPend")
  /\ mux[m].used /\ mux[m].count > 0 /\ mux[m].owner # k.run /\ k.lock = 0
  /\ LET owner == mux[m].owner
         k1 == IF k.prio[owner] > k.prio[k.run]
               THEN osTaskPriModify(k, owner, k.prio[k.run]) ELSE k
     IN  k' = osTaskWait(k1, m, "PEND", timeout)
  /\ Goto("mux_schedule")
  /\ on' = [on EXCEPT ![k.run] = m]
  /\ UNCHANGED <<mux, holds>>

MuxPendSchedule ==
  /\ At("mux_schedule") /\ k' = LOS_Schedule(k) /\ Goto("mux_return")
  /\ UNCHANGED <<mux, on, holds>>

\* LOS_ERRNO_MUX_TIMEOUT if the TIMEOUT flag is set, LOS_OK otherwise.
MuxPendReturn ==
  /\ At("mux_return") /\ Goto("user")
  /\ IF "TIMEOUT" \in k.status[k.run]
     THEN k' = ClearFlags(k, k.run, {"TIMEOUT"}) /\ UNCHANGED holds
     ELSE holds' = [holds EXCEPT ![k.run][on[k.run]] = @ + 1] /\ UNCHANGED k
  /\ UNCHANGED <<mux, on>>

Owned(m) == mux[m].used /\ mux[m].count > 0 /\ mux[m].owner = k.run

\* The kernel with the priority the owner had when it locked m.
PriRestored(m) ==
  IF k.prio[k.run] # mux[m].prio THEN osTaskPriModify(k, k.run, mux[m].prio) ELSE k

NextOwner(m) == Head(k.list[m])

\* Mutants: the mutex stays with the old owner, or free.
HandOver_OldOwner(m) == [mux EXCEPT ![m].prio = k.prio[Head(k.list[m])]]

HandOver_Free(m) == [mux EXCEPT ![m].count = 0]

HandOver(m) ==
  [mux EXCEPT ![m].owner = Head(k.list[m]), ![m].prio = k.prio[Head(k.list[m])]]

\* The last unlock gives the owner its priority back and hands the mutex to
\* the first waiter.  Without a waiter the scheduler is not called.
LOS_MuxPost(m) ==
  /\ Calls("task", "MuxPost")
  /\ Owned(m)
  /\ IF mux[m].count > 1
     THEN mux' = [mux EXCEPT ![m].count = @ - 1] /\ UNCHANGED <<k, pc>>
     ELSE IF k.list[m] = <<>>
     THEN mux' = [mux EXCEPT ![m].count = 0] /\ ThenReturn(PriRestored(m))
     ELSE /\ mux' = HandOver(m)
          /\ ThenSchedule("task", osTaskWake(PriRestored(m), NextOwner(m), "PEND"))
  /\ holds' = [holds EXCEPT ![k.run][m] = @ - 1]
  /\ UNCHANGED on

MuxCallNext ==
  \/ \E m \in Mux :
       \/ LOS_MuxCreate(m)
       \/ LOS_MuxDelete(m)
       \/ LOS_MuxPendTake(m)
       \/ LOS_MuxPost(m)
       \/ \E timeout \in Timeouts : LOS_MuxPendWait(m, timeout)
  \/ MuxPendSchedule
  \/ MuxPendReturn

MuxNext == MuxCallNext \/ (Next /\ UNCHANGED <<mux, on, holds>>)

MuxSpec == MuxInit /\ [][MuxNext]_muxVars

-----------------------------------------------------------------------------
(* Properties *)

\* Mutual exclusion as the tasks see it: a task that was told LOS_OK and has
\* not unlocked as often is the owner, with the lock count it knows of, even
\* when the hand-over raced with the time limit of the waiting call.
MutualExclusion ==
  \A t \in Task, m \in Mux :
    holds[t][m] > 0 => mux[m].owner = t /\ mux[m].count = holds[t][m]

\* A mutex with waiters is owned, by a task that has it or is about to be told
\* so and does not itself wait for it; nobody is left waiting for a free one.
WaitersHaveOwner ==
  \A m \in Mux : k.list[m] # <<>> =>
    /\ mux[m].used /\ mux[m].count > 0 /\ mux[m].owner \notin ToSet(k.list[m])
    /\ \/ holds[mux[m].owner][m] > 0
       \/ on[mux[m].owner] = m /\ pc[mux[m].owner] \in {"mux_schedule", "mux_return"}
          /\ "TIMEOUT" \notin k.status[mux[m].owner]

\* Inheritance ends with the lock: a task that owns no mutex has the priority
\* it was created with, and no task is ever less urgent than that.
PriorityRestored ==
  \A t \in Task :
    /\ k.prio[t] <= BootPrio(t)
    /\ (\A m \in Mux : mux[m].count = 0 \/ mux[m].owner # t) => k.prio[t] = BootPrio(t)

=============================================================================
