------------------------------ MODULE LosMail ------------------------------
(***************************************************************************)
(* Mail blocks (osQueueMailAlloc and osQueueMailFree of los_queue.c) from  *)
(* a static pool (los_membox.c), used by tasks that use semaphores too: a  *)
(* task has one status word, in which both kinds of call find out why      *)
(* their wait ended.                                                       *)
(*                                                                         *)
(* The pool and its queue exist from the start.  Whoever has a block frees *)
(* it once, which the pool does not check.  A task does not hold the       *)
(* scheduler lock when it may have to wait: osQueueMailAlloc does not      *)
(* refuse that, unlike every other call that blocks.                       *)
(***************************************************************************)
EXTENDS LosSem, FiniteSets

CONSTANTS
  MemList,     \* stMemList of the mail queue
  MailBlock,   \* the blocks of the pool
  NoBlock      \* NULL

ASSUME MailAssumption ==
  MemList \in WaitList \ Sem /\ NoBlock \notin MailBlock /\ IsFiniteSet(MailBlock)

VARIABLES
  free,     \* stFreeList of the pool
  puwMsg,   \* puwMsg[t]: the block a woken task was promised
  held      \* held[b]: (history) how many have been given block b and have not freed it

mailVars == <<k, pc, sem, free, puwMsg, held>>

\* LOS_MemboxInit
MailInit ==
  /\ SemInit
  /\ free \in {s \in [1 .. Cardinality(MailBlock) -> MailBlock] : IsInjective(s)}
  /\ puwMsg = [t \in Task |-> NoBlock]
  /\ held = [b \in MailBlock |-> 0]

-----------------------------------------------------------------------------

LOS_MemboxFree(f, b) == <<b>> \o f

Given(b) == held' = [held EXCEPT ![b] = @ + 1]

MailAllocNow(ctx) ==
  /\ Calls(ctx, "MailAlloc")
  /\ free # <<>>
  /\ free' = Tail(free) /\ Given(Head(free))
  /\ UNCHANGED <<k, pc, puwMsg>>

MailAllocWait(timeout) ==
  /\ Calls("task", "MailAlloc")
  /\ free = <<>> /\ k.lock = 0
  /\ k' = osTaskWait(k, MemList, "PEND_QUEUE", timeout)
  /\ Goto("mail_schedule")
  /\ UNCHANGED <<free, puwMsg, held>>

MailAllocSchedule ==
  /\ At("mail_schedule") /\ k' = LOS_Schedule(k) /\ Goto("mail_return")
  /\ UNCHANGED <<free, puwMsg, held>>

\* The blocked call resumes, with the TIMEOUT flag or with the block that
\* osQueueMailFree left for it.
MailAllocReturn ==
  /\ At("mail_return") /\ Goto("user")
  /\ IF "TIMEOUT" \in k.status[k.run]
     THEN k' = ClearFlags(k, k.run, {"TIMEOUT"}) /\ UNCHANGED <<puwMsg, held>>
     ELSE /\ Given(puwMsg[k.run])
          /\ puwMsg' = [puwMsg EXCEPT ![k.run] = NoBlock]
          /\ UNCHANGED k
  /\ UNCHANGED free

\* Mutant: the block is promised and stays in the pool.
MailFree_NoAlloc(ctx, b) ==
  /\ Calls(ctx, "MailFree")
  /\ held[b] > 0 /\ held' = [held EXCEPT ![b] = @ - 1]
  /\ free' = LOS_MemboxFree(free, b)
  /\ IF k.list[MemList] = <<>>
     THEN UNCHANGED <<k, pc, puwMsg>>
     ELSE LET t == Head(k.list[MemList])
          IN  /\ puwMsg' = [puwMsg EXCEPT ![t] = b]
              /\ ThenSchedule(ctx, osTaskWake(k, t, "PEND_QUEUE"))

\* The block goes back to the pool, and to the first task that waits for one.
osQueueMailFree(ctx, b) ==
  /\ Calls(ctx, "MailFree")
  /\ held[b] > 0 /\ held' = [held EXCEPT ![b] = @ - 1]
  /\ LET f == LOS_MemboxFree(free, b)
     IN  IF k.list[MemList] = <<>>
         THEN free' = f /\ UNCHANGED <<k, pc, puwMsg>>
         ELSE LET t == Head(k.list[MemList])
              IN  /\ free' = Tail(f)
                  /\ puwMsg' = [puwMsg EXCEPT ![t] = Head(f)]
                  /\ ThenSchedule(ctx, osTaskWake(k, t, "PEND_QUEUE"))

MailCallNext ==
  \/ \E ctx \in {"task", "isr"} :
       MailAllocNow(ctx) \/ \E b \in MailBlock : osQueueMailFree(ctx, b)
  \/ \E timeout \in Timeouts : MailAllocWait(timeout)
  \/ MailAllocSchedule
  \/ MailAllocReturn

MailNext ==
  \/ MailCallNext /\ UNCHANGED sem
  \/ SemNext /\ UNCHANGED <<free, puwMsg, held>>

Elsewhere == UNCHANGED <<sem, free, puwMsg, held>>

\* The tick recurs and its handler ends.
MailFairSpec ==
  /\ MailInit /\ [][MailNext]_mailVars
  /\ WF_mailVars(Tick /\ Elsewhere)
  /\ WF_mailVars((\E t \in Task : osTaskScan(t)) /\ Elsewhere)
  /\ WF_mailVars(osTaskScanEnd /\ Elsewhere)

-----------------------------------------------------------------------------
(* Properties *)

\* Every variable has its type.
MailTypeOK ==
  /\ SemTypeOK
  /\ pc \in [TaskID -> SemPC \cup {"mail_schedule", "mail_return"}]
  /\ free \in Seq(MailBlock) /\ puwMsg \in [Task -> MailBlock \cup {NoBlock}]
  /\ held \in [MailBlock -> 0 .. 1]

\* The tasks that osQueueMailFree left block b for and that have not taken it yet.
PromisedTo(b) ==
  {t \in Task : /\ pc[t] \in {"mail_schedule", "mail_return"} /\ puwMsg[t] = b
                /\ k.status[t] \cap {"PEND_QUEUE", "TIMEOUT"} = {}}

\* A block is in the pool, or promised to one woken task, or with one holder, and never in
\* two of these; a call that timed out has none; and nobody waits while a block is free.
\* (A task deleted between the promise and its return takes the block with it.)
MailBlocksSound ==
  /\ IsInjective(free)
  /\ \A b \in MailBlock :
       Cardinality(PromisedTo(b)) + held[b] + (IF Contains(free, b) THEN 1 ELSE 0) <= 1
  /\ k.list[MemList] # <<>> => free = <<>>
=============================================================================
