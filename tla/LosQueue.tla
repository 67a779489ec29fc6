------------------------------ MODULE LosQueue ------------------------------
(***************************************************************************)
(* Message queues (los_queue.c) over the scheduler.  A queue has a list of *)
(* waiting readers and one of waiting writers.  A call that ends another   *)
(* task's wait hands it the message, or the room, it waited for: the       *)
(* counter is not touched and the woken task uses the buffer when it runs. *)
(* Tasks use queues as the header of LOS_TaskDelete asks: none is deleted  *)
(* inside a queue call.                                                    *)
(***************************************************************************)
EXTENDS LosTask, FiniteSets

CONSTANTS
  Queue,        \* queue control blocks
  ReadList,     \* stReadWriteList[OS_QUEUE_READ] of each queue
  WriteList,    \* stReadWriteList[OS_QUEUE_WRITE] of each queue
  Message,      \* messages
  Lengths,      \* the lengths queues are created with
  CallTimeouts  \* the timeouts of the blocking calls: ticks, or Forever

ASSUME QueueAssumption ==
  /\ ReadList \in [Queue -> WaitList] /\ WriteList \in [Queue -> WaitList]
  /\ \A q, r \in Queue : ReadList[q] # WriteList[r] /\ (ReadList[q] = ReadList[r] => q = r)
                         /\ (WriteList[q] = WriteList[r] => q = r)
  /\ Lengths \subseteq Nat \ {0} /\ \E n \in Lengths : \A m \in Lengths : m <= n
  /\ CallTimeouts \subseteq Nat /\ Message # {} /\ Queue # {} /\ IsFiniteSet(Task)
  /\ "Delete" \notin TaskCalls \cup IsrCalls

VARIABLES
  queue,   \* the control blocks and their buffers
  call,    \* call[t]: the queue call task t is blocked in, or NoCall
  got      \* got[q]: the message the last read of q returned

queueVars == <<k, pc, queue, call, got>>

Side == {"read", "write"}
Other(side) == IF side = "read" THEN "write" ELSE "read"

\* The operation types that the interface uses.
Op == {"ReadHead", "WriteHead", "WriteTail"}
SideOf(op) == IF op = "ReadHead" THEN "read" ELSE "write"

MaxLength == CHOOSE n \in Lengths : \A m \in Lengths : m <= n
Slot == 0 .. MaxLength - 1

ListOf(q, side) == IF side = "read" THEN ReadList[q] ELSE WriteList[q]

AnyMessage == CHOOSE m \in Message : TRUE

\* The content of a fresh buffer is never read.
EmptyBuffer == [i \in Slot |-> AnyMessage]

NoCall == [queue |-> CHOOSE q \in Queue : TRUE, op |-> "ReadHead", msg |-> AnyMessage]

QueueInit ==
  /\ Init
  /\ queue = [q \in Queue |-> [used |-> FALSE, len |-> 0, head |-> 0, tail |-> 0,
                               node |-> EmptyBuffer,
                               cnt |-> [s \in Side |-> 0]]]
  /\ call = [t \in Task |-> NoCall]
  /\ got = [q \in Queue |-> AnyMessage]

-----------------------------------------------------------------------------
(* The ring buffer *)

After(i, len)  == IF i + 1 = len THEN 0 ELSE i + 1
Before(i, len) == IF i = 0 THEN len - 1 ELSE i - 1

osQueueBufferOperate(c, op, m) ==
  CASE op = "ReadHead"  -> [c EXCEPT !.head = After(@, c.len)]
    [] op = "WriteHead" -> LET h == Before(c.head, c.len)
                           IN  [c EXCEPT !.head = h, !.node[h] = m]
    [] op = "WriteTail" -> [c EXCEPT !.tail = After(@, c.len), !.node[c.tail] = m]

-----------------------------------------------------------------------------

LOS_QueueCreate(ctx, q, len) ==
  /\ Calls(ctx, "QueueCreate")
  /\ ~queue[q].used
  /\ queue' = [queue EXCEPT ![q].used = TRUE, ![q].len = len, ![q].head = 0, ![q].tail = 0,
                            ![q].cnt = [s \in Side |-> IF s = "read" THEN 0 ELSE len]]
  /\ UNCHANGED <<k, pc, call, got>>

\* Mutant: the queue goes although a woken task has yet to use it.
QueueDelete_InHandOver(ctx, q) ==
  /\ Calls(ctx, "QueueDelete")
  /\ queue[q].used
  /\ k.list[ReadList[q]] = <<>> /\ k.list[WriteList[q]] = <<>>
  /\ queue' = [queue EXCEPT ![q].used = FALSE, ![q].node = EmptyBuffer]
  /\ UNCHANGED <<k, pc, call, got>>

\* A queue is not deleted while a task waits for it, or was woken and has not
\* used the buffer yet: the counters then do not add up to the length.
LOS_QueueDelete(ctx, q) ==
  /\ Calls(ctx, "QueueDelete")
  /\ queue[q].used
  /\ k.list[ReadList[q]] = <<>> /\ k.list[WriteList[q]] = <<>>
  /\ queue[q].cnt["read"] + queue[q].cnt["write"] = queue[q].len
  /\ queue' = [queue EXCEPT ![q].used = FALSE, ![q].node = EmptyBuffer]
  /\ UNCHANGED <<k, pc, call, got>>

\* The caller leaves the call after a stretch that ends in it.
ThenLeave(ctx) == k' = k /\ IF ctx = "task" THEN Goto("user") ELSE UNCHANGED pc

\* Mutant: the message is counted although a task waits for it.
Transfer_NoWake(ctx, q, paid, op, m) ==
  LET other == Other(SideOf(op))
      c == osQueueBufferOperate(paid, op, m)
  IN  /\ got' = IF op = "ReadHead" THEN [got EXCEPT ![q] = paid.node[paid.head]] ELSE got
      /\ queue' = [queue EXCEPT ![q] = [c EXCEPT !.cnt[other] = @ + 1]]
      /\ ThenLeave(ctx)

\* Second half of osQueueOperate: the caller, to whom the control block paid
\* owes a message or room, uses the buffer and wakes the first task of the
\* other side, or counts for it.
Transfer(ctx, q, paid, op, m) ==
  LET other == Other(SideOf(op))
      waiting == k.list[ListOf(q, other)]
      c == osQueueBufferOperate(paid, op, m)
  IN  /\ got' = IF op = "ReadHead" THEN [got EXCEPT ![q] = paid.node[paid.head]] ELSE got
      /\ IF waiting # <<>>
         THEN /\ queue' = [queue EXCEPT ![q] = c]
              /\ ThenSchedule(ctx, osTaskWake(k, Head(waiting), "PEND_QUEUE"))
         ELSE /\ queue' = [queue EXCEPT ![q] = [c EXCEPT !.cnt[other] = @ + 1]]
              /\ ThenLeave(ctx)

\* osQueueOperate when its side has something: no wait, from any context.
OperateNow(ctx, q, op, m) ==
  /\ Calls(ctx, op)
  /\ queue[q].used /\ queue[q].cnt[SideOf(op)] > 0
  /\ Transfer(ctx, q, [queue[q] EXCEPT !.cnt[SideOf(op)] = @ - 1], op, m)
  /\ UNCHANGED call

OperateWait(q, op, m, timeout) ==
  /\ Calls("task", op)
  /\ queue[q].used /\ queue[q].cnt[SideOf(op)] = 0 /\ k.lock = 0
  /\ k' = osTaskWait(k, ListOf(q, SideOf(op)), "PEND_QUEUE", timeout)
  /\ call' = [call EXCEPT ![k.run] = [queue |-> q, op |-> op, msg |-> m]]
  /\ Goto("queue_schedule")
  /\ UNCHANGED <<queue, got>>

OperateSchedule ==
  /\ At("queue_schedule") /\ k' = LOS_Schedule(k) /\ Goto("queue_return")
  /\ UNCHANGED <<queue, call, got>>

\* Mutant: a call whose time ran out goes on as if it had been served.
OperateReturn_IgnoresTimeout ==
  /\ At("queue_return")
  /\ LET w == call[k.run] IN Transfer("task", w.queue, queue[w.queue], w.op, w.msg)
  /\ call' = [call EXCEPT ![k.run] = NoCall]

\* The blocked call resumes: LOS_ERRNO_QUEUE_TIMEOUT if it finds the TIMEOUT
\* flag, and else the buffer is used without paying.
OperateReturn ==
  /\ At("queue_return")
  /\ IF "TIMEOUT" \in k.status[k.run]
     THEN /\ k' = ClearFlags(k, k.run, {"TIMEOUT"}) /\ Goto("user")
          /\ UNCHANGED <<queue, got>>
     ELSE LET w == call[k.run] IN Transfer("task", w.queue, queue[w.queue], w.op, w.msg)
  /\ call' = [call EXCEPT ![k.run] = NoCall]

\* The message of a read means nothing.
Payload(op) == IF op = "ReadHead" THEN {AnyMessage} ELSE Message

QueueCallNext ==
  \/ \E ctx \in {"task", "isr"}, q \in Queue :
       \/ \E len \in Lengths : LOS_QueueCreate(ctx, q, len)
       \/ LOS_QueueDelete(ctx, q)
       \/ \E op \in Op : \E m \in Payload(op) : OperateNow(ctx, q, op, m)
  \/ \E q \in Queue, op \in Op, timeout \in CallTimeouts : \E m \in Payload(op) :
       OperateWait(q, op, m, timeout)
  \/ OperateSchedule
  \/ OperateReturn

QueueNext == QueueCallNext \/ (Next /\ UNCHANGED <<queue, call, got>>)

QueueSpec == QueueInit /\ [][QueueNext]_queueVars

-----------------------------------------------------------------------------
(* Properties *)

\* No task waits to read a queue that has a message nobody was promised, nor
\* to write one that has room nobody was promised, nor for one that is gone.
NobodyWaitsInVain ==
  \A q \in Queue, side \in Side :
    k.list[ListOf(q, side)] # <<>> => queue[q].used /\ queue[q].cnt[side] = 0

\* The tasks that were promised a message, or room, and have not used it yet.
Promised(q, side) ==
  {t \in Task : /\ pc[t] \in {"queue_schedule", "queue_return"}
                /\ call[t].queue = q /\ SideOf(call[t].op) = side
                /\ k.status[t] \cap {"PEND_QUEUE", "TIMEOUT"} = {}}

\* The credits of a queue are conserved: what is counted as readable and
\* writable and what is promised to woken tasks make up its length, so that a
\* timeout neither loses a slot nor makes one, and LOS_QueueDelete cannot free
\* a buffer that a woken task is about to use.
CreditsConserved ==
  \A q \in Queue :
    LET promised == Cardinality(Promised(q, "read")) + Cardinality(Promised(q, "write"))
    IN  IF queue[q].used
        THEN queue[q].cnt["read"] + queue[q].cnt["write"] + promised = queue[q].len
        ELSE promised = 0

\* The messages in the ring buffer, the next one to read first.
Items(q) ==
  LET c == queue[q]
      n == c.cnt["read"] + Cardinality(Promised(q, "read"))
  IN  IF c.used THEN [i \in 1 .. n |-> c.node[(c.head + i - 1) % c.len]] ELSE <<>>

Abstract ==
  INSTANCE BoundedQueue WITH
    Buffer <- Queue, Sizes <- Lengths,
    open <- {q \in Queue : queue[q].used},
    size <- [q \in Queue |-> IF queue[q].used THEN queue[q].len ELSE 0],
    items <- [q \in Queue |-> Items(q)], got <- got

\* The queues implement the abstract ones: messages are delivered once, whole
\* and in order, whatever order blocked readers and writers are woken and run
\* in, and a call that timed out neither puts nor takes one.
ImplementsBoundedQueue == Abstract!Spec
=============================================================================
