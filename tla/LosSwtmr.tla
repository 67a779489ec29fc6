------------------------------- MODULE LosSwtmr -------------------------------
(***************************************************************************)
(* Software timers (los_swtmr.c, without LOSCFG_BASE_CORE_SWTMR_ALIGN).     *)
(* Running timers are in one list in the order in which they end; each     *)
(* stores its count as the difference to the one in front of it, so that   *)
(* the tick handler only touches the first.  The callback of a timer that  *)
(* ended is put into a queue, which a task of priority 0 serves.           *)
(*                                                                         *)
(* Timer calls are made by tasks only (the guide forbids them in           *)
(* handlers, LOS_ERRNO_SWTMR_HWI_ACTIVE), so the tick handler's scan is    *)
(* one action and a call is one action for each stretch of code with       *)
(* interrupts masked.  Callbacks make timer calls like any other task.     *)
(*                                                                         *)
(* LOS_SwtmrDelete leaves the ID of the block as it is, and an ID comes    *)
(* back after Generations expiries: a client that went on using such an ID *)
(* could stop or delete the timer of another.  The clients of the model    *)
(* use an ID until they delete the timer or it expired Generations times.  *)
(***************************************************************************)
EXTENDS DeltaList, Functions

CONSTANTS
  Client,        \* the tasks that make timer calls, the timer task among them
  Limit,         \* LOSCFG_BASE_CORE_SWTMR_LIMIT
  Generations,   \* OS_SWTMR_MAX_TIMERID / LOSCFG_BASE_CORE_SWTMR_LIMIT
  Intervals,
  NoTimer

Timer == 0 .. Limit - 1
ID    == 0 .. Limit * Generations - 1
Mode  == {"ONCE", "PERIOD", "NO_SELFDELETE"}

ASSUME SwtmrAssumption ==
  /\ Limit \in Nat \ {0} /\ Generations \in Nat \ {0}
  /\ Intervals \subseteq Nat \ {0} /\ Intervals # {}
  /\ NoTimer \notin Timer

\* Mutant: the default of a smaller configuration.
HandleQueueSize_OneLess == Limit - 1

\* OS_SWTMR_HANDLE_QUEUE_SIZE
HandleQueueSize == Limit + 0

VARIABLES
  cb,         \* m_pstSwtmrCBArray: the control blocks, without the counts
  run,        \* m_pstSwtmrSortList: the list of running timers and the counts
  free,       \* m_pstSwtmrFreeList
  queue,      \* m_uwSwTmrHandlerQueue: the timers whose callback is due
  create,     \* the block a client's LOS_SwtmrCreate has taken
  handle,     \* the ID a client uses, and (history) how often its block has expired since
  tick        \* g_ullTickCount, modulo 2

vars == <<cb, run, free, queue, create, handle, tick>>

NoHandle == [id |-> Limit * Generations, expired |-> 0]

\* The mode and the interval of an unused block are never read.
Blank == [id |-> 0, state |-> "UNUSED", mode |-> "ONCE", interval |-> 0]

\* osSwTmrInit
SwtmrInit ==
  /\ cb = [i \in Timer |-> [Blank EXCEPT !.id = i]]
  /\ run = <<>>
  /\ free = [n \in 1 .. Limit |-> n - 1]
  /\ queue = <<>>
  /\ create = [c \in Client |-> NoTimer]
  /\ handle = [c \in Client |-> NoHandle]
  /\ tick = 0
-----------------------------------------------------------------------------
(* Calls *)

Idle(c) == create[c] = NoTimer

\* LOS_SwtmrCreate takes a block with interrupts masked, fills it without, and reads its ID
\* last.
CreateTake(c) ==
  /\ Idle(c) /\ free # <<>>
  /\ create' = [create EXCEPT ![c] = Head(free)]
  /\ free' = Tail(free)
  /\ UNCHANGED <<cb, run, queue, handle, tick>>

CreateFill(c, mode, interval) ==
  /\ ~Idle(c) /\ cb[create[c]].state = "UNUSED"
  /\ cb' = [cb EXCEPT ![create[c]] =
              [@ EXCEPT !.state = "CREATED", !.mode = mode, !.interval = interval]]
  /\ UNCHANGED <<run, free, queue, create, handle, tick>>

CreateReturn(c) ==
  /\ ~Idle(c) /\ cb[create[c]].state # "UNUSED"
  /\ handle' = [handle EXCEPT ![c] = [id |-> cb[create[c]].id, expired |-> 0]]
  /\ create' = [create EXCEPT ![c] = NoTimer]
  /\ UNCHANGED <<cb, run, free, queue, tick>>

\* CHECK_SWTMRID: the ID client c uses still is the one of block i.
Checked(c, i) ==
  /\ Idle(c) /\ handle[c] # NoHandle
  /\ i = handle[c].id % Limit /\ cb[i].id = handle[c].id

SetState(i, s) == cb' = [cb EXCEPT ![i].state = s]

\* A running timer starts anew.
LOS_SwtmrStart(c, i) ==
  /\ Checked(c, i) /\ cb[i].state # "UNUSED"
  /\ LET stopped == IF cb[i].state = "TICKING" THEN Delete(run, i) ELSE run
     IN  run' = Insert(stopped, i, cb[i].interval)
  /\ SetState(i, "TICKING")
  /\ UNCHANGED <<free, queue, create, handle, tick>>

LOS_SwtmrStop(c, i) ==
  /\ Checked(c, i) /\ cb[i].state = "TICKING"
  /\ run' = Delete(run, i)
  /\ SetState(i, "CREATED")
  /\ UNCHANGED <<free, queue, create, handle, tick>>

\* Mutant: a running timer is freed without being stopped.
SwtmrDelete_NoStop(c, i) ==
  /\ Checked(c, i) /\ cb[i].state # "UNUSED"
  /\ cb' = [cb EXCEPT ![i] = [Blank EXCEPT !.id = cb[i].id]]
  /\ free' = <<i>> \o free
  /\ handle' = [handle EXCEPT ![c] = NoHandle]
  /\ UNCHANGED <<run, queue, create, tick>>

LOS_SwtmrDelete(c, i) ==
  /\ Checked(c, i) /\ cb[i].state # "UNUSED"
  /\ run' = IF cb[i].state = "TICKING" THEN Delete(run, i) ELSE run
  /\ cb' = [cb EXCEPT ![i] = [Blank EXCEPT !.id = cb[i].id]]
  /\ free' = <<i>> \o free
  /\ handle' = [handle EXCEPT ![c] = NoHandle]
  /\ UNCHANGED <<queue, create, tick>>
-----------------------------------------------------------------------------
(* The tick and the timer task *)

\* Mutant: the ID of an expired one-shot timer stays valid.
NextID_Same(id) == id

NextID(id) ==
  IF id < Limit * Generations - Limit THEN id + Limit ELSE id % Limit

\* The use of an ID of block i when the block has freed itself once more.
Aged(h, i) ==
  IF h = NoHandle \/ h.id % Limit # i THEN h
  ELSE IF h.expired = Generations - 1 THEN NoHandle
  ELSE [h EXCEPT !.expired = @ + 1]

Due(s) == s.run # <<>> /\ Head(s.run).count = 0

\* A round of osSwTmrTimeoutHandle; s has the variables it works on.  A callback that finds the
\* queue full is dropped.  The block is freed, or the timer started again, or left for the
\* next LOS_SwtmrStart, according to its mode.
Timeout(s) ==
  LET i == Head(s.run).timer
      t == [s EXCEPT !.run = Tail(@),
                     !.queue = IF Len(@) < HandleQueueSize THEN Append(@, i) ELSE @]
  IN  CASE s.cb[i].mode = "ONCE" ->
             [t EXCEPT !.free = <<i>> \o @,
                       !.cb[i] = [Blank EXCEPT !.id = NextID(s.cb[i].id)],
                       !.handle = [c \in Client |-> Aged(@[c], i)]]
        [] s.cb[i].mode = "PERIOD" -> [t EXCEPT !.run = Insert(@, i, s.cb[i].interval)]
        [] s.cb[i].mode = "NO_SELFDELETE" -> [t EXCEPT !.cb[i].state = "CREATED"]

\* The loop ends: a timer that is started again has its interval to go.
osSwTmrTimeoutHandle(s) ==
  LET after[n \in 0 .. Limit] ==
        IF n = 0 THEN s
        ELSE IF Due(after[n - 1]) THEN Timeout(after[n - 1]) ELSE after[n - 1]
  IN  after[Limit]

osSwtmrScan ==
  /\ tick' = 1 - tick
  /\ LET r == IF run = <<>> THEN run ELSE [run EXCEPT ![1].count = @ - 1]
         s == osSwTmrTimeoutHandle(
                [cb |-> cb, run |-> r, free |-> free, queue |-> queue, handle |-> handle])
     IN  /\ cb' = s.cb /\ run' = s.run /\ free' = s.free
         /\ queue' = s.queue /\ handle' = s.handle
  /\ UNCHANGED create

\* The timer task takes a callback and runs it.
osSwTmrTask ==
  /\ queue # <<>>
  /\ queue' = Tail(queue)
  /\ UNCHANGED <<cb, run, free, create, handle, tick>>
-----------------------------------------------------------------------------
Call(c) ==
  \/ CreateTake(c) \/ CreateReturn(c)
  \/ \E mode \in Mode, interval \in Intervals : CreateFill(c, mode, interval)
  \/ \E i \in Timer : LOS_SwtmrStart(c, i) \/ LOS_SwtmrStop(c, i) \/ LOS_SwtmrDelete(c, i)

Next == osSwtmrScan \/ osSwTmrTask \/ \E c \in Client : Call(c)

Spec == SwtmrInit /\ [][Next]_vars

-----------------------------------------------------------------------------
(* Properties *)

\* Every block is in one place, the one its state says: free, taken by one LOS_SwtmrCreate,
\* created, or running; its ID stays below OS_SWTMR_MAX_TIMERID and names it for good; and
\* between two ticks the first running timer has a tick left, so that the next scan cannot
\* count it below zero.
BlocksAccounted ==
  LET running == [n \in DOMAIN run |-> run[n].timer]
      made(i) == {c \in Client : create[c] = i}
  IN  /\ IsInjective(free) /\ IsInjective(running)
      /\ ToSet(running) = {i \in Timer : cb[i].state = "TICKING"}
      /\ \A i \in Timer :
           /\ Contains(free, i) => cb[i].state = "UNUSED" /\ made(i) = {}
           /\ cb[i].state = "UNUSED" => Contains(free, i) \/ made(i) # {}
           /\ Cardinality(made(i)) <= 1
           /\ cb[i].id \in ID /\ cb[i].id % Limit = i
      /\ run # <<>> => Head(run).count > 0

\* The ID of a timer that expired and freed itself is refused until its block has expired
\* Generations times, even when the block has meanwhile become the timer of another client.
ExpiredIdRefused ==
  \A c \in Client : handle[c].expired > 0 => cb[handle[c].id % Limit].id # handle[c].id

\* The ticks until timer i ends, 0 when it does not run.
TimeLeft == [i \in Timer |-> CountTo(run, Place(run, i))]

\* A tick that finds the timer task idle queues the callback of every timer that ends on it:
\* none is lost, and none of a timer that does not end, whatever the calls before.
CallbackQueued ==
  [][tick' # tick /\ queue = <<>> => ToSet(queue') = {i \in Timer : TimeLeft[i] = 1}]_vars

\* However timers are started, stopped and deleted while others run, each ends on the tick of
\* its own interval: the differences in the list add up to the countdown of every timer.
Timed == INSTANCE Countdown WITH
  Client <- Timer, Period <- Intervals, left <- TimeLeft, now <- tick

ImplementsCountdown == Timed!Spec
=============================================================================
