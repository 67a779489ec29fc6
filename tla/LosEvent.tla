------------------------------ MODULE LosEvent ------------------------------
(***************************************************************************)
(* Event flags (los_event.c) over the scheduler.  The list head of event   *)
(* control block e is the wait list e.                                     *)
(*                                                                         *)
(* LOS_EventRead and LOS_EventWrite look whether the event is initialised  *)
(* before they mask the interrupts (los_event.c:100, :127, :183, :193), so *)
(* each is two actions of a task.  A handler's LOS_EventWrite is one.      *)
(***************************************************************************)
EXTENDS LosTask

CONSTANTS
  Event,        \* event control blocks
  Bit,          \* the bits of uwEventID the application uses
  Masks,        \* the event masks passed to the calls
  Modes,        \* the modes passed to LOS_EventRead and LOS_EventPoll
  ReadTimeouts, \* the timeouts passed to LOS_EventRead: ticks, or Forever
  DestroyRaces  \* an event may be destroyed while a call has yet to lock it

ASSUME EventAssumption ==
  /\ Event \subseteq WaitList /\ Event # {} /\ ReadTimeouts \subseteq Nat
  /\ Masks \subseteq (SUBSET Bit) \ {{}}
  /\ Modes \subseteq {{"OR"}, {"AND"}, {"OR", "CLR"}, {"AND", "CLR"}}
  /\ DestroyRaces \in BOOLEAN

VARIABLES
  event,   \* the control blocks: event[e].init, event[e].bits
  want,    \* want[t]: block, mask and mode of the last LOS_EventRead or LOS_EventWrite of t
  stolen   \* the blocked readers whose event has lost bits since (history)

eventVars == <<k, pc, event, want, stolen>>

EventInit ==
  /\ Init
  /\ event = [e \in Event |-> [init |-> FALSE, bits |-> {}]]
  /\ want = [t \in Task |-> [event |-> CHOOSE e \in Event : TRUE, mask |-> {}, mode |-> {}]]
  /\ stolen = {}

-----------------------------------------------------------------------------
(* What LOS_EventPoll returns, and what it leaves of the bits *)

Poll(bits, mask, mode) ==
  IF "OR" \in mode \/ mask \subseteq bits THEN bits \cap mask ELSE {}

Left(bits, mask, mode) ==
  IF "CLR" \in mode THEN bits \ Poll(bits, mask, mode) ELSE bits

\* The running task calls LOS_EventRead or LOS_EventWrite, and has seen that e
\* is initialised.
Enters(there, e, mask, mode) ==
  /\ event[e].init
  /\ want' = [want EXCEPT ![k.run] = [event |-> e, mask |-> mask, mode |-> mode]]
  /\ Goto(there)
  /\ UNCHANGED <<k, event, stolen>>

\* The tasks that are there and have not masked the interrupts yet.
Entering(e) == {t \in Task : want[t].event = e /\ pc[t] \in {"event_read", "event_write"}}

\* The tasks inside a read of e that blocked.
Reading(e) == {t \in Task : want[t].event = e /\ pc[t] \in {"event_schedule", "event_return"}}

Stolen(e, b) == IF event[e].bits \subseteq b THEN stolen ELSE stolen \cup Reading(e)

\* The bits of e become b.
SetBits(e, b) ==
  /\ event' = [event EXCEPT ![e].bits = b]
  /\ stolen' = Stolen(e, b)

-----------------------------------------------------------------------------

\* LOS_EventInit does not look at what it overwrites: that nobody waits for
\* the event is up to the caller.
LOS_EventInit(ctx, e) ==
  /\ Calls(ctx, "EventInit")
  /\ k.list[e] = <<>>
  /\ event' = [event EXCEPT ![e] = [init |-> TRUE, bits |-> {}]]
  /\ stolen' = stolen \cup Reading(e)
  /\ UNCHANGED <<k, pc, want>>

\* That no call is about to use the event is up to the caller as well, unless
\* DestroyRaces.
LOS_EventDestory(ctx, e) ==
  /\ Calls(ctx, "EventDestory")
  /\ event[e].init /\ k.list[e] = <<>>
  /\ DestroyRaces \/ Entering(e) = {}
  /\ event' = [event EXCEPT ![e].init = FALSE]
  /\ UNCHANGED <<k, pc, want, stolen>>

LOS_EventPoll(ctx, e, mask, mode) ==
  /\ Calls(ctx, "EventPoll")
  /\ SetBits(e, Left(event[e].bits, mask, mode))
  /\ UNCHANGED <<k, pc, want>>

LOS_EventClear(ctx, e, keep) ==
  /\ Calls(ctx, "EventClear")
  /\ SetBits(e, event[e].bits \cap keep)
  /\ UNCHANGED <<k, pc, want>>

LOS_EventRead(e, mask, mode) ==
  /\ Calls("task", "EventRead")
  /\ Enters("event_read", e, mask, mode)

\* The read finds what it asks for, or returns 0 at once: its timeout is 0, or
\* the scheduler is locked.
EventReadNow ==
  /\ At("event_read") /\ Goto("user")
  /\ LET w == want[k.run]
     IN  SetBits(w.event, Left(event[w.event].bits, w.mask, w.mode))
  /\ UNCHANGED <<k, want>>

\* Or it waits.  The list of an event that is destroyed has NULL links.
EventReadWait(timeout) ==
  /\ At("event_read") /\ Goto("event_schedule")
  /\ k.lock = 0
  /\ LET w  == want[k.run]
         k1 == osTaskWait(k, w.event, "PEND", timeout)
     IN  /\ Poll(event[w.event].bits, w.mask, w.mode) = {}
         /\ k' = IF event[w.event].init THEN k1 ELSE [k1 EXCEPT !.fault = TRUE]
  /\ stolen' = stolen \ {k.run}
  /\ UNCHANGED <<event, want>>

EventReadSchedule ==
  /\ At("event_schedule") /\ k' = LOS_Schedule(k) /\ Goto("event_return")
  /\ UNCHANGED <<event, want, stolen>>

\* The blocked call resumes.  It returns LOS_ERRNO_EVENT_READ_TIMEOUT if it
\* finds the TIMEOUT flag, which it clears, and else what the event holds now.
EventReadReturn ==
  /\ At("event_return") /\ Goto("user")
  /\ LET w == want[k.run]
         left == Left(event[w.event].bits, w.mask, w.mode)
     IN  IF "TIMEOUT" \in k.status[k.run]
         THEN /\ k' = ClearFlags(k, k.run, {"TIMEOUT"})
              /\ stolen' = stolen \ {k.run}
              /\ UNCHANGED event
         ELSE /\ event' = [event EXCEPT ![w.event].bits = left]
              /\ stolen' = Stolen(w.event, left) \ {k.run}
              /\ UNCHANGED k
  /\ UNCHANGED want

\* Mutants: an AND read is compared with the bits of this call only; every
\* waiting task is woken.
Satisfied_ThisWriteOnly(w, new, bits) ==
  IF "OR" \in w.mode THEN w.mask \cap new # {} ELSE w.mask \subseteq new

Satisfied_Always(w, new, bits) == TRUE

\* The waiting read w ends when a write of new makes the bits become bits.
Satisfied(w, new, bits) ==
  IF "OR" \in w.mode THEN w.mask \cap new # {} ELSE w.mask \subseteq bits

\* The loop of LOS_EventWrite over the tasks that wait: one round, and the
\* kernel after each of them.
Round(kern, t, new, bits) ==
  IF Satisfied(want[t], new, bits) THEN osTaskWake(kern, t, "PEND") ELSE kern

Rounds(waiting, new, bits) ==
  LET after[n \in 0 .. Len(waiting)] ==
        IF n = 0 THEN k ELSE Round(after[n - 1], waiting[n], new, bits)
  IN  after

\* LOS_EventWrite with the interrupts masked.
Write(ctx, e, new) ==
  /\ LET bits == event[e].bits \cup new
         waiting == k.list[e]
         exitFlag == \E t \in ToSet(waiting) : Satisfied(want[t], new, bits)
     IN  /\ SetBits(e, bits)
         /\ IF exitFlag THEN ThenSchedule(ctx, Rounds(waiting, new, bits)[Len(waiting)])
            ELSE /\ k' = IF event[e].init THEN k ELSE [k EXCEPT !.fault = TRUE]
                 /\ IF ctx = "task" THEN Goto("user") ELSE UNCHANGED pc
  /\ UNCHANGED want

LOS_EventWrite(ctx, e, new) ==
  /\ Calls(ctx, "EventWrite")
  /\ IF ctx = "task" THEN Enters("event_write", e, new, {})
     ELSE event[e].init /\ Write(ctx, e, new)

EventWriteLocked ==
  /\ At("event_write")
  /\ Write("task", want[k.run].event, want[k.run].mask)

EventCallNext ==
  \/ \E ctx \in {"task", "isr"}, e \in Event :
       \/ LOS_EventInit(ctx, e)
       \/ LOS_EventDestory(ctx, e)
       \/ \E mask \in Masks : \/ LOS_EventWrite(ctx, e, mask)
                              \/ LOS_EventClear(ctx, e, Bit \ mask)
                              \/ \E mode \in Modes : LOS_EventPoll(ctx, e, mask, mode)
  \/ \E e \in Event, mask \in Masks, mode \in Modes : LOS_EventRead(e, mask, mode)
  \/ EventReadNow
  \/ \E timeout \in ReadTimeouts : EventReadWait(timeout)
  \/ EventWriteLocked
  \/ EventReadSchedule
  \/ EventReadReturn

EventNext == EventCallNext \/ (Next /\ UNCHANGED <<event, want, stolen>>)

EventSpec == EventInit /\ [][EventNext]_eventVars

-----------------------------------------------------------------------------
(* Properties *)

\* No lost wakeup: a task that is still on the list waits for an event that
\* exists, asked for it, and the bits set so far do not satisfy its read,
\* although LOS_EventWrite looks at the new bits only for an OR read, and
\* bits may be set or cleared while a read has yet to mask the interrupts.
NoMissedEvent ==
  \A e \in Event : \A t \in ToSet(k.list[e]) :
    /\ event[e].init /\ want[t].event = e
    /\ Poll(event[e].bits, want[t].mask, want[t].mode) = {}

\* A read that was woken and not timed out finds what it waited for, unless
\* another call has taken or cleared bits since: LOS_EventRead may return 0
\* for that reason only.
WokenFindsEvent ==
  \A t \in Task :
    LET w == want[t]
    IN  (/\ pc[t] \in {"event_schedule", "event_return"}
         /\ k.status[t] \cap {"PEND", "TIMEOUT"} = {} /\ t \notin stolen)
          => Poll(event[w.event].bits, w.mask, w.mode) # {}
=============================================================================
