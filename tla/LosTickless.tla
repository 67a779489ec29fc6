----------------------------- MODULE LosTickless -----------------------------
(***************************************************************************)
(* The tick as the hardware gives it: SysTick counts cycles, the tick      *)
(* handler moves the timeout list and the software timers, and in tickless *)
(* mode (los_tickless.c) the idle task programs SysTick to fire only when  *)
(* the next timeout ends; the first interrupt after that makes up for the  *)
(* ticks that were slept through.                                          *)
(*                                                                         *)
(* The timeout list is the wheel of LosSortLink.  Of the software timers   *)
(* only the head of their list matters here: `timer` is its count (what    *)
(* the list promises is Countdown, see LosSwtmr).  Tasks are reduced to    *)
(* whether they are ready; who runs is the business of LosTask.            *)
(***************************************************************************)
EXTENDS LosSortLink

CONSTANTS
  Timeouts,       \* the timeouts tasks wait with, in ticks
  Intervals,      \* the intervals of the software timer
  CyclesPerTick,
  MaxSleep,       \* uwMaxTicks, the most SysTick can count, in ticks
  Word,           \* 2^32, the modulus of UINT32, in cycles
  MaxNest,        \* bound: how deep interrupts nest
  Races           \* other interrupts may come on top of a pending tick or of another
                  \* interrupt that is still making up for the sleep

ASSUME TicklessAssumption ==
  /\ CyclesPerTick \in Nat /\ CyclesPerTick > 2 /\ MaxSleep \in Nat /\ Word \in Nat
  /\ MaxSleep * CyclesPerTick <= Word
  /\ Timeouts \subseteq Nat \ {0} /\ Intervals \subseteq Nat \ {0}
  /\ Races \in BOOLEAN /\ "timer" \notin Task

VARIABLES
  wheel,
  state,     \* Task -> "ready", "timed" (in the wheel) or "blocked" (waits for ever)
  timer,     \* the ticks the first software timer has left, 0 if none runs
  sleep,     \* g_uwSleepTicks
  flags,     \* those of g_bTickIrqFlag ("irq") and g_bReloadSysTickFlag ("reload") that are set
  systick,   \* the counter of SysTick, its reload value and its pending bit
  isr,       \* the interrupts being served, the innermost last
  tick,      \* g_ullTickCount, modulo 2
  behind,    \* history: the cycles passed less those of the ticks counted
  phase,     \* history: the cycles of SysTick's present tick that are over
  lag        \* history: SysTick's ticks that are over less the ticks counted

(***************************************************************************)
(* Two histories.  `behind` is the time: each cycle adds one, each tick    *)
(* counted takes CyclesPerTick off, and nothing the code does to SysTick   *)
(* moves it.  It is set anew when the processor falls asleep, to the part  *)
(* of the tick that is over, and so measures one sleep at a time.          *)
(*                                                                         *)
(* `phase` and `lag` follow SysTick, whose ticks move when the code        *)
(* reloads it: an interrupt that ends a sleep in the middle of a tick      *)
(* loads the cycles of the tick that are over, uwRemainSysCycles, where    *)
(* the cycles left are due; the reload at the end of a sleep and the one   *)
(* that sets the normal value again drop the cycles since the last tick.   *)
(*                                                                         *)
(* Handlers keep to two rules that the code does not enforce: interrupts   *)
(* that count ticks are done before the next tick falls due, and a handler *)
(* that takes a task out of the wheel does not interrupt osTaskScan, which *)
(* runs unmasked and goes on with the task it fetched before (LosTask).    *)
(***************************************************************************)

vars == <<wheel, state, timer, sleep, flags, systick, isr, tick, behind, phase, lag>>

Infinity == 1 + MaxSleep

TicklessInit ==
  /\ wheel = EmptyWheel
  /\ state = [t \in Task |-> "ready"]
  /\ timer = 0 /\ sleep = 0 /\ flags = {} /\ isr = <<>> /\ tick = 0
  /\ systick = [val |-> CyclesPerTick, load |-> CyclesPerTick, pend |-> FALSE]
  /\ behind = 0 /\ phase = 0 /\ lag = 0

InIsr == isr # <<>>
Top == Last(isr)
SetTop(f) == Append(Front(isr), f)

\* osTaskScan is between its first and its last line for some interrupt.
Scanning == \E i \in DOMAIN isr : isr[i].stage \in {"scan", "lastScan"}

\* Some interrupt has ticks to count yet.
Counting ==
  \E i \in DOMAIN isr :
    \/ isr[i].todo > (IF isr[i].stage = "scan" THEN 1 ELSE 0)
    \/ isr[i].irq = "tick" /\ isr[i].stage # "lastScan"

Left(t) == TicksLeft(wheel, t, Scanning)
-----------------------------------------------------------------------------
(* The hardware *)

\* One cycle.  A tick is taken, and the interrupt has counted the ticks it counts, before
\* the next one falls due.
Cycle ==
  /\ systick.pend \/ Counting => systick.val > 1 /\ systick.load - systick.val < CyclesPerTick - 1
  /\ systick' = IF systick.val = 1 THEN [systick EXCEPT !.val = systick.load, !.pend = TRUE]
                ELSE [systick EXCEPT !.val = @ - 1]
  /\ behind' = behind + 1
  /\ phase' = (phase + 1) % CyclesPerTick
  /\ lag' = IF phase' = 0 THEN lag + 1 ELSE lag
  /\ UNCHANGED <<wheel, state, timer, sleep, flags, isr, tick>>

LOS_SysTickReload(s, cycles) == [s EXCEPT !.load = cycles, !.val = cycles]

\* A pending tick means that the counter has started over.
LOS_SysTickCurrCycleGet == systick.val + (IF systick.pend THEN CyclesPerTick ELSE 0)
-----------------------------------------------------------------------------
(* Tasks and timers *)

Calm == ~InIsr

TaskWait(t) ==
  /\ Calm /\ state[t] = "ready"
  /\ \/ \E n \in Timeouts : /\ wheel' = osTaskAdd2TimerList(wheel, t, n)
                            /\ state' = [state EXCEPT ![t] = "timed"]
     \/ wheel' = wheel /\ state' = [state EXCEPT ![t] = "blocked"]
  /\ UNCHANGED <<timer, sleep, flags, systick, isr, tick, behind, phase, lag>>

\* LOS_SwtmrStart or LOS_SwtmrStop moves the head of the timer list.
SetTimer ==
  /\ Calm /\ \E t \in Task : state[t] = "ready"
  /\ timer' \in (Intervals \cup {0}) \ {timer}
  /\ UNCHANGED <<wheel, state, sleep, flags, systick, isr, tick, behind, phase, lag>>
-----------------------------------------------------------------------------
(* The idle task *)

osSleepTicksGet ==
  LET tasks == osTaskNextSwitchTimeGet(wheel)
      timers == IF timer = 0 THEN Infinity ELSE timer
  IN  IF tasks < timers THEN tasks ELSE timers

osTicklessStart ==
  LET ticks == IF osSleepTicksGet >= MaxSleep THEN MaxSleep ELSE osSleepTicksGet
  IN  IF systick.pend \/ osSleepTicksGet <= 1 THEN UNCHANGED <<systick, sleep, behind>>
      ELSE /\ systick' = LOS_SysTickReload(systick,
                ticks * CyclesPerTick - CyclesPerTick + LOS_SysTickCurrCycleGet)
           /\ sleep' = ticks
           /\ behind' = CyclesPerTick - LOS_SysTickCurrCycleGet

osTicklessHandler ==
  /\ Calm /\ \A t \in Task : state[t] # "ready"
  /\ "irq" \in flags
  /\ flags' = flags \ {"irq"}
  /\ osTicklessStart
  /\ UNCHANGED <<wheel, state, timer, isr, tick, phase, lag>>
-----------------------------------------------------------------------------
(* Interrupts.  SysTick has the lowest priority.  An interrupt is a record:  *)
(* irq, the ticks it still has to make up for, and its stage: "update" in    *)
(* osUpdateKernelTickCount, "scan" in osTaskScan called from there,          *)
(* "handler" at its own handler, "lastScan" in osTaskScan of osTickHandler.  *)

ElapsedCycles == (sleep * CyclesPerTick + Word - LOS_SysTickCurrCycleGet) % Word

osInterrupt(irq) ==
  /\ Len(isr) < MaxNest
  /\ irq = "tick" => systick.pend /\ ~InIsr
  /\ (irq = "other" /\ sleep > 1 /\ ~Races) => ~systick.pend /\ ~InIsr
  /\ LET taken == [systick EXCEPT !.pend = @ /\ irq # "tick"]
         rest == ElapsedCycles % CyclesPerTick
         Enter(n) == isr' = Append(isr, [irq |-> irq, todo |-> n, stage |-> "update"])
     IN  IF sleep <= 1
         THEN /\ isr' = Append(isr, [irq |-> irq, todo |-> 0, stage |-> "handler"])
              /\ systick' = taken
              /\ UNCHANGED <<flags, phase>>
         ELSE IF irq = "tick"
         THEN /\ Enter(sleep - 1)
              /\ systick' = LOS_SysTickReload(taken, CyclesPerTick)
              /\ flags' = flags \ {"reload"}
              /\ phase' = 0
         ELSE /\ Enter(ElapsedCycles \div CyclesPerTick)
              /\ systick' = LOS_SysTickReload(taken, IF rest > 0 THEN rest ELSE CyclesPerTick)
              /\ flags' = IF rest > 0 THEN flags \cup {"reload"} ELSE flags \ {"reload"}
              /\ phase' = IF rest > 0 THEN CyclesPerTick - rest ELSE 0
  /\ UNCHANGED <<wheel, state, timer, sleep, tick, behind, lag>>

\* g_ullTickCount++, the first half of osTaskScan; osSwtmrScan touches other data than
\* osTaskScan and is taken together with it.  A periodic timer starts again.
CountTick(stage) ==
  /\ tick' = 1 - tick
  /\ behind' = behind - CyclesPerTick
  /\ lag' = lag - 1
  /\ wheel' = Advance(wheel)
  /\ IF timer = 1 THEN timer' \in Intervals \cup {0}
     ELSE timer' = IF timer = 0 THEN 0 ELSE timer - 1
  /\ isr' = SetTop([Top EXCEPT !.stage = stage])

\* A round of osTickHandlerLoop, called by osUpdateKernelTickCount.
osTickHandlerLoop ==
  /\ InIsr /\ Top.stage = "update" /\ Top.todo > 0
  /\ CountTick("scan")
  /\ UNCHANGED <<state, sleep, flags, systick, phase>>

\* Mutant: the next interrupt counts the sleep again.
UpdateDone_KeepsSleep ==
  /\ InIsr /\ Top.stage = "update" /\ Top.todo = 0
  /\ isr' = SetTop([Top EXCEPT !.stage = "handler"])
  /\ UNCHANGED <<wheel, state, timer, sleep, flags, systick, tick, behind, phase, lag>>

\* The loop of osTickHandlerLoop is done: g_uwSleepTicks = 0.
UpdateDone ==
  /\ InIsr /\ Top.stage = "update" /\ Top.todo = 0
  /\ sleep' = 0
  /\ isr' = SetTop([Top EXCEPT !.stage = "handler"])
  /\ UNCHANGED <<wheel, state, timer, flags, systick, tick, behind, phase, lag>>

osTickHandler ==
  /\ InIsr /\ Top.stage = "handler" /\ Top.irq = "tick"
  /\ IF "reload" \in flags
     THEN systick' = LOS_SysTickReload(systick, CyclesPerTick) /\ phase' = 0
     ELSE UNCHANGED <<systick, phase>>
  /\ flags' = {"irq"}
  /\ CountTick("lastScan")
  /\ UNCHANGED <<state, sleep>>

\* A round of the loop of osTaskScan.
osTaskScan ==
  /\ InIsr /\ Top.stage \in {"scan", "lastScan"} /\ Due(wheel)
  /\ wheel' = Expire(wheel)
  /\ state' = [state EXCEPT ![Head(wheel.link[wheel.cursor]).timer] = "ready"]
  /\ UNCHANGED <<timer, sleep, flags, systick, isr, tick, behind, phase, lag>>

osTaskScanEnd ==
  /\ InIsr /\ Top.stage \in {"scan", "lastScan"} /\ ~Due(wheel)
  /\ wheel' = LastRound(wheel)
  /\ isr' = IF Top.stage = "lastScan" THEN Front(isr)
            ELSE SetTop([Top EXCEPT !.stage = "update", !.todo = @ - 1])
  /\ UNCHANGED <<state, timer, sleep, flags, systick, tick, behind, phase, lag>>

\* Another handler ends, having woken a task, unless it interrupts a scan, or not.
Handler ==
  /\ InIsr /\ Top.stage = "handler" /\ Top.irq = "other"
  /\ isr' = Front(isr)
  /\ \/ UNCHANGED <<wheel, state>>
     \/ \E t \in Task :
          /\ state[t] # "ready" /\ ~Scanning
          /\ wheel' = IF state[t] = "timed" THEN osTimerListDelete(wheel, t) ELSE wheel
          /\ state' = [state EXCEPT ![t] = "ready"]
  /\ UNCHANGED <<timer, sleep, flags, systick, tick, behind, phase, lag>>
-----------------------------------------------------------------------------
IsrStep ==
  \/ osTickHandlerLoop \/ UpdateDone \/ osTickHandler
  \/ osTaskScan \/ osTaskScanEnd \/ Handler

Next ==
  \/ Cycle \/ SetTimer \/ osTicklessHandler \/ IsrStep
  \/ \E t \in Task : TaskWait(t)
  \/ \E irq \in {"tick", "other"} : osInterrupt(irq)

Spec == TicklessInit /\ [][Next]_vars

\* SysTick counts, interrupts end, and other interrupts leave the processor to the
\* outermost one and to the tick again and again.
TicklessFairSpec ==
  /\ Spec
  /\ WF_vars(Cycle) /\ WF_vars(IsrStep)
  /\ SF_vars(IsrStep /\ Len(isr) = 1) /\ SF_vars(osInterrupt("tick"))
-----------------------------------------------------------------------------
(* Properties *)

\* The tick count follows the time through a sleep: whatever interrupt ends it, and wherever
\* in a tick, osUpdateKernelTickCount counts no tick as much as a tick too early, and once the
\* interrupts are served fewer than two are missing beside the one that runs.  The bounds are
\* exact: a wake-up one cycle into a tick ends it CyclesPerTick - 2 cycles early, one a cycle
\* before its end makes it last CyclesPerTick - 2 cycles longer, and as many can pass before
\* the reload that follows.  This is so while Races is FALSE.
TicksTrackTime ==
  /\ behind >= 2 - CyclesPerTick
  /\ (sleep <= 1 /\ ~InIsr /\ ~systick.pend) => behind <= 3 * CyclesPerTick - 5

\* Sleeping delays nobody: the ticks of SysTick slept through never exceed what a waiting
\* task or the first software timer has left, and reach it only with the interrupt that ends
\* the sleep.
NobodyOverdue ==
  LET served == InIsr \/ systick.pend
      InTime(n) == n > 0 => IF served THEN lag <= n ELSE lag < n
  IN  InTime(timer) /\ \A t \in Task : InTime(Left(t))

Clients == Task \cup {"timer"}

Timed == INSTANCE Countdown WITH
  Client <- Clients, Period <- Timeouts \cup Intervals, now <- tick,
  left <- [c \in Clients |-> IF c = "timer" THEN timer ELSE Left(c)]

\* The wheel of differences, with tasks put in between the ticks and handlers that take
\* tasks out between the scans, is a countdown for each task: no wait ends on another tick
\* than its own, whatever the rounds, the slots and the order of the tasks in them.
ImplementsCountdown == Timed!Spec

\* A wait with a limit ends, however long the processor sleeps.
WaitEnds == \A t \in Task : (state[t] = "timed") ~> (state[t] # "timed")
=============================================================================
