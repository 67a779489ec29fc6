----------------------------- MODULE DeltaList -----------------------------
(***************************************************************************)
(* The lists of timeouts of the kernel: the running software timers        *)
(* (los_swtmr.c) and each slot of the wheel of the task manager            *)
(* (los_task.c).  A list is a sequence of entries, each with a timer and   *)
(* the count the kernel stores with it, which is the difference to the     *)
(* timer in front of it.                                                   *)
(***************************************************************************)
EXTENDS Naturals, Sequences, SequencesExt

\* What the n-th timer of the list has left.
CountTo(r, n) ==
  LET sum[m \in 0 .. Len(r)] == IF m = 0 THEN 0 ELSE sum[m - 1] + r[m].count IN sum[n]

Place(r, i) == SelectInSeq(r, LAMBDA e : e.timer = i)

\* Timer i goes behind those that have as much left as it or less (the loops of osSwTmrStart
\* and osTaskAdd2TimerList).
Insert(r, i, count) ==
  LET ahead == Max({n \in 0 .. Len(r) : CountTo(r, n) <= count})
      diff  == count - CountTo(r, ahead)
      later == IF ahead = Len(r) THEN r ELSE [r EXCEPT ![ahead + 1].count = @ - diff]
  IN  InsertAt(later, ahead + 1, [timer |-> i, count |-> diff])

\* Mutant: the timers behind i end too early.
Delete_DropsCount(r, i) == RemoveAt(r, Place(r, i))

\* The timer behind i takes over its count (osSwtmrStop, osTimerListDelete).
Delete(r, i) ==
  LET n == Place(r, i)
      later == IF n = Len(r) THEN r ELSE [r EXCEPT ![n + 1].count = @ + r[n].count]
  IN  RemoveAt(later, n)
=============================================================================
