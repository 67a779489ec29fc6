----------------------------- MODULE LosSortLink -----------------------------
(***************************************************************************)
(* The timeout list of the task manager (los_task.c, g_stTskSortLink): a   *)
(* wheel of OS_TSK_SORTLINK_LEN lists.  A timeout is split into the slot   *)
(* it ends in and the rounds of the wheel until then, and each list stores *)
(* the rounds of a task as the difference to the task in front of it       *)
(* (DeltaList).                                                            *)
(*                                                                         *)
(* A wheel is a record, a routine an operator from wheels to wheels.       *)
(***************************************************************************)
EXTENDS DeltaList

CONSTANTS
  Task,
  SortLinkLen    \* OS_TSK_SORTLINK_LEN, a power of two

ASSUME SortLinkAssumption == SortLinkLen \in Nat \ {0}

Slot == 0 .. SortLinkLen - 1

\* index is the upper half of uwIdxRollNum; the lower half, the rounds, is the count of a
\* task's entry.
EmptyWheel == [cursor |-> 0,
               link   |-> [s \in Slot |-> <<>>],
               index  |-> [t \in Task |-> 0]]

Linked(w, t) == \E s \in Slot : \E n \in DOMAIN w.link[s] : w.link[s][n].timer = t

\* Mutant: a whole number of rounds is one round too many.
RollNum_NoBorrow(timeout) == timeout \div SortLinkLen

\* uwRollNum: the rounds before the one in which the timeout ends.
RollNum(timeout) ==
  timeout \div SortLinkLen - (IF timeout % SortLinkLen > 0 THEN 0 ELSE 1)

osTaskAdd2TimerList(w, t, timeout) ==
  LET s == (timeout + w.cursor) % SortLinkLen
  IN  [w EXCEPT !.index[t] = s, !.link[s] = Insert(@, t, RollNum(timeout))]

osTimerListDelete(w, t) == [w EXCEPT !.link[w.index[t]] = Delete(@, t)]

\* osTaskScan: the cursor advances; then the tasks whose round it is leave
\* the list of the cursor one by one, until one has a round less to go.
Advance(w) == [w EXCEPT !.cursor = (@ + 1) % SortLinkLen]

Due(w) == LET l == w.link[w.cursor] IN l # <<>> /\ Head(l).count = 0

Expire(w) == [w EXCEPT !.link[w.cursor] = Tail(@)]

\* Mutant: the round is not counted.
LastRound_NotCounted(w) == w

LastRound(w) ==
  LET l == w.link[w.cursor]
  IN  IF l = <<>> THEN w ELSE [w EXCEPT !.link[w.cursor][1].count = @ - 1]

\* The ticks until the cursor reaches s again.
Distance(w, s) ==
  IF s = w.cursor THEN SortLinkLen ELSE (s + SortLinkLen - w.cursor) % SortLinkLen

\* Mutant: only the first list with a task is looked at.
NextSwitchTime_FirstSlot(w) ==
  LET used == {Distance(w, s) : s \in {r \in Slot : w.link[r] # <<>>}}
  IN  IF used = {} THEN 0
      ELSE LET s == CHOOSE r \in Slot : w.link[r] # <<>> /\ Distance(w, r) = Min(used)
           IN  Min(used) + Head(w.link[s]).count * SortLinkLen

\* 0 when no task is in the list.
osTaskNextSwitchTimeGet(w) ==
  LET next == {Distance(w, s) + Head(w.link[s]).count * SortLinkLen :
                 s \in {r \in Slot : w.link[r] # <<>>}}
  IN  IF next = {} THEN 0 ELSE Min(next)

\* The ticks task t has left.  While the cursor's list is being scanned, its
\* tasks have not yet lost the round that ends now.
TicksLeft(w, t, scanning) ==
  LET s == w.index[t]
      n == CountTo(w.link[s], Place(w.link[s], t)) * SortLinkLen
  IN  IF ~Linked(w, t) THEN 0
      ELSE IF scanning /\ s = w.cursor THEN n
      ELSE Distance(w, s) + n
=============================================================================
