---------------------------- MODULE LosTaskProofs ----------------------------
(***************************************************************************)
(* What the task manager and the scheduler guarantee for every number of   *)
(* tasks and priorities, every time slice and every choice of the calls    *)
(* that tasks and handlers make.  The first part is about the routines of  *)
(* LosKernel, the second about the system of LosTask.                      *)
(***************************************************************************)
EXTENDS LosTask, SequenceTheorems, WellFoundedInduction, TLAPS

-----------------------------------------------------------------------------
(***************************************************************************)
(* The routines of LosKernel: each of them keeps the type of a kernel      *)
(* state, and those that are not part of the context switch keep what the  *)
(* switch depends on.                                                      *)
(***************************************************************************)

\* A set of priorities that is not empty has a most urgent one.
LEMMA MostUrgent ==
  ASSUME NEW S \in SUBSET Nat, S # {}
  PROVE  \E p \in S : \A q \in S : p <= q
<1> DEFINE R == OpToRel(<, Nat)
<1>1. IsWellFoundedOn(R, Nat)
  BY NatLessThanWellFounded
<1>2. \A p, q \in Nat : <<q, p>> \in R <=> q < p
  BY DEF OpToRel
<1> HIDE DEF R
<1>3. PICK p \in S : \A q \in S : <<q, p>> \notin R
  BY <1>1, WFMin
<1>4. \A q \in S : p <= q
  <2> TAKE q \in S
  <2>1. ~(q < p)
    BY <1>2, <1>3, Zenon
  <2> QED BY <2>1, SMT
<1> QED BY <1>4

\* RemoveAt drops one element and keeps the others in order.
LEMMA RemoveAtFacts ==
  ASSUME NEW S, NEW s \in Seq(S), NEW i \in 1 .. Len(s)
  PROVE  /\ RemoveAt(s, i) \in Seq(S)
         /\ Len(RemoveAt(s, i)) = Len(s) - 1
         /\ \A j \in 1 .. Len(s) - 1 :
              RemoveAt(s, i)[j] = IF j < i THEN s[j] ELSE s[j + 1]
<1> DEFINE a == SubSeq(s, 1, i - 1)
           b == SubSeq(s, i + 1, Len(s))
<1>1. Len(s) \in Nat
  BY LenProperties
<1>2. /\ a \in Seq(S) /\ Len(a) = i - 1
      /\ \A j \in 1 .. i - 1 : a[j] = s[j]
  <2>1. \A j \in 1 .. i - 1 : s[j] \in S
    BY <1>1, ElementOfSeq
  <2> QED BY <1>1, <2>1, SubSeqProperties
<1>3. /\ b \in Seq(S) /\ Len(b) = Len(s) - i
      /\ \A j \in 1 .. Len(s) - i : b[j] = s[i + j]
  <2>1. \A j \in i + 1 .. Len(s) : s[j] \in S
    BY <1>1, ElementOfSeq
  <2> QED BY <1>1, <2>1, SubSeqProperties
<1> HIDE DEF a, b
<1>4. /\ a \o b \in Seq(S) /\ Len(a \o b) = Len(a) + Len(b)
      /\ \A j \in 1 .. Len(a) + Len(b) :
           (a \o b)[j] = IF j <= Len(a) THEN a[j] ELSE b[j - Len(a)]
  BY <1>2, <1>3, ConcatProperties
<1>5. RemoveAt(s, i) = a \o b
  BY DEF RemoveAt, a, b
<1>6. ASSUME NEW j \in 1 .. Len(s) - 1
      PROVE  (a \o b)[j] = IF j < i THEN s[j] ELSE s[j + 1]
  <2>1. CASE j < i
    BY <1>1, <1>2, <1>3, <1>4, <2>1
  <2>2. CASE ~(j < i)
    <3> DEFINE m == j - Len(a)
    <3>1. /\ m \in 1 .. Len(s) - i /\ i + m = j + 1
          /\ j \in 1 .. Len(a) + Len(b) /\ ~(j <= Len(a))
      BY <1>1, <1>2, <1>3, <2>2
    <3>2. (a \o b)[j] = b[m]
      BY <1>4, <3>1
    <3> HIDE DEF m
    <3>3. b[m] = s[j + 1]
      BY <1>3, <3>1
    <3> QED BY <2>2, <3>2, <3>3
  <2> QED BY <2>1, <2>2
<1>7. Len(a \o b) = Len(s) - 1
  BY <1>1, <1>2, <1>3, <1>4
<1> QED BY <1>4, <1>5, <1>6, <1>7

\* Taking a task off a list leaves a list.
LEMMA UnlinkType ==
  ASSUME NEW S, NEW s \in Seq(S), NEW t
  PROVE  Unlink(s, t) \in Seq(S)
<1>1. CASE t \notin ToSet(s)
  BY <1>1 DEF Unlink
<1>2. CASE t \in ToSet(s)
  <2> DEFINE i == CHOOSE i \in DOMAIN s : s[i] = t
  <2>1. i \in 1 .. Len(s)
    BY <1>2, LenProperties DEF ToSet
  <2> QED BY <1>2, <2>1, RemoveAtFacts DEF Unlink
<1> QED BY <1>1, <1>2

\* On a list without duplicates, taking a task off removes it and nothing
\* else, and keeps the order of the others.
LEMMA UnlinkFacts ==
  ASSUME NEW S, NEW s \in Seq(S), NEW t, IsInjective(s)
  PROVE  /\ ToSet(Unlink(s, t)) = ToSet(s) \ {t}
         /\ IsInjective(Unlink(s, t))
         /\ s # <<>> /\ Head(s) # t => /\ Unlink(s, t) # <<>>
                                       /\ Head(Unlink(s, t)) = Head(s)
<1>1. CASE t \notin ToSet(s)
  BY <1>1 DEF Unlink
<1>2. CASE t \in ToSet(s)
  <2> DEFINE i == CHOOSE i \in DOMAIN s : s[i] = t
             u == Unlink(s, t)
  <2>1. i \in 1 .. Len(s) /\ s[i] = t
    BY <1>2, LenProperties DEF ToSet
  <2>2. \A j \in 1 .. Len(s) : s[j] = t <=> j = i
    BY <2>1, LenProperties DEF IsInjective
  <2>3. u = RemoveAt(s, i)
    BY <1>2 DEF Unlink
  <2> HIDE DEF i, u
  <2>4. /\ u \in Seq(S) /\ Len(u) = Len(s) - 1
        /\ \A j \in 1 .. Len(s) - 1 : u[j] = IF j < i THEN s[j] ELSE s[j + 1]
    BY <2>1, <2>3, RemoveAtFacts
  <2>5. Len(s) \in Nat /\ DOMAIN s = 1 .. Len(s) /\ DOMAIN u = 1 .. Len(s) - 1
    BY <2>4, LenProperties
  <2>6. ToSet(u) = ToSet(s) \ {t}
    <3>1. ASSUME NEW j \in DOMAIN u PROVE u[j] \in ToSet(s) \ {t}
      BY <2>1, <2>2, <2>4, <2>5 DEF ToSet
    <3>2. ASSUME NEW j \in DOMAIN s, s[j] # t PROVE \E m \in DOMAIN u : u[m] = s[j]
      <4>1. CASE j < i
        BY <2>1, <2>4, <2>5, <4>1
      <4>2. CASE j > i
        <5>1. j - 1 \in DOMAIN u /\ ~(j - 1 < i) /\ (j - 1) + 1 = j
          BY <2>1, <2>5, <4>2
        <5> QED BY <2>4, <2>5, <5>1
      <4> QED BY <2>1, <2>2, <2>5, <3>2, <4>1, <4>2
    <3> QED BY <3>1, <3>2 DEF ToSet
  <2>7. IsInjective(u)
    <3> SUFFICES ASSUME NEW a \in DOMAIN u, NEW b \in DOMAIN u, u[a] = u[b]
                 PROVE  a = b
      BY DEF IsInjective
    <3> DEFINE at(j) == IF j < i THEN j ELSE j + 1
    <3>1. at(a) \in DOMAIN s /\ at(b) \in DOMAIN s /\ u[a] = s[at(a)] /\ u[b] = s[at(b)]
      BY <2>1, <2>4, <2>5
    <3>2. at(a) = at(b)
      BY <3>1 DEF IsInjective
    <3> QED BY <2>1, <2>5, <3>2
  <2>8. ASSUME s # <<>>, Head(s) # t PROVE u # <<>> /\ Head(u) = Head(s)
    <3>1. Head(s) = s[1] /\ 1 \in 1 .. Len(s)
      BY <2>1, <2>5, <2>8, HeadTailProperties
    <3>2. 1 < i /\ 1 \in 1 .. Len(s) - 1
      BY <2>1, <2>5, <2>8, <3>1
    <3>3. u[1] = s[1]
      BY <2>4, <3>2
    <3>4. u # <<>>
      BY <2>4, <3>2, EmptySeq
    <3> QED BY <2>4, <3>1, <3>3, <3>4, HeadTailProperties
  <2> QED BY <2>6, <2>7, <2>8 DEF u
<1> QED BY <1>1, <1>2

\* A task that joins a list of others.
LEMMA AppendFacts ==
  ASSUME NEW S, NEW s \in Seq(S), NEW t \in S
  PROVE  /\ ToSet(Append(s, t)) = ToSet(s) \cup {t}
         /\ IsInjective(s) /\ t \notin ToSet(s) => IsInjective(Append(s, t))
         /\ Append(s, t) # <<>>
         /\ Head(Append(s, t)) = IF s = <<>> THEN t ELSE Head(s)
<1> DEFINE u == Append(s, t)
<1>1. /\ u \in Seq(S) /\ Len(u) = Len(s) + 1
      /\ \A j \in 1 .. Len(s) : u[j] = s[j]
      /\ u[Len(s) + 1] = t
  BY AppendProperties
<1>2. Len(s) \in Nat /\ DOMAIN s = 1 .. Len(s) /\ DOMAIN u = 1 .. Len(s) + 1
  BY <1>1, LenProperties
<1> HIDE DEF u
<1>3. ToSet(u) = ToSet(s) \cup {t}
  <2>1. \A j \in DOMAIN u : u[j] \in ToSet(s) \cup {t}
    BY <1>1, <1>2 DEF ToSet
  <2>2. \A j \in DOMAIN s : u[j] = s[j] /\ j \in DOMAIN u
    BY <1>1, <1>2
  <2>3. Len(s) + 1 \in DOMAIN u
    BY <1>2
  <2> QED BY <1>1, <2>1, <2>2, <2>3 DEF ToSet
<1>4. IsInjective(s) /\ t \notin ToSet(s) => IsInjective(u)
  BY <1>1, <1>2 DEF IsInjective, ToSet
<1>5. u # <<>> /\ Head(u) = IF s = <<>> THEN t ELSE Head(s)
  <2>1. u # <<>>
    BY <1>1, <1>2, EmptySeq
  <2>2. Head(u) = u[1]
    BY <1>1, <2>1, HeadTailProperties
  <2>3. CASE s = <<>>
    BY <1>1, <2>1, <2>2, <2>3, EmptySeq
  <2>4. CASE s # <<>>
    <3>1. 1 \in 1 .. Len(s) /\ Head(s) = s[1]
      BY <1>2, <2>4, EmptySeq, HeadTailProperties
    <3> QED BY <1>1, <2>1, <2>2, <2>4, <3>1
  <2> QED BY <2>3, <2>4
<1> QED BY <1>3, <1>4, <1>5 DEF u

-----------------------------------------------------------------------------
(* Each routine keeps the type of a kernel state *)

\* Setting and clearing flags gives a kernel state.
LEMMA FlagsType ==
  ASSUME NEW kn \in Kernel, NEW t \in CB, NEW F \in SUBSET Flag
  PROVE  SetFlags(kn, t, F) \in Kernel /\ ClearFlags(kn, t, F) \in Kernel
BY DEF Kernel, SetFlags, ClearFlags

\* Taking a task off its list gives a kernel state.
LEMMA ListDeleteType ==
  ASSUME NEW kn \in Kernel, NEW t
  PROVE  ListDelete(kn, t) \in Kernel
<1>1. \A h \in ListHead : Unlink(kn.list[h], t) \in Seq(TaskID)
  BY UnlinkType DEF Kernel
<1> QED BY <1>1 DEF ListDelete, Kernel

\* Appending a task to a list gives a kernel state.
LEMMA ListTailInsertType ==
  ASSUME NEW kn \in Kernel, NEW h \in ListHead, NEW t \in TaskID
  PROVE  ListTailInsert(kn, h, t) \in Kernel
<1>1. Append(kn.list[h], t) \in Seq(TaskID)
  BY AppendProperties DEF Kernel
<1> QED BY <1>1 DEF ListTailInsert, Kernel

\* osPriqueueEnqueue gives a kernel state.
LEMMA EnqueueType ==
  ASSUME NEW kn \in Kernel, NEW t \in TaskID
  PROVE  osPriqueueEnqueue(kn, t) \in Kernel
<1> DEFINE p == kn.prio[t]
           k1 == IF kn.list[p] = <<>> THEN [kn EXCEPT !.bitmap = @ \cup {p}] ELSE kn
<1>1. p \in Pri /\ p \in ListHead
  BY DEF Kernel, ListHead
<1>2. k1 \in Kernel
  BY <1>1 DEF Kernel
<1> HIDE DEF k1
<1>3. ListTailInsert(k1, p, t) \in Kernel
  BY <1>1, <1>2, ListTailInsertType
<1> QED BY <1>3 DEF osPriqueueEnqueue, k1

\* osPriqueueDequeue gives a kernel state.
LEMMA DequeueType ==
  ASSUME NEW kn \in Kernel, NEW t \in TaskID
  PROVE  osPriqueueDequeue(kn, t) \in Kernel
<1> DEFINE k1 == ListDelete(kn, t)
<1>1. k1 \in Kernel
  BY ListDeleteType
<1> HIDE DEF k1
<1>2. [k1 EXCEPT !.bitmap = @ \ {kn.prio[t]}] \in Kernel
  BY <1>1 DEF Kernel
<1> QED BY <1>1, <1>2 DEF osPriqueueDequeue, k1

\* osPriqueueTop is a control block, the dummy one when the queue is empty.
LEMMA TopType ==
  ASSUME NEW kn \in Kernel
  PROVE  osPriqueueTop(kn) \in CB
<1> DEFINE U(p) == p \in kn.bitmap /\ \A q \in kn.bitmap : p <= q
           u == CHOOSE p \in Pri : U(p)
<1>1. CASE \E p \in Pri : U(p) /\ kn.list[p] # <<>>
  <2>1. PICK p \in Pri : U(p) /\ kn.list[p] # <<>>
    BY <1>1
  <2>2. u \in Pri /\ U(u)
    BY <2>1
  <2>3. u = p
    BY <2>1, <2>2, LowestAssumption DEF Pri
  <2>4. Head(kn.list[u]) \in TaskID
    <3>1. kn.list[u] \in Seq(TaskID) /\ kn.list[u] # <<>>
      BY <2>1, <2>3 DEF Kernel, ListHead
    <3> QED BY <3>1, HeadTailProperties
  <2> QED BY <1>1, <2>4 DEF osPriqueueTop, CB
<1>2. CASE ~ \E p \in Pri : U(p) /\ kn.list[p] # <<>>
  BY <1>2 DEF osPriqueueTop, CB
<1> QED BY <1>1, <1>2

\* Putting a task in the ready queue gives a kernel state.
LEMMA MakeReadyType ==
  ASSUME NEW kn \in Kernel, NEW t \in TaskID
  PROVE  MakeReady(kn, t) \in Kernel
BY FlagsType, EnqueueType DEF MakeReady, Flag, CB

\* Taking a task out of the ready queue gives a kernel state.
LEMMA MakeUnreadyType ==
  ASSUME NEW kn \in Kernel, NEW t \in TaskID
  PROVE  MakeUnready(kn, t) \in Kernel
BY FlagsType, DequeueType DEF MakeUnready, Flag, CB

\* osTaskPriModify gives a kernel state.
LEMMA PriModifyType ==
  ASSUME NEW kn \in Kernel, NEW t \in TaskID, NEW p \in Pri
  PROVE  osTaskPriModify(kn, t, p) \in Kernel
<1>1. \A k1 \in Kernel : [k1 EXCEPT !.prio[t] = p] \in Kernel
  BY DEF Kernel
<1> QED BY <1>1, MakeUnreadyType, MakeReadyType DEF osTaskPriModify

\* The routines of the timeout list give kernel states.
LEMMA TimerType ==
  ASSUME NEW kn \in Kernel, NEW t \in TaskID, NEW n \in Nat
  PROVE  /\ osTaskAdd2TimerList(kn, t, n) \in Kernel
         /\ osTimerListDelete(kn, t) \in Kernel
BY DEF osTaskAdd2TimerList, osTimerListDelete, Kernel

\* osTaskWait gives a kernel state.
LEMMA WaitType ==
  ASSUME NEW kn \in Kernel, kn.run \in TaskID, NEW w \in WaitList,
         NEW flag \in Waiting, NEW n \in Nat
  PROVE  osTaskWait(kn, w, flag, n) \in Kernel
<1> DEFINE t == kn.run
           k1 == SetFlags(MakeUnready(kn, t), t, {flag})
           k2 == ListTailInsert(k1, w, t)
           k3 == SetFlags(k2, t, {"TIMEOUT"})
<1>1. k1 \in Kernel
  BY MakeUnreadyType, FlagsType DEF Flag, Waiting, CB
<1>2. k2 \in Kernel
  <2> HIDE DEF k1
  <2> QED BY <1>1, ListTailInsertType DEF ListHead
<1>3. osTaskAdd2TimerList(k3, t, n) \in Kernel
  <2> HIDE DEF k2
  <2> QED BY <1>2, FlagsType, TimerType DEF Flag, CB
<1> QED BY <1>2, <1>3 DEF osTaskWait

\* osTaskWake gives a kernel state.
LEMMA WakeType ==
  ASSUME NEW kn \in Kernel, NEW t \in TaskID, NEW flag \in Waiting
  PROVE  osTaskWake(kn, t, flag) \in Kernel
<1> DEFINE k1 == ClearFlags(ListDelete(kn, t), t, {flag})
           k2 == IF "TIMEOUT" \in k1.status[t]
                 THEN ClearFlags(osTimerListDelete(k1, t), t, {"TIMEOUT"})
                 ELSE k1
<1>1. k1 \in Kernel
  BY ListDeleteType, FlagsType DEF Flag, Waiting, CB
<1>2. k2 \in Kernel
  <2> HIDE DEF k1
  <2> QED BY <1>1, FlagsType, TimerType DEF Flag, CB
<1>3. MakeReady(k2, t) \in Kernel
  <2> HIDE DEF k2
  <2> QED BY <1>2, MakeReadyType
<1> QED BY <1>2, <1>3 DEF osTaskWake

\* A round of osTaskScan gives a kernel state.
LEMMA ScanTaskType ==
  ASSUME NEW kn \in Kernel, NEW t \in TaskID, NEW st \in SUBSET Flag
  PROVE  ScanTask(kn, t, st) \in Kernel
<1> DEFINE k1 == [kn EXCEPT !.timer = @ \ {t}, !.left[t] = 0]
           waits == st \cap Waiting
           k2 == IF waits # {}
                 THEN ClearFlags(ListDelete(k1, t), t,
                                 IF "PEND" \in waits THEN {"PEND"} ELSE {"PEND_QUEUE"})
                 ELSE ClearFlags(k1, t, {"DELAY"})
<1>1. k1 \in Kernel
  BY DEF Kernel
<1>2. k2 \in Kernel
  <2> HIDE DEF k1
  <2> QED BY <1>1, ListDeleteType, FlagsType DEF Flag, CB
<1>3. [MakeReady(k2, t) EXCEPT !.need = TRUE] \in Kernel
  <2> HIDE DEF k2
  <2>1. MakeReady(k2, t) \in Kernel
    BY <1>2, MakeReadyType
  <2> QED BY <2>1 DEF Kernel
<1> QED BY <1>2, <1>3 DEF ScanTask

\* LOS_Schedule gives a kernel state.
LEMMA ScheduleType ==
  ASSUME NEW kn \in Kernel
  PROVE  LOS_Schedule(kn) \in Kernel
BY TopType DEF LOS_Schedule, Kernel

\* The PendSV handler gives a kernel state.
LEMMA PendSVType ==
  ASSUME NEW kn \in Kernel
  PROVE  PendSVHandler(kn) \in Kernel
<1>1. kn.run \in CB /\ kn.new \in CB
  BY DEF Kernel
<1>2. SetFlags(ClearFlags(kn, kn.run, {"RUNNING"}), kn.new, {"RUNNING"}) \in Kernel
  BY <1>1, FlagsType DEF Flag
<1> QED BY <1>1, <1>2 DEF PendSVHandler, Kernel

\* Moving the running task to the end of its list gives a kernel state.
LEMMA RequeueType ==
  ASSUME NEW kn \in Kernel, kn.run \in TaskID
  PROVE  Requeue(kn) \in Kernel
BY ListDeleteType, EnqueueType DEF Requeue

\* The time slice check gives a kernel state.
LEMMA TimesliceType ==
  ASSUME NEW kn \in Kernel
  PROVE  osTimesliceCheck(kn) \in Kernel
<1> DEFINE left == IF kn.slice.task # kn.run THEN TimeSlice - 1 ELSE kn.slice.left - 1
           k1 == IF CanYield(kn) THEN LOS_Schedule(Requeue(kn)) ELSE kn
<1>1. k1 \in Kernel
  <2>1. CASE CanYield(kn)
    <3>1. kn.run \in TaskID
      BY <2>1 DEF CanYield, Kernel, CB
    <3> QED BY <2>1, <3>1, RequeueType, ScheduleType
  <2> QED BY <2>1
<1>2. \A k2 \in Kernel : [k2 EXCEPT !.slice = [task |-> NoTask, left |-> 0]] \in Kernel
  BY DEF Kernel
<1>3. ASSUME left # 0
      PROVE  [kn EXCEPT !.slice = [task |-> kn.run, left |-> left]] \in Kernel
  <2>1. kn.run \in CB /\ left \in Nat \ {0}
    BY <1>3, SliceAssumption, TaskAssumption DEF Kernel, CB
  <2> HIDE DEF left
  <2> QED BY <2>1 DEF Kernel
<1> QED BY <1>1, <1>2, <1>3 DEF osTimesliceCheck

-----------------------------------------------------------------------------
(* What each routine leaves alone *)

SameTimer(k1, k2) == k2.timer = k1.timer /\ k2.left = k1.left

SameSwitch(k1, k2) ==
  /\ k2.run = k1.run /\ k2.new = k1.new /\ k2.lock = k1.lock /\ k2.pendSV = k1.pendSV
  /\ k2.scan = k1.scan /\ k2.need = k1.need /\ k2.slice = k1.slice

SameTasks(k1, k2) == k2.status = k1.status /\ k2.prio = k1.prio

SameLists(k1, k2) == k2.list = k1.list /\ k2.bitmap = k1.bitmap /\ k2.fault = k1.fault

\* Setting and clearing flags touches the status of one task only.
LEMMA FlagsEffect ==
  ASSUME NEW kn \in Kernel, NEW t \in CB, NEW F \in SUBSET Flag,
         NEW r \in {SetFlags(kn, t, F), ClearFlags(kn, t, F)}
  PROVE  SameTimer(kn, r) /\ SameSwitch(kn, r) /\ SameLists(kn, r) /\ r.prio = kn.prio
BY DEF Kernel, SetFlags, ClearFlags, SameTimer, SameSwitch, SameLists

\* A task that is on a list leaves every list, and nothing else changes.
LEMMA ListDeleteEffect ==
  ASSUME NEW kn \in Kernel, NEW t
  PROVE  LET r == ListDelete(kn, t)
         IN  /\ SameTimer(kn, r) /\ SameSwitch(kn, r) /\ SameTasks(kn, r)
             /\ r.bitmap = kn.bitmap
             /\ IsLinked(kn, t) => /\ r.fault = kn.fault
                                   /\ r.list = [h \in ListHead |-> Unlink(kn.list[h], t)]
BY DEF Kernel, ListDelete, SameTimer, SameSwitch, SameTasks

\* osPriqueueEnqueue appends the task to the list of its priority and sets its bit.
LEMMA EnqueueEffect ==
  ASSUME NEW kn \in Kernel, NEW t \in TaskID
  PROVE  LET r == osPriqueueEnqueue(kn, t)
             p == kn.prio[t]
         IN  /\ SameTimer(kn, r) /\ SameSwitch(kn, r) /\ SameTasks(kn, r)
             /\ r.fault = kn.fault
             /\ r.list = [kn.list EXCEPT ![p] = Append(@, t)]
             /\ r.bitmap = IF kn.list[p] = <<>> THEN kn.bitmap \cup {p} ELSE kn.bitmap
BY DEF Kernel, osPriqueueEnqueue, ListTailInsert, SameTimer, SameSwitch, SameTasks

\* osPriqueueDequeue takes the task off its list and clears the bit of an empty list.
LEMMA DequeueEffect ==
  ASSUME NEW kn \in Kernel, NEW t \in TaskID
  PROVE  LET r == osPriqueueDequeue(kn, t)
             p == kn.prio[t]
         IN  /\ SameTimer(kn, r) /\ SameSwitch(kn, r) /\ SameTasks(kn, r)
             /\ IsLinked(kn, t) =>
                  /\ r.fault = kn.fault
                  /\ r.list = [h \in ListHead |-> Unlink(kn.list[h], t)]
                  /\ r.bitmap = IF Unlink(kn.list[p], t) = <<>>
                                THEN kn.bitmap \ {p} ELSE kn.bitmap
<1> DEFINE k1 == ListDelete(kn, t)
<1>1. /\ SameTimer(kn, k1) /\ SameSwitch(kn, k1) /\ SameTasks(kn, k1)
      /\ k1.bitmap = kn.bitmap
      /\ IsLinked(kn, t) => /\ k1.fault = kn.fault
                            /\ k1.list = [h \in ListHead |-> Unlink(kn.list[h], t)]
  BY ListDeleteEffect
<1>2. k1 \in Kernel
  BY ListDeleteType
<1>3. kn.prio[t] \in ListHead
  BY DEF Kernel, ListHead
<1> HIDE DEF k1
<1>4. osPriqueueDequeue(kn, t) = IF k1.list[kn.prio[t]] = <<>>
                                 THEN [k1 EXCEPT !.bitmap = @ \ {kn.prio[t]}] ELSE k1
  BY DEF osPriqueueDequeue, k1
<1>5. LET r == [k1 EXCEPT !.bitmap = @ \ {kn.prio[t]}]
      IN  /\ SameTimer(k1, r) /\ SameSwitch(k1, r) /\ SameTasks(k1, r)
          /\ r.fault = k1.fault /\ r.list = k1.list /\ r.bitmap = k1.bitmap \ {kn.prio[t]}
  BY <1>2 DEF Kernel, SameTimer, SameSwitch, SameTasks
<1> QED BY <1>1, <1>3, <1>4, <1>5 DEF SameTimer, SameSwitch, SameTasks

\* What putting a task in the ready queue changes, field by field.
LEMMA MakeReadyEffect ==
  ASSUME NEW kn \in Kernel, NEW t \in TaskID
  PROVE  LET r == MakeReady(kn, t)
             p == kn.prio[t]
         IN  /\ SameTimer(kn, r) /\ SameSwitch(kn, r)
             /\ r.prio = kn.prio /\ r.fault = kn.fault
             /\ r.status = [kn.status EXCEPT ![t] = @ \cup {"READY"}]
             /\ r.list = [kn.list EXCEPT ![p] = Append(@, t)]
             /\ r.bitmap = IF kn.list[p] = <<>> THEN kn.bitmap \cup {p} ELSE kn.bitmap
<1> DEFINE k1 == SetFlags(kn, t, {"READY"})
<1>1. /\ k1 \in Kernel /\ SameTimer(kn, k1) /\ SameSwitch(kn, k1) /\ SameLists(kn, k1)
      /\ k1.prio = kn.prio
  BY FlagsType, FlagsEffect DEF Flag, CB
<1>2. k1.status = [kn.status EXCEPT ![t] = @ \cup {"READY"}]
  BY DEF SetFlags, Kernel
<1> HIDE DEF k1
<1>3. MakeReady(kn, t) = osPriqueueEnqueue(k1, t)
  BY DEF MakeReady, k1
<1> DEFINE r == osPriqueueEnqueue(k1, t)
           p == k1.prio[t]
<1>4. /\ SameTimer(k1, r) /\ SameSwitch(k1, r) /\ SameTasks(k1, r)
      /\ r.fault = k1.fault
      /\ r.list = [k1.list EXCEPT ![p] = Append(@, t)]
      /\ r.bitmap = IF k1.list[p] = <<>> THEN k1.bitmap \cup {p} ELSE k1.bitmap
  BY <1>1, EnqueueEffect
<1> HIDE DEF r
<1> QED BY <1>1, <1>2, <1>3, <1>4 DEF SameTimer, SameSwitch, SameLists, SameTasks, r

\* What taking a task out of the ready queue changes, field by field.
LEMMA MakeUnreadyEffect ==
  ASSUME NEW kn \in Kernel, NEW t \in TaskID
  PROVE  LET r == MakeUnready(kn, t)
             p == kn.prio[t]
         IN  /\ SameTimer(kn, r) /\ SameSwitch(kn, r) /\ r.prio = kn.prio
             /\ r.status = [kn.status EXCEPT ![t] = @ \ {"READY"}]
             /\ IsLinked(kn, t) =>
                  /\ r.fault = kn.fault
                  /\ r.list = [h \in ListHead |-> Unlink(kn.list[h], t)]
                  /\ r.bitmap = IF Unlink(kn.list[p], t) = <<>>
                                THEN kn.bitmap \ {p} ELSE kn.bitmap
<1> DEFINE k1 == osPriqueueDequeue(kn, t)
           r  == ClearFlags(k1, t, {"READY"})
<1>1. /\ k1 \in Kernel /\ SameTimer(kn, k1) /\ SameSwitch(kn, k1) /\ SameTasks(kn, k1)
      /\ IsLinked(kn, t) =>
           /\ k1.fault = kn.fault
           /\ k1.list = [h \in ListHead |-> Unlink(kn.list[h], t)]
           /\ k1.bitmap = IF Unlink(kn.list[kn.prio[t]], t) = <<>>
                          THEN kn.bitmap \ {kn.prio[t]} ELSE kn.bitmap
  BY DequeueType, DequeueEffect
<1> HIDE DEF k1
<1>2. /\ SameTimer(k1, r) /\ SameSwitch(k1, r) /\ SameLists(k1, r) /\ r.prio = k1.prio
  BY <1>1, FlagsEffect DEF Flag, CB
<1>3. r.status = [k1.status EXCEPT ![t] = @ \ {"READY"}]
  BY <1>1 DEF ClearFlags, Kernel
<1>4. MakeUnready(kn, t) = r
  BY DEF MakeUnready, k1
<1> HIDE DEF r
<1> QED BY <1>1, <1>2, <1>3, <1>4 DEF SameTimer, SameSwitch, SameLists, SameTasks

-----------------------------------------------------------------------------
(* The lists stay consistent *)

\* The lists mention a task only as ready or waiting.
LEMMA ListsFrame ==
  ASSUME NEW k1 \in Kernel, NEW k2 \in Kernel, ListsOK(k1),
         k2.list = k1.list, k2.bitmap = k1.bitmap,
         \A t \in TaskID :
           /\ "READY" \in k2.status[t] <=> "READY" \in k1.status[t]
           /\ k2.status[t] \cap Waiting = {} <=> k1.status[t] \cap Waiting = {}
           /\ "READY" \in k1.status[t] => k2.prio[t] = k1.prio[t]
  PROVE  ListsOK(k2)
<1>1. \A h \in ListHead : IsInjective(k2.list[h])
  BY DEF ListsOK
<1>2. \A g, h \in ListHead : g # h => ToSet(k2.list[g]) \cap ToSet(k2.list[h]) = {}
  BY DEF ListsOK
<1>3. \A t \in TaskID, p \in Pri :
        t \in ToSet(k2.list[p]) <=> "READY" \in k2.status[t] /\ k2.prio[t] = p
  BY DEF ListsOK
<1>4. \A t \in TaskID :
        (\E w \in WaitList : t \in ToSet(k2.list[w])) <=> k2.status[t] \cap Waiting # {}
  BY DEF ListsOK
<1>5. k2.bitmap = {p \in Pri : k2.list[p] # <<>>}
  BY DEF ListsOK
<1> QED BY <1>1, <1>2, <1>3, <1>4, <1>5 DEF ListsOK

\* A task that is neither ready nor waiting is on no list.
LEMMA NotLinked ==
  ASSUME NEW kn \in Kernel, ListsOK(kn), NEW t \in TaskID,
         "READY" \notin kn.status[t], kn.status[t] \cap Waiting = {}
  PROVE  \A h \in ListHead : t \notin ToSet(kn.list[h])
BY DEF ListsOK, ListHead

\* A task that is on no list can be made ready: the lists stay consistent.
LEMMA MakeReadyLists ==
  ASSUME NEW kn \in Kernel, ListsOK(kn), NEW t \in TaskID,
         "READY" \notin kn.status[t], kn.status[t] \cap Waiting = {}
  PROVE  ListsOK(MakeReady(kn, t))
<1> DEFINE r == MakeReady(kn, t)
           p == kn.prio[t]
<1>1. /\ r.prio = kn.prio
      /\ r.status = [kn.status EXCEPT ![t] = @ \cup {"READY"}]
      /\ r.list = [kn.list EXCEPT ![p] = Append(@, t)]
      /\ r.bitmap = IF kn.list[p] = <<>> THEN kn.bitmap \cup {p} ELSE kn.bitmap
  BY MakeReadyEffect
<1>2. /\ p \in Pri /\ p \in ListHead
      /\ kn.list \in [ListHead -> Seq(TaskID)] /\ kn.status \in [CB -> SUBSET Flag]
      /\ t \in CB
  BY DEF Kernel, ListHead, CB
<1>3. /\ ToSet(Append(kn.list[p], t)) = ToSet(kn.list[p]) \cup {t}
      /\ IsInjective(Append(kn.list[p], t))
      /\ Append(kn.list[p], t) # <<>>
  <2>1. kn.list[p] \in Seq(TaskID)
    BY <1>2
  <2>2. IsInjective(kn.list[p])
    BY <1>2 DEF ListsOK
  <2>3. t \notin ToSet(kn.list[p])
    BY <1>2, NotLinked
  <2> HIDE DEF p
  <2> QED BY <2>1, <2>2, <2>3, AppendFacts
<1>4. \A h \in ListHead : ToSet(r.list[h]) = IF h = p THEN ToSet(kn.list[h]) \cup {t}
                                                    ELSE ToSet(kn.list[h])
  BY <1>1, <1>2, <1>3
<1>5. \A h \in ListHead : t \notin ToSet(kn.list[h])
  BY NotLinked
<1> HIDE DEF r, p
<1>6. \A h \in ListHead : IsInjective(r.list[h])
  BY <1>1, <1>2, <1>3 DEF ListsOK
<1>7. \A g, h \in ListHead : g # h => ToSet(r.list[g]) \cap ToSet(r.list[h]) = {}
  <2> SUFFICES ASSUME NEW g \in ListHead, NEW h \in ListHead, g # h
               PROVE  ToSet(r.list[g]) \cap ToSet(r.list[h]) = {}
    OBVIOUS
  <2>1. ToSet(kn.list[g]) \cap ToSet(kn.list[h]) = {}
    BY DEF ListsOK
  <2> QED BY <1>4, <1>5, <2>1
<1>8. \A u \in TaskID, q \in Pri :
        u \in ToSet(r.list[q]) <=> "READY" \in r.status[u] /\ r.prio[u] = q
  <2> TAKE u \in TaskID, q \in Pri
  <2>1. q \in ListHead /\ u \in CB
    BY DEF ListHead, CB
  <2>2. CASE u = t
    <3>1. "READY" \in r.status[u] /\ r.prio[u] = p
      BY <1>1, <1>2, <2>2 DEF p
    <3>2. u \in ToSet(r.list[q]) <=> q = p
      BY <1>4, <1>5, <2>1, <2>2
    <3> QED BY <3>1, <3>2
  <2>3. CASE u # t
    <3>1. r.status[u] = kn.status[u] /\ r.prio[u] = kn.prio[u]
      BY <1>1, <1>2, <2>1, <2>3
    <3>2. u \in ToSet(r.list[q]) <=> u \in ToSet(kn.list[q])
      BY <1>4, <2>1, <2>3
    <3> QED BY <3>1, <3>2 DEF ListsOK
  <2> QED BY <2>2, <2>3
<1>9. \A u \in TaskID :
        (\E w \in WaitList : u \in ToSet(r.list[w])) <=> r.status[u] \cap Waiting # {}
  <2> TAKE u \in TaskID
  <2>1. \A w \in WaitList : w # p /\ w \in ListHead
    BY <1>2, WaitListAssumption DEF ListHead
  <2>2. r.status[u] \cap Waiting = kn.status[u] \cap Waiting
    BY <1>1, <1>2 DEF Waiting, CB
  <2> QED BY <1>4, <2>1, <2>2 DEF ListsOK
<1>10. r.bitmap = {q \in Pri : r.list[q] # <<>>}
  <2>1. \A q \in Pri : q \in ListHead
    BY DEF ListHead
  <2> QED BY <1>1, <1>2, <1>3, <2>1 DEF ListsOK
<1> QED BY <1>6, <1>7, <1>8, <1>9, <1>10 DEF ListsOK, r

\* A ready task can be taken out of the queue: the lists stay consistent.
LEMMA MakeUnreadyLists ==
  ASSUME NEW kn \in Kernel, ListsOK(kn), NEW t \in TaskID, "READY" \in kn.status[t]
  PROVE  ListsOK(MakeUnready(kn, t)) /\ IsLinked(kn, t)
<1> DEFINE r == MakeUnready(kn, t)
           p == kn.prio[t]
<1>1. /\ p \in Pri /\ p \in ListHead
      /\ kn.list \in [ListHead -> Seq(TaskID)] /\ kn.status \in [CB -> SUBSET Flag]
      /\ t \in CB
  BY DEF Kernel, ListHead, CB
<1>2. t \in ToSet(kn.list[p]) /\ IsLinked(kn, t)
  BY <1>1 DEF ListsOK, IsLinked
<1>3. /\ r.prio = kn.prio
      /\ r.status = [kn.status EXCEPT ![t] = @ \ {"READY"}]
      /\ r.list = [h \in ListHead |-> Unlink(kn.list[h], t)]
      /\ r.bitmap = IF Unlink(kn.list[p], t) = <<>> THEN kn.bitmap \ {p} ELSE kn.bitmap
  BY <1>2, MakeUnreadyEffect
<1>4. \A h \in ListHead : /\ ToSet(r.list[h]) = ToSet(kn.list[h]) \ {t}
                          /\ IsInjective(r.list[h])
  BY <1>1, <1>3, UnlinkFacts DEF ListsOK
<1>5. \A h \in ListHead \ {p} : r.list[h] = kn.list[h]
  <2> TAKE h \in ListHead \ {p}
  <2>1. t \notin ToSet(kn.list[h])
    BY <1>1, <1>2 DEF ListsOK
  <2> QED BY <1>3, <2>1 DEF Unlink
<1> HIDE DEF r, p
<1>6. \A g, h \in ListHead : g # h => ToSet(r.list[g]) \cap ToSet(r.list[h]) = {}
  BY <1>4 DEF ListsOK
<1>7. \A u \in TaskID, q \in Pri :
        u \in ToSet(r.list[q]) <=> "READY" \in r.status[u] /\ r.prio[u] = q
  <2> TAKE u \in TaskID, q \in Pri
  <2>1. q \in ListHead /\ u \in CB
    BY DEF ListHead, CB
  <2>2. CASE u = t
    <3>1. "READY" \notin r.status[u]
      BY <1>1, <1>3, <2>2
    <3>2. u \notin ToSet(r.list[q])
      BY <1>4, <2>1, <2>2
    <3> QED BY <3>1, <3>2
  <2>3. CASE u # t
    <3>1. r.status[u] = kn.status[u] /\ r.prio[u] = kn.prio[u]
      BY <1>1, <1>3, <2>1, <2>3
    <3>2. u \in ToSet(r.list[q]) <=> u \in ToSet(kn.list[q])
      BY <1>4, <2>1, <2>3
    <3> QED BY <3>1, <3>2 DEF ListsOK
  <2> QED BY <2>2, <2>3
<1>8. \A u \in TaskID :
        (\E w \in WaitList : u \in ToSet(r.list[w])) <=> r.status[u] \cap Waiting # {}
  <2> TAKE u \in TaskID
  <2>1. \A w \in WaitList : w \in ListHead \ {p}
    BY <1>1, WaitListAssumption DEF ListHead
  <2>2. r.status[u] \cap Waiting = kn.status[u] \cap Waiting
    BY <1>1, <1>3 DEF Waiting, CB
  <2> QED BY <1>5, <2>1, <2>2 DEF ListsOK
<1>9. r.bitmap = {q \in Pri : r.list[q] # <<>>}
  <2>1. \A q \in Pri : q \in ListHead
    BY DEF ListHead
  <2>2. r.list[p] = Unlink(kn.list[p], t) /\ kn.list[p] # <<>>
    <3>1. kn.list[p] # <<>>
      BY <1>2, EmptySeq DEF ToSet, p
    <3> QED BY <1>1, <1>3, <3>1
  <2> QED BY <1>1, <1>3, <1>5, <2>1, <2>2 DEF ListsOK
<1> QED BY <1>2, <1>4, <1>6, <1>7, <1>8, <1>9 DEF ListsOK, r

\* Moving the running task to the end of its list keeps the lists consistent.
LEMMA RequeueEffect ==
  ASSUME NEW kn \in Kernel, ListsOK(kn), kn.run \in TaskID, "READY" \in kn.status[kn.run]
  PROVE  LET r == Requeue(kn)
         IN  /\ ListsOK(r) /\ r.fault = kn.fault
             /\ SameTimer(kn, r) /\ SameSwitch(kn, r) /\ SameTasks(kn, r)
<1> DEFINE t  == kn.run
           p  == kn.prio[t]
           k1 == ListDelete(kn, t)
           r  == osPriqueueEnqueue(k1, t)
<1>1. /\ p \in Pri /\ p \in ListHead /\ t \in TaskID
      /\ kn.list \in [ListHead -> Seq(TaskID)]
  BY DEF Kernel, ListHead
<1>2. t \in ToSet(kn.list[p]) /\ IsLinked(kn, t)
  BY <1>1 DEF ListsOK, IsLinked
<1>3. /\ SameTimer(kn, k1) /\ SameSwitch(kn, k1) /\ SameTasks(kn, k1)
      /\ k1.bitmap = kn.bitmap /\ k1.fault = kn.fault /\ k1 \in Kernel
      /\ k1.list = [h \in ListHead |-> Unlink(kn.list[h], t)]
  BY <1>2, ListDeleteEffect, ListDeleteType
<1>4. \A h \in ListHead : /\ ToSet(k1.list[h]) = ToSet(kn.list[h]) \ {t}
                          /\ IsInjective(k1.list[h])
                          /\ k1.list[h] \in Seq(TaskID)
  BY <1>1, <1>3, UnlinkFacts, UnlinkType DEF ListsOK
<1>5. \A h \in ListHead \ {p} : k1.list[h] = kn.list[h]
  <2> TAKE h \in ListHead \ {p}
  <2>1. t \notin ToSet(kn.list[h])
    BY <1>1, <1>2 DEF ListsOK
  <2> QED BY <1>3, <2>1 DEF Unlink
<1> HIDE DEF k1
<1>6. k1.prio[t] = p
  BY <1>3 DEF SameTasks
<1> HIDE DEF p
<1>7. /\ SameTimer(k1, r) /\ SameSwitch(k1, r) /\ SameTasks(k1, r) /\ r.fault = k1.fault
      /\ r.list = [k1.list EXCEPT ![p] = Append(@, t)]
      /\ r.bitmap = IF k1.list[p] = <<>> THEN k1.bitmap \cup {p} ELSE k1.bitmap
  BY <1>1, <1>3, <1>6, EnqueueEffect
<1> HIDE DEF r, t
<1>8. /\ ToSet(Append(k1.list[p], t)) = ToSet(kn.list[p])
      /\ IsInjective(Append(k1.list[p], t))
      /\ Append(k1.list[p], t) # <<>>
  <2>1. k1.list[p] \in Seq(TaskID) /\ IsInjective(k1.list[p]) /\ t \notin ToSet(k1.list[p])
    BY <1>1, <1>4
  <2>2. /\ ToSet(Append(k1.list[p], t)) = ToSet(k1.list[p]) \cup {t}
        /\ IsInjective(Append(k1.list[p], t))
        /\ Append(k1.list[p], t) # <<>>
    BY <1>1, <2>1, AppendFacts
  <2>3. t \in ToSet(kn.list[p]) /\ ToSet(k1.list[p]) = ToSet(kn.list[p]) \ {t}
    BY <1>1, <1>2, <1>4
  <2> QED BY <2>2, <2>3
<1>9. \A h \in ListHead : ToSet(r.list[h]) = ToSet(kn.list[h]) /\ IsInjective(r.list[h])
  BY <1>1, <1>3, <1>4, <1>5, <1>7, <1>8
<1>10. r.bitmap = kn.bitmap /\ kn.bitmap = {q \in Pri : r.list[q] # <<>>}
  <2>1. \A q \in Pri : q \in ListHead
    BY DEF ListHead
  <2>2. kn.list[p] # <<>>
    BY <1>2, EmptySeq DEF ToSet
  <2>3. kn.bitmap = {q \in Pri : kn.list[q] # <<>>}
    BY DEF ListsOK
  <2>4. \A q \in Pri : r.list[q] # <<>> <=> kn.list[q] # <<>>
    BY <1>1, <1>3, <1>5, <1>7, <1>8, <2>1, <2>2
  <2>5. p \in kn.bitmap
    BY <1>1, <2>2, <2>3
  <2> QED BY <1>3, <1>7, <2>3, <2>4, <2>5
<1>11. SameTasks(kn, r)
  BY <1>3, <1>7 DEF SameTasks
<1>12. ListsOK(r)
  <2>1. \A g, h \in ListHead : g # h => ToSet(r.list[g]) \cap ToSet(r.list[h]) = {}
    BY <1>9 DEF ListsOK
  <2>2. \A u \in TaskID, q \in Pri :
          u \in ToSet(r.list[q]) <=> "READY" \in r.status[u] /\ r.prio[u] = q
    BY <1>9, <1>11 DEF ListsOK, SameTasks, ListHead
  <2>3. \A u \in TaskID :
          (\E w \in WaitList : u \in ToSet(r.list[w])) <=> r.status[u] \cap Waiting # {}
    BY <1>9, <1>11 DEF ListsOK, SameTasks, ListHead
  <2> QED BY <1>9, <1>10, <2>1, <2>2, <2>3 DEF ListsOK
<1> QED BY <1>3, <1>7, <1>11, <1>12
        DEF Requeue, r, k1, t, SameTimer, SameSwitch

-----------------------------------------------------------------------------
(* Joining and leaving a wait list *)

\* A waiting task leaves the list it is on: the lists stay consistent, and the
\* ready queue is as it was.
LEMMA LeaveLists ==
  ASSUME NEW kn \in Kernel, ListsOK(kn), NEW t \in TaskID, NEW flag \in Waiting,
         kn.status[t] \cap Waiting = {flag}, "READY" \notin kn.status[t],
         NEW r, r = ClearFlags(ListDelete(kn, t), t, {flag})
  PROVE  /\ r \in Kernel /\ ListsOK(r)
         /\ SameTimer(kn, r) /\ SameSwitch(kn, r) /\ r.prio = kn.prio
         /\ r.fault = kn.fault /\ r.bitmap = kn.bitmap
         /\ r.status = [kn.status EXCEPT ![t] = @ \ {flag}]
         /\ r.list = [h \in ListHead |-> Unlink(kn.list[h], t)]
         /\ \A p \in Pri : r.list[p] = kn.list[p]
<1> DEFINE k1 == ListDelete(kn, t)
<1>1. /\ kn.list \in [ListHead -> Seq(TaskID)] /\ kn.status \in [CB -> SUBSET Flag]
      /\ t \in CB /\ {flag} \in SUBSET Flag
  BY DEF Kernel, CB, Waiting, Flag
<1>2. IsLinked(kn, t) /\ \A p \in Pri : t \notin ToSet(kn.list[p])
  BY DEF ListsOK, IsLinked, ListHead
<1>3. /\ SameTimer(kn, k1) /\ SameSwitch(kn, k1) /\ SameTasks(kn, k1)
      /\ k1.bitmap = kn.bitmap /\ k1.fault = kn.fault /\ k1 \in Kernel
      /\ k1.list = [h \in ListHead |-> Unlink(kn.list[h], t)]
  BY <1>2, ListDeleteEffect, ListDeleteType
<1> HIDE DEF k1
<1>4. /\ r \in Kernel /\ SameTimer(k1, r) /\ SameSwitch(k1, r) /\ SameLists(k1, r)
      /\ r.prio = k1.prio
  BY <1>1, <1>3, FlagsType, FlagsEffect DEF k1
<1>5. r.status = [kn.status EXCEPT ![t] = @ \ {flag}]
  BY <1>3 DEF ClearFlags, Kernel, SameTasks, k1
<1>6. /\ SameTimer(kn, r) /\ SameSwitch(kn, r) /\ r.prio = kn.prio
      /\ r.fault = kn.fault /\ r.bitmap = kn.bitmap
      /\ r.list = [h \in ListHead |-> Unlink(kn.list[h], t)]
  BY <1>3, <1>4 DEF SameTimer, SameSwitch, SameTasks, SameLists
<1>7. \A p \in Pri : r.list[p] = kn.list[p]
  BY <1>2, <1>6 DEF ListHead, Unlink
<1>8. \A h \in ListHead : /\ ToSet(r.list[h]) = ToSet(kn.list[h]) \ {t}
                          /\ IsInjective(r.list[h])
  BY <1>1, <1>6, UnlinkFacts DEF ListsOK
<1>9. ListsOK(r)
  <2>1. \A g, h \in ListHead : g # h => ToSet(r.list[g]) \cap ToSet(r.list[h]) = {}
    BY <1>8 DEF ListsOK
  <2>2. \A u \in TaskID : u \in CB /\ ("READY" \in r.status[u] <=> "READY" \in kn.status[u])
    BY <1>1, <1>5 DEF Waiting, CB
  <2>3. \A u \in TaskID :
          (\E w \in WaitList : u \in ToSet(r.list[w])) <=> r.status[u] \cap Waiting # {}
    <3> TAKE u \in TaskID
    <3>1. \A w \in WaitList : w \in ListHead
      BY DEF ListHead
    <3>2. CASE u = t
      <4>1. r.status[u] \cap Waiting = {}
        BY <1>1, <1>5, <3>2 DEF Waiting
      <4> QED BY <1>8, <3>1, <3>2, <4>1
    <3>3. CASE u # t
      <4>1. r.status[u] = kn.status[u]
        BY <1>1, <1>5, <3>3 DEF CB
      <4>2. \A w \in WaitList : u \in ToSet(r.list[w]) <=> u \in ToSet(kn.list[w])
        BY <1>8, <3>1, <3>3
      <4>3. (\E w \in WaitList : u \in ToSet(kn.list[w])) <=> kn.status[u] \cap Waiting # {}
        BY DEF ListsOK
      <4> QED BY ONLY <4>1, <4>2, <4>3
    <3> QED BY <3>2, <3>3
  <2>4. \A u \in TaskID, p \in Pri :
          u \in ToSet(r.list[p]) <=> "READY" \in r.status[u] /\ r.prio[u] = p
    BY ONLY <1>6, <1>7, <2>2, ListsOK(kn) DEF ListsOK
  <2>5. r.bitmap = {p \in Pri : r.list[p] # <<>>}
    BY ONLY <1>6, <1>7, ListsOK(kn) DEF ListsOK
  <2> QED BY ONLY <1>8, <2>1, <2>3, <2>4, <2>5 DEF ListsOK
<1> QED BY <1>4, <1>5, <1>6, <1>7, <1>9

\* A task on no list joins a wait list: the lists stay consistent.
LEMMA JoinLists ==
  ASSUME NEW kn \in Kernel, ListsOK(kn), NEW t \in TaskID, NEW w \in WaitList,
         "READY" \notin kn.status[t], kn.status[t] \cap Waiting = {},
         NEW r \in Kernel, r.prio = kn.prio, r.bitmap = kn.bitmap,
         NEW flag \in Waiting, NEW F \in SUBSET {"TIMEOUT"},
         r.status = [kn.status EXCEPT ![t] = @ \cup {flag} \cup F],
         r.list = [kn.list EXCEPT ![w] = Append(@, t)]
  PROVE  ListsOK(r)
<1>1. /\ kn.list \in [ListHead -> Seq(TaskID)] /\ kn.status \in [CB -> SUBSET Flag]
      /\ t \in CB /\ w \in ListHead /\ w \notin Pri /\ Pri \subseteq ListHead /\ WaitList \subseteq ListHead
  BY WaitListAssumption DEF Kernel, CB, ListHead
<1>2. \A h \in ListHead : t \notin ToSet(kn.list[h])
  BY NotLinked
<1>3. /\ ToSet(r.list[w]) = ToSet(kn.list[w]) \cup {t} /\ IsInjective(r.list[w])
  <2>1. r.list[w] = Append(kn.list[w], t)
    BY <1>1
  <2> QED BY <1>1, <1>2, <2>1, AppendFacts DEF ListsOK
<1>4. \A h \in ListHead \ {w} : r.list[h] = kn.list[h]
  BY <1>1
<1>5. \A u \in CB \ {t} : r.status[u] = kn.status[u]
  BY <1>1
<1>6. "READY" \notin r.status[t] /\ r.status[t] \cap Waiting # {}
  BY <1>1 DEF Waiting
<1>7. \A h \in ListHead : IsInjective(r.list[h])
  BY <1>3, <1>4 DEF ListsOK
<1>8. \A g, h \in ListHead : g # h => ToSet(r.list[g]) \cap ToSet(r.list[h]) = {}
  <2> SUFFICES ASSUME NEW g \in ListHead, NEW h \in ListHead, g # h, NEW u,
                      u \in ToSet(r.list[g]), u \in ToSet(r.list[h])
               PROVE  FALSE
    OBVIOUS
  <2>1. ToSet(kn.list[g]) \cap ToSet(kn.list[h]) = {}
    BY DEF ListsOK
  <2>2. \A x \in ListHead : ToSet(r.list[x]) \subseteq ToSet(kn.list[x]) \cup (IF x = w THEN {t} ELSE {})
    BY <1>3, <1>4
  <2> QED BY <1>2, <2>1, <2>2
<1>9. \A u \in TaskID, p \in Pri :
        u \in ToSet(r.list[p]) <=> "READY" \in r.status[u] /\ r.prio[u] = p
  <2> TAKE u \in TaskID, p \in Pri
  <2>1. r.list[p] = kn.list[p] /\ u \in CB
    BY <1>1, <1>4 DEF CB
  <2> QED BY <1>1, <1>2, <1>5, <1>6, <2>1 DEF ListsOK
<1>10. \A u \in TaskID :
         (\E v \in WaitList : u \in ToSet(r.list[v])) <=> r.status[u] \cap Waiting # {}
  <2> TAKE u \in TaskID
  <2>1. u \in CB
    BY DEF CB
  <2>2. CASE u = t
    BY <1>3, <1>6, <2>2
  <2>3. CASE u # t
    <3>1. \A v \in WaitList : u \in ToSet(r.list[v]) <=> u \in ToSet(kn.list[v])
      BY <1>1, <1>3, <1>4, <2>3
    <3> QED BY <1>5, <2>1, <2>3, <3>1 DEF ListsOK
  <2> QED BY <2>2, <2>3
<1>11. r.bitmap = {p \in Pri : r.list[p] # <<>>}
  BY <1>1, <1>4 DEF ListsOK
<1> QED BY <1>7, <1>8, <1>9, <1>10, <1>11 DEF ListsOK

\* What osTaskWait does: the running task moves from the ready queue to the
\* wait list, and with a time limit to the timeout list as well.
LEMMA WaitEffect ==
  ASSUME NEW kn \in Kernel, ListsOK(kn), NEW t \in TaskID, t = kn.run,
         "READY" \in kn.status[t], kn.status[t] \cap Waiting = {},
         NEW w \in WaitList, NEW flag \in Waiting, NEW n \in Nat,
         NEW r, r = osTaskWait(kn, w, flag, n)
  PROVE  /\ r \in Kernel /\ ListsOK(r) /\ SameSwitch(kn, r)
         /\ r.prio = kn.prio /\ r.fault = kn.fault
         /\ r.status = [kn.status EXCEPT ![t] =
                          (@ \ {"READY"}) \cup {flag} \cup (IF n = Forever THEN {} ELSE {"TIMEOUT"})]
         /\ r.timer = IF n = Forever THEN kn.timer ELSE kn.timer \cup {t}
         /\ r.left = IF n = Forever THEN kn.left ELSE [kn.left EXCEPT ![t] = n]
         /\ \A v \in WaitList : r.list[v] = IF v = w THEN Append(kn.list[v], t) ELSE kn.list[v]
<1> DEFINE k1 == MakeUnready(kn, t)
           k2 == ListTailInsert(SetFlags(k1, t, {flag}), w, t)
           k3 == osTaskAdd2TimerList(SetFlags(k2, t, {"TIMEOUT"}), t, n)
<1>1. /\ t \in CB /\ kn.status \in [CB -> SUBSET Flag] /\ w \in ListHead /\ w \notin Pri
      /\ {flag} \in SUBSET Flag /\ {"TIMEOUT"} \in SUBSET Flag
  BY WaitListAssumption DEF Kernel, CB, ListHead, Waiting, Flag
<1>2. r = IF n = Forever THEN k2 ELSE k3
  BY DEF osTaskWait
<1>3. /\ k1 \in Kernel /\ ListsOK(k1) /\ IsLinked(kn, t)
      /\ SameTimer(kn, k1) /\ SameSwitch(kn, k1) /\ k1.prio = kn.prio
      /\ k1.status = [kn.status EXCEPT ![t] = @ \ {"READY"}]
      /\ k1.fault = kn.fault
      /\ k1.list = [h \in ListHead |-> Unlink(kn.list[h], t)]
  BY MakeUnreadyType, MakeUnreadyLists, MakeUnreadyEffect
<1>4. \A v \in WaitList : k1.list[v] = kn.list[v]
  <2> TAKE v \in WaitList
  <2>1. t \notin ToSet(kn.list[v])
    BY SMTT(60) DEF ListsOK
  <2> QED BY <1>3, <2>1 DEF Unlink, ListHead
<1> HIDE DEF k1
<1>5. /\ k2 \in Kernel /\ SameTimer(k1, k2) /\ SameSwitch(k1, k2) /\ k2.prio = k1.prio
      /\ k2.fault = k1.fault /\ k2.bitmap = k1.bitmap
      /\ k2.status = [k1.status EXCEPT ![t] = @ \cup {flag}]
      /\ k2.list = [k1.list EXCEPT ![w] = Append(@, t)]
  <2>1. k2 \in Kernel
    BY <1>1, <1>3, FlagsType, ListTailInsertType
  <2> QED BY ZenonT(60), <1>1, <1>3, <2>1 DEF SetFlags, ListTailInsert, Kernel, SameTimer, SameSwitch
<1> HIDE DEF k2
<1>6. /\ k3 \in Kernel /\ SameSwitch(k2, k3) /\ k3.prio = k2.prio
      /\ k3.fault = k2.fault /\ k3.bitmap = k2.bitmap /\ k3.list = k2.list
      /\ k3.status = [k2.status EXCEPT ![t] = @ \cup {"TIMEOUT"}]
      /\ k3.timer = k2.timer \cup {t} /\ k3.left = [k2.left EXCEPT ![t] = n]
  <2> DEFINE q == SetFlags(k2, t, {"TIMEOUT"})
  <2>1. /\ q \in Kernel /\ SameTimer(k2, q) /\ SameSwitch(k2, q) /\ SameLists(k2, q)
        /\ q.prio = k2.prio /\ q.status = [k2.status EXCEPT ![t] = @ \cup {"TIMEOUT"}]
    <3>1. q.status = [k2.status EXCEPT ![t] = @ \cup {"TIMEOUT"}]
      BY <1>5 DEF SetFlags, Kernel
    <3> QED BY <1>1, <1>5, <3>1, FlagsType, FlagsEffect
  <2> HIDE DEF q
  <2>2. /\ k3 \in Kernel /\ k3 = [q EXCEPT !.timer = @ \cup {t}, !.left[t] = n]
    BY <2>1, TimerType DEF osTaskAdd2TimerList, q
  <2> HIDE DEF k3
  <2>3. /\ SameSwitch(q, k3) /\ SameLists(q, k3) /\ SameTasks(q, k3)
        /\ k3.timer = q.timer \cup {t} /\ k3.left = [q.left EXCEPT ![t] = n]
    BY <2>1, <2>2 DEF Kernel, SameSwitch, SameLists, SameTasks
  <2> QED BY <2>1, <2>2, <2>3 DEF SameTimer, SameSwitch, SameLists, SameTasks
<1> HIDE DEF k3
<1> DEFINE F == IF n = Forever THEN {} ELSE {"TIMEOUT"}
<1>7. /\ r \in Kernel /\ SameSwitch(kn, r) /\ r.prio = kn.prio /\ r.fault = kn.fault
      /\ r.bitmap = k1.bitmap /\ r.list = [k1.list EXCEPT ![w] = Append(@, t)]
      /\ r.timer = IF n = Forever THEN kn.timer ELSE kn.timer \cup {t}
      /\ r.left = IF n = Forever THEN kn.left ELSE [kn.left EXCEPT ![t] = n]
  BY ZenonT(60), <1>2, <1>3, <1>5, <1>6 DEF SameSwitch, SameTimer
<1>8. r.status = [k1.status EXCEPT ![t] = @ \cup {flag} \cup F]
  <2>1. CASE n = Forever
    <3>1. r.status = [k1.status EXCEPT ![t] = @ \cup {flag}]
      BY <1>2, <1>5, <2>1
    <3> QED BY <2>1, <3>1
  <2>2. CASE n # Forever
    <3>1. r.status = [k2.status EXCEPT ![t] = @ \cup {"TIMEOUT"}]
      BY <1>2, <1>6, <2>2
    <3> QED BY <1>1, <1>3, <1>5, <2>2, <3>1 DEF Kernel
  <2> QED BY <2>1, <2>2
<1>9. ListsOK(r)
  <2>1. F \in SUBSET {"TIMEOUT"}
    OBVIOUS
  <2>2. "READY" \notin k1.status[t] /\ k1.status[t] \cap Waiting = {}
    BY <1>1, <1>3 DEF Waiting
  <2>3. r.prio = k1.prio
    BY <1>3, <1>7
  <2> HIDE DEF F
  <2> QED BY <1>3, <1>7, <1>8, <2>1, <2>2, <2>3, JoinLists
<1>10. r.status = [kn.status EXCEPT ![t] = (@ \ {"READY"}) \cup {flag} \cup F]
  <2> HIDE DEF F
  <2> QED BY <1>1, <1>3, <1>8
<1>11. \A v \in WaitList : r.list[v] = IF v = w THEN Append(kn.list[v], t) ELSE kn.list[v]
  BY <1>3, <1>4, <1>7 DEF Kernel, ListHead
<1> QED BY <1>7, <1>9, <1>10, <1>11

\* What osTaskWake does: the task leaves the wait list and the timeout list,
\* and is ready unless it is suspended.
LEMMA WakeEffect ==
  ASSUME NEW kn \in Kernel, ListsOK(kn), NEW t \in TaskID, NEW flag \in Waiting,
         kn.status[t] \cap Waiting = {flag}, "READY" \notin kn.status[t],
         "TIMEOUT" \in kn.status[t] => t \in kn.timer,
         NEW r, r = osTaskWake(kn, t, flag)
  PROVE  /\ r \in Kernel /\ ListsOK(r) /\ SameSwitch(kn, r)
         /\ r.prio = kn.prio /\ r.fault = kn.fault
         /\ \A u \in CB \ {t} : r.status[u] = kn.status[u]
         /\ r.status[t] = (kn.status[t] \ {flag, "TIMEOUT"})
                            \cup (IF "SUSPEND" \in kn.status[t] THEN {} ELSE {"READY"})
         /\ r.timer = IF "TIMEOUT" \in kn.status[t] THEN kn.timer \ {t} ELSE kn.timer
         /\ \A u \in TaskID \ {t} : r.left[u] = kn.left[u]
         /\ \A w \in WaitList : r.list[w] = Unlink(kn.list[w], t)
<1> DEFINE k1 == ClearFlags(ListDelete(kn, t), t, {flag})
           c2 == ClearFlags(osTimerListDelete(k1, t), t, {"TIMEOUT"})
           k2 == IF "TIMEOUT" \in k1.status[t] THEN c2 ELSE k1
           k3 == MakeReady(k2, t)
<1>1. /\ t \in CB /\ kn.status \in [CB -> SUBSET Flag] /\ {"TIMEOUT"} \in SUBSET Flag
  BY DEF Kernel, CB, Flag
<1>2. r = IF "SUSPEND" \in k2.status[t] THEN k2 ELSE k3
  BY DEF osTaskWake
<1>3. /\ k1 \in Kernel /\ ListsOK(k1)
      /\ SameTimer(kn, k1) /\ SameSwitch(kn, k1) /\ k1.prio = kn.prio
      /\ k1.fault = kn.fault
      /\ k1.status = [kn.status EXCEPT ![t] = @ \ {flag}]
      /\ k1.list = [h \in ListHead |-> Unlink(kn.list[h], t)]
  BY LeaveLists
<1> HIDE DEF k1
<1>4. k1.status[t] = kn.status[t] \ {flag} /\ \A u \in CB \ {t} : k1.status[u] = kn.status[u]
  BY <1>1, <1>3
<1>5. "TIMEOUT" \in k1.status[t] <=> "TIMEOUT" \in kn.status[t]
  BY <1>4 DEF Waiting
<1>6. ASSUME "TIMEOUT" \in kn.status[t]
      PROVE  /\ c2 \in Kernel /\ ListsOK(c2) /\ SameSwitch(k1, c2) /\ c2.prio = k1.prio
             /\ c2.fault = k1.fault /\ c2.list = k1.list
             /\ c2.status[t] = k1.status[t] \ {"TIMEOUT"}
             /\ \A u \in CB \ {t} : c2.status[u] = k1.status[u]
             /\ c2.timer = k1.timer \ {t}
             /\ \A u \in TaskID \ {t} : c2.left[u] = k1.left[u]
  <2> DEFINE q == osTimerListDelete(k1, t)
  <2>1. q \in Kernel
    BY <1>3, TimerType
  <2>2. q = [k1 EXCEPT !.timer = @ \ {t}, !.left[t] = 0]
    BY <1>3, <1>6 DEF osTimerListDelete, SameTimer
  <2>3. /\ q.status = k1.status /\ q.prio = k1.prio /\ SameSwitch(k1, q) /\ SameLists(k1, q)
        /\ q.timer = k1.timer \ {t} /\ q.left = [k1.left EXCEPT ![t] = 0]
    BY <1>3, <2>2 DEF Kernel, SameSwitch, SameLists
  <2> HIDE DEF q
  <2>4. /\ c2 \in Kernel /\ SameTimer(q, c2) /\ SameSwitch(q, c2) /\ SameLists(q, c2)
        /\ c2.prio = q.prio
    BY <1>1, <2>1, FlagsType, FlagsEffect DEF q
  <2>5. c2.status = [k1.status EXCEPT ![t] = @ \ {"TIMEOUT"}]
    BY <2>1, <2>3 DEF ClearFlags, Kernel, q
  <2> HIDE DEF c2
  <2>6. /\ c2.status[t] = k1.status[t] \ {"TIMEOUT"}
        /\ \A u \in CB \ {t} : c2.status[u] = k1.status[u]
    BY <1>1, <1>3, <2>5 DEF Kernel
  <2>7. ListsOK(c2)
    <3>1. c2.list = k1.list /\ c2.bitmap = k1.bitmap /\ c2.prio = k1.prio
      BY <2>3, <2>4 DEF SameLists
    <3>2. \A u \in TaskID : /\ "READY" \in c2.status[u] <=> "READY" \in k1.status[u]
                            /\ c2.status[u] \cap Waiting = k1.status[u] \cap Waiting
      BY <2>6 DEF Waiting, CB
    <3> QED BY <1>3, <2>4, <3>1, <3>2, ListsFrame
  <2>8. \A u \in TaskID \ {t} : c2.left[u] = k1.left[u]
    BY <1>3, <2>3, <2>4 DEF Kernel, SameTimer
  <2> QED BY <2>3, <2>4, <2>6, <2>7, <2>8 DEF SameTimer, SameSwitch, SameLists
<1> HIDE DEF c2
<1>7. /\ k2 \in Kernel /\ ListsOK(k2) /\ SameSwitch(kn, k2) /\ k2.prio = kn.prio
      /\ k2.fault = kn.fault /\ k2.list = k1.list
      /\ k2.status[t] = kn.status[t] \ {flag, "TIMEOUT"}
      /\ \A u \in CB \ {t} : k2.status[u] = kn.status[u]
      /\ k2.timer = IF "TIMEOUT" \in kn.status[t] THEN kn.timer \ {t} ELSE kn.timer
      /\ \A u \in TaskID \ {t} : k2.left[u] = kn.left[u]
  <2>1. CASE "TIMEOUT" \in kn.status[t]
    <3>1. k2 = c2
      BY <1>5, <2>1
    <3> HIDE DEF k2
    <3>2. k1.status[t] \ {"TIMEOUT"} = kn.status[t] \ {flag, "TIMEOUT"}
      BY <1>4
    <3> QED BY <1>3, <1>4, <1>6, <2>1, <3>1, <3>2 DEF SameSwitch, SameTimer
  <2>2. CASE "TIMEOUT" \notin kn.status[t]
    <3>1. k2 = k1
      BY <1>5, <2>2
    <3> HIDE DEF k2
    <3>2. k1.status[t] = kn.status[t] \ {flag, "TIMEOUT"}
      BY <1>4, <2>2
    <3> QED BY <1>3, <1>4, <2>2, <3>1, <3>2 DEF SameTimer
  <2> QED BY <2>1, <2>2
<1> HIDE DEF k2
<1>8. "SUSPEND" \in k2.status[t] <=> "SUSPEND" \in kn.status[t]
  BY <1>7 DEF Waiting
<1>9. \A w \in WaitList : w \in ListHead /\ w \notin Pri /\ k2.list[w] = Unlink(kn.list[w], t)
  BY <1>3, <1>7, WaitListAssumption DEF ListHead
<1>10. CASE "SUSPEND" \in kn.status[t]
  <2>1. r = k2
    BY <1>2, <1>8, <1>10
  <2> QED BY <1>7, <1>9, <1>10, <2>1
<1>11. CASE "SUSPEND" \notin kn.status[t]
  <2>1. r = k3
    BY <1>2, <1>8, <1>11
  <2>2. "READY" \notin k2.status[t] /\ k2.status[t] \cap Waiting = {}
    BY <1>7
  <2>3. /\ k3 \in Kernel /\ ListsOK(k3) /\ SameTimer(k2, k3) /\ SameSwitch(k2, k3)
        /\ k3.prio = k2.prio /\ k3.fault = k2.fault
        /\ k3.status = [k2.status EXCEPT ![t] = @ \cup {"READY"}]
        /\ k3.list = [k2.list EXCEPT ![k2.prio[t]] = Append(@, t)]
    <3> HIDE DEF k2
    <3>1. k3 \in Kernel
      BY <1>7, MakeReadyType
    <3>2. ListsOK(k3)
      BY <1>7, <2>2, MakeReadyLists
    <3> QED BY ZenonT(60), <1>7, <3>1, <3>2, MakeReadyEffect
  <2> HIDE DEF k3
  <2>4. k3.status[t] = k2.status[t] \cup {"READY"} /\ \A u \in CB \ {t} : k3.status[u] = k2.status[u]
    BY <1>1, <1>7, <2>3 DEF Kernel
  <2>5. k2.prio[t] \in Pri /\ k2.list \in [ListHead -> Seq(TaskID)]
    BY <1>7 DEF Kernel
  <2>6. \A w \in WaitList : k3.list[w] = k2.list[w]
    BY <1>9, <2>3, <2>5
  <2> QED BY <1>7, <1>9, <1>11, <2>1, <2>3, <2>4, <2>6 DEF SameSwitch, SameTimer
<1> QED BY <1>10, <1>11

-----------------------------------------------------------------------------
(* The head of the most urgent ready list *)

IsTop(kn, t) ==
  /\ t \in TaskID /\ "READY" \in kn.status[t]
  /\ Head(kn.list[kn.prio[t]]) = t
  /\ \A u \in TaskID : "READY" \in kn.status[u] => kn.prio[t] <= kn.prio[u]

\* With consistent lists osPriqueueTop is the one ready task no ready task precedes.
LEMMA TopFacts ==
  ASSUME NEW kn \in Kernel, ListsOK(kn)
  PROVE  /\ \A t : IsTop(kn, t) => osPriqueueTop(kn) = t
         /\ (\E u \in TaskID : "READY" \in kn.status[u]) => IsTop(kn, osPriqueueTop(kn))
<1> DEFINE U(p) == p \in kn.bitmap /\ \A q \in kn.bitmap : p <= q
           top == osPriqueueTop(kn)
<1>1. /\ \A p \in Pri : p \in kn.bitmap <=> kn.list[p] # <<>>
      /\ kn.bitmap \subseteq Pri /\ Pri \subseteq Nat
      /\ \A t \in TaskID : kn.prio[t] \in Pri
  BY LowestAssumption DEF ListsOK, Kernel, Pri
<1>2. \A t \in TaskID : "READY" \in kn.status[t] => /\ t \in ToSet(kn.list[kn.prio[t]])
                                                    /\ kn.prio[t] \in kn.bitmap
  <2> TAKE t \in TaskID
  <2> HAVE "READY" \in kn.status[t]
  <2>1. t \in ToSet(kn.list[kn.prio[t]])
    BY <1>1 DEF ListsOK
  <2>2. kn.list[kn.prio[t]] # <<>>
    BY <2>1, EmptySeq DEF ToSet
  <2> QED BY <1>1, <2>1, <2>2
<1>3. \A p \in kn.bitmap : \E t \in TaskID :
        Head(kn.list[p]) = t /\ "READY" \in kn.status[t] /\ kn.prio[t] = p
  <2> TAKE p \in kn.bitmap
  <2>1. kn.list[p] \in Seq(TaskID) /\ kn.list[p] # <<>>
    BY <1>1 DEF Kernel, ListHead
  <2>2. Head(kn.list[p]) \in TaskID /\ Head(kn.list[p]) \in ToSet(kn.list[p])
    <3>1. Head(kn.list[p]) = kn.list[p][1] /\ Len(kn.list[p]) \in Nat \ {0}
      BY <2>1, HeadTailProperties, EmptySeq
    <3>2. 1 \in DOMAIN kn.list[p]
      BY <2>1, <3>1, LenProperties
    <3> QED BY <2>1, <3>1, <3>2, HeadTailProperties DEF ToSet
  <2> QED BY <1>1, <2>2 DEF ListsOK
<1>4. \A p \in Pri : U(p) => top = Head(kn.list[p])
  <2> TAKE p \in Pri
  <2> HAVE U(p)
  <2>1. \A q \in Pri : U(q) <=> q = p
    BY <1>1
  <2>2. kn.list[p] # <<>>
    BY <1>1
  <2>3. \E q \in Pri : U(q) /\ kn.list[q] # <<>>
    BY <2>2
  <2>4. p = CHOOSE q \in Pri : U(q)
    BY <2>1
  <2> QED BY <2>3, <2>4 DEF osPriqueueTop
<1>5. ASSUME NEW t, IsTop(kn, t) PROVE top = t
  <2>1. kn.prio[t] \in kn.bitmap
    BY <1>2, <1>5 DEF IsTop
  <2>2. \A q \in kn.bitmap : kn.prio[t] <= q
    BY <1>3, <1>5 DEF IsTop
  <2> QED BY <1>1, <1>4, <1>5, <2>1, <2>2 DEF IsTop
<1>6. ASSUME NEW u \in TaskID, "READY" \in kn.status[u] PROVE IsTop(kn, top)
  <2>1. kn.bitmap # {} /\ kn.bitmap \in SUBSET Nat
    BY <1>1, <1>2, <1>6
  <2>2. PICK p \in kn.bitmap : \A q \in kn.bitmap : p <= q
    BY <2>1, MostUrgent
  <2>3. top = Head(kn.list[p])
    BY <1>1, <1>4, <2>2
  <2>4. PICK t \in TaskID :
          Head(kn.list[p]) = t /\ "READY" \in kn.status[t] /\ kn.prio[t] = p
    BY <1>3
  <2> HIDE DEF top
  <2> QED BY <1>2, <2>2, <2>3, <2>4 DEF IsTop
<1> QED BY <1>5, <1>6

\* The first task stays the first when another one leaves the ready queue.
LEMMA TopKept ==
  ASSUME NEW kn \in Kernel, ListsOK(kn), NEW t, IsTop(kn, t),
         NEW u \in TaskID, u # t, "READY" \in kn.status[u]
  PROVE  IsTop(MakeUnready(kn, u), t)
<1> DEFINE r == MakeUnready(kn, u)
<1>1. IsLinked(kn, u)
  BY MakeUnreadyLists
<1>2. /\ r.prio = kn.prio
      /\ r.status = [kn.status EXCEPT ![u] = @ \ {"READY"}]
      /\ r.list = [h \in ListHead |-> Unlink(kn.list[h], u)]
  BY <1>1, MakeUnreadyEffect
<1> HIDE DEF r
<1>3. /\ kn.prio[t] \in ListHead /\ t \in TaskID /\ t \in CB
      /\ kn.list[kn.prio[t]] \in Seq(TaskID)
      /\ IsInjective(kn.list[kn.prio[t]])
      /\ kn.status \in [CB -> SUBSET Flag]
  BY DEF IsTop, Kernel, ListHead, ListsOK, CB
<1>4. kn.list[kn.prio[t]] # <<>>
  <2>1. t \in ToSet(kn.list[kn.prio[t]])
    BY <1>3 DEF IsTop, ListsOK, Kernel
  <2> QED BY <2>1, EmptySeq DEF ToSet
<1>5. Head(r.list[kn.prio[t]]) = t
  <2>1. Head(kn.list[kn.prio[t]]) # u
    BY DEF IsTop
  <2>2. Head(Unlink(kn.list[kn.prio[t]], u)) = Head(kn.list[kn.prio[t]])
    BY <1>3, <1>4, <2>1, UnlinkFacts
  <2> QED BY <1>2, <1>3, <2>2 DEF IsTop
<1>6. "READY" \in r.status[t]
  BY <1>2, <1>3 DEF IsTop
<1>7. \A v \in TaskID : "READY" \in r.status[v] => "READY" \in kn.status[v]
  BY <1>2, <1>3 DEF CB
<1> QED BY <1>2, <1>3, <1>5, <1>6, <1>7 DEF IsTop, r

-----------------------------------------------------------------------------
(***************************************************************************)
(* The lemmas are about the task manager on its own and about the systems  *)
(* in which tasks also block on kernel objects.  Such a system has more    *)
(* points of its tasks' code: P.all is the set of them, P.window those     *)
(* from which the task goes on to call LOS_Schedule, or to delete itself.  *)
(* P.strict tells whether each change of the ready queue is followed by    *)
(* such a call: LOS_MuxPost gives up an inherited priority without one.    *)
(***************************************************************************)

Points(P) == PC \subseteq P.all /\ {"schedule", "exit"} \subseteq P.window /\ "user" \notin P.window

TaskPoints == [all |-> PC, window |-> {"schedule", "exit"}, strict |-> TRUE]

Typed(P) == k \in Kernel /\ pc \in [TaskID -> P.all]

-----------------------------------------------------------------------------
(* Type correctness *)

\* The boot queue has a first task, and all of its tasks are tasks.
LEMMA FirstType ==
  /\ BootBitmap \subseteq Pri
  /\ First \in BootTasks
  /\ BootTasks \subseteq TaskID
<1>1. Lowest \in BootBitmap /\ BootBitmap \subseteq Pri /\ BootBitmap \subseteq Nat
  <2>1. Lowest \in Pri /\ Pri \subseteq Nat
    BY LowestAssumption DEF Pri
  <2>2. BootQueue[Lowest] # <<>>
    BY BootAssumption
  <2> QED BY <2>1, <2>2 DEF BootBitmap
<1> DEFINE u == CHOOSE p \in BootBitmap : \A q \in BootBitmap : p <= q
<1>2. u \in BootBitmap
  BY <1>1, MostUrgent
<1>3. BootQueue[u] \in Seq(TaskID) /\ BootQueue[u] # <<>> /\ u \in Pri
  BY <1>1, <1>2, BootAssumption DEF BootBitmap
<1>4. Head(BootQueue[u]) = BootQueue[u][1] /\ 1 \in DOMAIN BootQueue[u]
  BY <1>3, HeadTailProperties, LenProperties, EmptySeq
<1>5. First \in ToSet(BootQueue[u])
  BY <1>4 DEF First, ToSet
<1>6. BootTasks \subseteq TaskID
  <2>1. \A p \in Pri : \A i \in DOMAIN BootQueue[p] : BootQueue[p][i] \in TaskID
    BY BootAssumption, LenProperties, ElementOfSeq
  <2> QED BY <2>1 DEF BootTasks, ToSet
<1> QED BY <1>1, <1>3, <1>5, <1>6 DEF BootTasks

\* The state LOS_Start leaves is typed.
LEMMA InitType ==
  ASSUME NEW P, Points(P), Init
  PROVE  Typed(P)
<1> SUFFICES Typed(P)
  OBVIOUS
<1>1. \A t \in TaskID : BootPrio(t) \in Pri
  <2> TAKE t \in TaskID
  <2>1. CASE t \in BootTasks
    <3>1. \E p \in Pri : t \in ToSet(BootQueue[p])
      BY <2>1 DEF BootTasks
    <3> QED BY <2>1, <3>1 DEF BootPrio
  <2>2. CASE t \notin BootTasks
    BY <2>2, LowestAssumption DEF BootPrio, Pri
  <2> QED BY <2>1, <2>2
<1>2. \A h \in Pri : BootQueue[h] \in Seq(TaskID)
  BY BootAssumption
<1>3. First \in CB /\ BootBitmap \in SUBSET Pri
  BY FirstType DEF CB
<1>4. <<>> \in Seq(TaskID)
  BY EmptySeq
<1>5. KernelInit \in Kernel
  <2>1. [t \in CB |-> IF t = First THEN {"READY", "RUNNING"}
                     ELSE IF t \in BootTasks THEN {"READY"} ELSE {"UNUSED"}] \in [CB -> SUBSET Flag]
    BY DEF Flag
  <2>2. [t \in TaskID |-> BootPrio(t)] \in [TaskID -> Pri]
    BY <1>1
  <2>3. [h \in ListHead |-> IF h \in Pri THEN BootQueue[h] ELSE <<>>] \in [ListHead -> Seq(TaskID)]
    BY <1>2, <1>4
  <2>4. NoRound \in [task : TaskID \cup {NoTask}, status : SUBSET Flag]
    BY DEF NoRound
  <2> QED BY <1>3, <2>1, <2>2, <2>3, <2>4 DEF KernelInit, Kernel
<1> QED BY <1>5 DEF Init, Typed, Points, PC

\* What the ways a kernel call ends do to the types.
LEMMA EndType ==
  ASSUME NEW P, Points(P), Typed(P), NEW ctx \in {"task", "isr"}, NEW op, Calls(ctx, op), NEW k1 \in Kernel
  PROVE  /\ ThenSchedule(ctx, k1) => Typed(P)'
         /\ ThenReturn(k1) => Typed(P)'
<1>1. LOS_Schedule(k1) \in Kernel
  BY ScheduleType
<1>2. ctx = "task" => k.run \in TaskID
  BY DEF Calls, At
<1> QED BY <1>1, <1>2 DEF Typed, Points, ThenSchedule, ThenReturn, Goto, PC

\* LOS_TaskDelete gives a kernel state.
LEMMA DeleteType ==
  ASSUME NEW kn \in Kernel, NEW t \in TaskID
  PROVE  TaskDelete(kn, t) \in Kernel
<1> DEFINE st == kn.status[t]
           k1 == IF "RUNNING" \in st THEN [kn EXCEPT !.lock = 0] ELSE kn
           k2 == IF "READY" \in st THEN MakeUnready(k1, t)
                 ELSE IF st \cap Waiting # {} THEN ListDelete(k1, t)
                 ELSE k1
           k3 == IF st \cap {"DELAY", "TIMEOUT"} # {} THEN osTimerListDelete(k2, t) ELSE k2
           k4 == [k3 EXCEPT !.status[t] = {"UNUSED"}, !.new = osPriqueueTop(k3)]
<1>0. st \in SUBSET Flag
  BY DEF Kernel, CB
<1>1. k1 \in Kernel
  BY DEF Kernel
<1>2. k2 \in Kernel
  <2> HIDE DEF k1
  <2> QED BY <1>1, MakeUnreadyType, ListDeleteType
<1>3. k3 \in Kernel
  <2> HIDE DEF k2
  <2> QED BY <1>2, TimerType
<1>4. k4 \in Kernel
  <2> HIDE DEF k3
  <2> QED BY <1>3, TopType DEF Kernel, Flag
<1>5. [k4 EXCEPT !.run = Dummy,
                 !.status[Dummy] = (st \ {"READY", "SUSPEND"}) \cup {"UNUSED"}] \in Kernel
  <2> HIDE DEF k4, st
  <2> QED BY <1>0, <1>4 DEF Kernel, CB, Flag
<1> QED BY <1>4, <1>5 DEF TaskDelete

\* The time slice check leaves the timeout list alone.
LEMMA TimesliceFrame ==
  ASSUME NEW kn \in Kernel
  PROVE  osTimesliceCheck(kn).timer = kn.timer /\ osTimesliceCheck(kn).left = kn.left
BY DEF osTimesliceCheck, LOS_Schedule, Requeue, osPriqueueEnqueue, ListTailInsert,
       ListDelete, Kernel

\* The tick takes one from every timeout: none is zero when it starts.
LEMMA NextType ==
  ASSUME NEW P, Points(P), Typed(P), [Next]_vars, ~k.scan => \A t \in k.timer : k.left[t] # 0
  PROVE  Typed(P)'
<1> USE DEF Typed
<1>0. {"user", "schedule"} \subseteq P.all
  BY DEF Points, PC
<1>1. ASSUME NEW ctx \in {"task", "isr"}, NEW t \in Task, NEW p \in Pri,
             LOS_TaskCreateOnly(ctx, t, p)
      PROVE  Typed(P)'
  <2>1. [k EXCEPT !.status[t] = {"SUSPEND"}, !.prio[t] = p] \in Kernel
    BY DEF Kernel, Flag
  <2> QED BY <1>1, <2>1, EndType DEF LOS_TaskCreateOnly
<1>2. ASSUME NEW ctx \in {"task", "isr"}, NEW t \in Task, NEW p \in Pri,
             LOS_TaskCreate(ctx, t, p)
      PROVE  Typed(P)'
  <2> DEFINE k1 == [k EXCEPT !.status[t] = {"SUSPEND"}, !.prio[t] = p]
             k2 == MakeReady(ClearFlags(k1, t, {"SUSPEND"}), t)
             k3 == [k2 EXCEPT !.new = osPriqueueTop(k2)]
             k4 == [k3 EXCEPT !.pendSV = @ \/ (k3.lock = 0 /\ k3.run # k3.new)]
  <2>1. k1 \in Kernel
    BY DEF Kernel, Flag
  <2>2. k2 \in Kernel
    <3> HIDE DEF k1
    <3> QED BY <2>1, FlagsType, MakeReadyType DEF Flag, CB, TaskID
  <2>3. k3 \in Kernel
    <3> HIDE DEF k2
    <3> QED BY <2>2, TopType DEF Kernel
  <2>4. k4 \in Kernel
    <3> HIDE DEF k3
    <3> QED BY <2>3 DEF Kernel
  <2> QED BY <1>2, <2>4, EndType DEF LOS_TaskCreate
<1>3. ASSUME NEW ctx \in {"task", "isr"}, NEW t \in Task, LOS_TaskResume(ctx, t)
      PROVE  Typed(P)'
  <2> DEFINE k1 == ClearFlags(k, t, {"SUSPEND"})
  <2>1. k1 \in Kernel /\ t \in TaskID
    BY FlagsType DEF Flag, CB, TaskID
  <2> HIDE DEF k1
  <2>2. MakeReady(k1, t) \in Kernel
    BY <2>1, MakeReadyType
  <2> QED BY <1>3, <2>1, <2>2, EndType DEF LOS_TaskResume, k1
<1>4. ASSUME NEW ctx \in {"task", "isr"}, NEW t \in Task, LOS_TaskSuspend(ctx, t)
      PROVE  Typed(P)'
  <2> DEFINE k1 == IF "READY" \in k.status[t] THEN MakeUnready(k, t) ELSE k
             k2 == SetFlags(k1, t, {"SUSPEND"})
  <2>1. k1 \in Kernel
    BY MakeUnreadyType DEF TaskID
  <2>2. k2 \in Kernel
    <3> HIDE DEF k1
    <3> QED BY <2>1, FlagsType DEF Flag, CB, TaskID
  <2> QED BY <1>4, <2>2, EndType DEF LOS_TaskSuspend
<1>5. ASSUME NEW ctx \in {"task", "isr"}, NEW t \in Task, LOS_TaskDelete(ctx, t)
      PROVE  Typed(P)'
  <2> DEFINE k1 == TaskDelete(k, t)
  <2>1. k1 \in Kernel
    BY DeleteType DEF TaskID
  <2> HIDE DEF k1
  <2>2. [k1 EXCEPT !.pendSV = @ \/ (ctx = "isr" /\ t = k.run)] \in Kernel
    BY <2>1 DEF Kernel
  <2>3. [k EXCEPT !.fault = TRUE] \in Kernel
    BY DEF Kernel
  <2>4. [pc EXCEPT ![t] = "user"] \in [TaskID -> P.all]
    BY <1>0
  <2> QED BY <1>5, <2>2, <2>3, <2>4 DEF LOS_TaskDelete, Halt, k1
<1>6. ASSUME NEW t \in Task, NEW p \in Pri, LOS_TaskPriSet(t, p)
      PROVE  Typed(P)'
  BY <1>6, PriModifyType, EndType DEF LOS_TaskPriSet, TaskID
<1>7. ASSUME NEW n \in Delays, LOS_TaskDelay(n)
      PROVE  Typed(P)'
  <2> DEFINE k1 == MakeUnready(k, k.run)
             k2 == osTaskAdd2TimerList(k1, k.run, n)
  <2>0. k.run \in TaskID /\ n \in Nat
    BY <1>7, BoundsAssumption DEF LOS_TaskDelay, Calls, At
  <2>1. k1 \in Kernel
    BY <2>0, MakeUnreadyType
  <2>2. k2 \in Kernel
    <3> HIDE DEF k1
    <3> QED BY <2>0, <2>1, TimerType
  <2>3. SetFlags(k2, k.run, {"DELAY"}) \in Kernel
    <3> HIDE DEF k2
    <3> QED BY <2>0, <2>2, FlagsType DEF Flag, CB
  <2>4. [k EXCEPT !.fault = TRUE] \in Kernel
    BY DEF Kernel
  <2> QED BY <1>7, <2>3, <2>4, EndType DEF LOS_TaskDelay, Halt
<1>8. CASE osTaskEntry \/ osTaskEntryDelete
  <2>1. k.run \in TaskID /\ [k EXCEPT !.lock = 0] \in Kernel
    BY <1>8 DEF osTaskEntry, osTaskEntryDelete, Calls, At, Kernel
  <2>2. CASE osTaskEntry
    BY <2>1, <2>2 DEF osTaskEntry, Goto, Points, PC
  <2>3. TaskDelete(k, k.run) \in Kernel
    BY <2>1, DeleteType
  <2>4. CASE osTaskEntryDelete
    BY <2>1, <2>3, <2>4 DEF osTaskEntryDelete, Goto, Points, PC
  <2> QED BY <1>8, <2>2, <2>4
<1>9. CASE LOS_TaskYield
  <2>1. k.run \in TaskID
    BY <1>9 DEF LOS_TaskYield, Calls, At
  <2> QED BY <1>9, <2>1, RequeueType, EndType DEF LOS_TaskYield
<1>10. CASE LOS_TaskLock
  <2>0. k.lock + 1 \in Nat
    BY DEF Kernel
  <2>1. [k EXCEPT !.lock = @ + 1] \in Kernel
    BY <2>0 DEF Kernel
  <2> QED BY <1>10, <2>1, EndType DEF LOS_TaskLock
<1>11. CASE LOS_TaskUnlock
  <2>0. k.lock - 1 \in Nat
    BY <1>11 DEF LOS_TaskUnlock, Kernel
  <2>1. [k EXCEPT !.lock = @ - 1] \in Kernel
    BY <2>0 DEF Kernel
  <2> QED BY <1>11, <2>1, EndType DEF LOS_TaskUnlock
<1>12. CASE Schedule
  BY <1>0, <1>12, ScheduleType DEF Schedule, At, Goto
<1>13. CASE DeadTaskSchedule
  BY <1>13 DEF DeadTaskSchedule, Kernel
<1>14. CASE PendSV
  BY <1>14, PendSVType DEF PendSV
<1>15. CASE Tick
  <2> DEFINE k1 == osTimesliceCheck(k)
             left == [t \in TaskID |-> IF t \in k1.timer THEN k1.left[t] - 1 ELSE k1.left[t]]
  <2>1. k1 \in Kernel
    BY TimesliceType
  <2>2. k1.timer = k.timer /\ k1.left = k.left
    BY TimesliceFrame
  <2> HIDE DEF k1
  <2>3. \A t \in TaskID : t \in k1.timer => k1.left[t] - 1 \in Nat
    <3> TAKE t \in TaskID
    <3>1. k.left[t] \in Nat
      BY DEF Kernel
    <3> QED BY <1>15, <2>2, <3>1 DEF Tick
  <2>4. left \in [TaskID -> Nat]
    BY <2>1, <2>3 DEF Kernel
  <2> HIDE DEF left
  <2>5. [k1 EXCEPT !.left = left, !.scan = TRUE] \in Kernel
    BY <2>1, <2>4 DEF Kernel
  <2>6. k' = [k1 EXCEPT !.left = left, !.scan = TRUE] /\ pc' = pc
    BY <1>15 DEF Tick, k1, left
  <2> QED BY <2>5, <2>6
<1>16. ASSUME NEW t \in Task, osTaskScan(t)
       PROVE  Typed(P)'
  <2> DEFINE next == ScanTask(k, t, k.round.status)
  <2>1. /\ t \in TaskID /\ t \in CB /\ NoRound.task \in TaskID \cup {NoTask} /\ NoRound.status \in SUBSET Flag
        /\ k.status[t] \in SUBSET Flag /\ k.round.status \in SUBSET Flag
    BY DEF Kernel, TaskID, CB, NoRound
  <2>2. ScanTask(k, t, k.status[t]) \in Kernel /\ next \in Kernel
    BY <2>1, ScanTaskType
  <2> HIDE DEF next
  <2>3. [next EXCEPT !.round = NoRound] \in Kernel
    BY <2>1, <2>2 DEF Kernel, NoRound
  <2>4. /\ [k EXCEPT !.round = [task |-> t, status |-> k.status[t]]] \in Kernel
        /\ [k EXCEPT !.fault = TRUE] \in Kernel
    BY <2>1 DEF Kernel
  <2>5. k' \in Kernel
    BY <1>16, <2>2, <2>3, <2>4 DEF osTaskScan, next
  <2> QED BY <1>16, <2>5 DEF osTaskScan
<1>17. CASE osTaskScanEnd
  <2> DEFINE k1 == IF k.need THEN LOS_Schedule(k) ELSE k
  <2>1. k1 \in Kernel
    BY ScheduleType
  <2> HIDE DEF k1
  <2>2. [k1 EXCEPT !.scan = FALSE, !.need = FALSE] \in Kernel
    BY <2>1 DEF Kernel
  <2> QED BY <1>17, <2>2 DEF osTaskScanEnd, k1
<1>18. CASE UNCHANGED vars
  BY <1>18 DEF vars
<1> QED
  BY <1>1, <1>2, <1>3, <1>4, <1>5, <1>6, <1>7, <1>8, <1>9, <1>10, <1>11, <1>12,
     <1>13, <1>14, <1>15, <1>16, <1>17, <1>18 DEF Next, TaskNext, KernelNext

-----------------------------------------------------------------------------
(***************************************************************************)
(* The inductive invariant.  A task is described by its own flags, its     *)
(* membership in the timeout list and its place in the ready queue or on a *)
(* wait list; what ties the tasks together is ListsOK and the processor.   *)
(***************************************************************************)

TaskOK(kn, t) ==
  /\ \/ kn.status[t] = {"UNUSED"}
     \/ /\ "UNUSED" \notin kn.status[t]
        /\ "READY" \in kn.status[t] <=> kn.status[t] \cap TaskBlock = {}
  /\ \A f, g \in kn.status[t] \cap (Waiting \cup {"DELAY"}) : f = g
  /\ t \in kn.timer <=> \/ "DELAY" \in kn.status[t]
                        \/ "TIMEOUT" \in kn.status[t] /\ kn.status[t] \cap Waiting # {}
  /\ t \in kn.timer /\ kn.left[t] = 0 => kn.scan

Sound(kn) ==
  /\ ListsOK(kn) /\ RunOK(kn)
  /\ kn.need => kn.scan
  /\ "READY" \in kn.status[Idle]
  /\ \A t \in TaskID : TaskOK(kn, t)

\* How the processor is given away.  here stands for pc.
Dispatch(kn, here, P) ==
  /\ LockOK(kn)
  /\ kn.pendSV \/ kn.run = Dummy => kn.new \in TaskID /\ "READY" \in kn.status[kn.new]
  /\ kn.run \in TaskID /\ ~kn.pendSV /\ here[kn.run] \notin P.window =>
       "READY" \in kn.status[kn.run]
  /\ kn.lock > 0 => kn.run \in TaskID /\ "READY" \in kn.status[kn.run]
  /\ P.strict /\ ~kn.need =>
       /\ kn.pendSV \/ kn.run = Dummy => kn.new = osPriqueueTop(kn)
       /\ (kn.run \in TaskID /\ ~kn.pendSV /\ kn.lock = 0 /\ here[kn.run] \notin P.window) =>
            kn.run = osPriqueueTop(kn)

\* The flags of a call that waits, or has yet to find out why its wait ended.
Limbo == Waiting \cup {"TIMEOUT"}

\* A task has these only inside a call that can block.
Blocked(kn, here) ==
  \A t \in TaskID : kn.status[t] \cap Limbo # {} => here[t] \notin PC

\* Where no call blocks no list routine fails.
Sane(kn, P) == P.all = PC => ~kn.fault

IInv(P) == Typed(P) /\ Sound(k) /\ Dispatch(k, pc, P) /\ Blocked(k, pc) /\ Sane(k, P)

\* No task gets one of the flags of a call that blocks.
NoNewWait(kn, r) == \A t \in TaskID : r.status[t] \cap Limbo \subseteq kn.status[t]

\* The invariant of the data implies the consistency the runs check.
LEMMA SoundConsistent ==
  ASSUME NEW kn \in Kernel, Sound(kn), LockOK(kn)
  PROVE  KernelOK(kn)
<1>1. StatusOK(kn)
  <2> SUFFICES ASSUME NEW t \in TaskID
               PROVE  \/ kn.status[t] = {"UNUSED"}
                      \/ /\ "UNUSED" \notin kn.status[t]
                         /\ "READY" \in kn.status[t] <=> kn.status[t] \cap TaskBlock = {}
                         /\ \A f, g \in kn.status[t] \cap (Waiting \cup {"DELAY"}) : f = g
    BY DEF StatusOK
  <2>1. TaskOK(kn, t)
    BY DEF Sound
  <2> QED BY <2>1 DEF TaskOK
<1>2. TimerOK(kn)
  <2>1. \A t \in TaskID : TaskOK(kn, t)
    BY DEF Sound
  <2>2. kn.timer \subseteq TaskID
    BY DEF Kernel
  <2>3. kn.timer = {t \in TaskID :
                     \/ "DELAY" \in kn.status[t]
                     \/ "TIMEOUT" \in kn.status[t] /\ kn.status[t] \cap Waiting # {}}
    BY <2>1, <2>2 DEF TaskOK
  <2> QED BY <2>1, <2>2, <2>3 DEF TimerOK, Sound, TaskOK
<1> QED BY <1>1, <1>2 DEF KernelOK, Sound

\* A routine that touches one task, and neither the processor nor the scan.
LEMMA OneTask ==
  ASSUME NEW kn \in Kernel, Sound(kn), NEW r \in Kernel, NEW t \in TaskID,
         ListsOK(r), TaskOK(r, t), SameSwitch(kn, r),
         "RUNNING" \in r.status[t] <=> "RUNNING" \in kn.status[t],
         t = Idle => "READY" \in r.status[t],
         \A u \in CB \ {t} : r.status[u] = kn.status[u],
         \A u \in TaskID \ {t} : /\ u \in r.timer <=> u \in kn.timer
                                 /\ r.left[u] = kn.left[u]
  PROVE  Sound(r)
<1>1. \A u \in TaskID : TaskOK(r, u)
  <2> TAKE u \in TaskID
  <2>1. CASE u # t
    <3>1. TaskOK(kn, u) /\ u \in CB
      BY DEF Sound, CB
    <3> QED BY <2>1, <3>1 DEF TaskOK, SameSwitch
  <2> QED BY <2>1
<1>2. RunOK(r)
  <2> SUFFICES ASSUME NEW u \in CB PROVE "RUNNING" \in r.status[u] <=> u = r.run
    BY DEF RunOK
  <2>1. "RUNNING" \in kn.status[u] <=> u = kn.run
    BY DEF Sound, RunOK
  <2> QED BY <2>1 DEF SameSwitch
<1>3. "READY" \in r.status[Idle]
  <2>1. Idle \in CB
    BY DEF CB, TaskID
  <2> QED BY <2>1 DEF Sound
<1> QED BY <1>1, <1>2, <1>3 DEF Sound, SameSwitch

\* The same tasks in the same lists: the processor and the tick change.
LEMMA SoundFrame ==
  ASSUME NEW kn \in Kernel, Sound(kn), NEW r \in Kernel,
         SameTasks(kn, r), SameLists(kn, r), r.timer = kn.timer, r.run = kn.run,
         r.need => r.scan,
         \A t \in r.timer : r.left[t] = 0 => r.scan
  PROVE  Sound(r) /\ osPriqueueTop(r) = osPriqueueTop(kn)
<1>1. ListsOK(r)
  BY ListsFrame DEF Sound, SameTasks, SameLists
<1>2. RunOK(r)
  BY DEF RunOK, Sound, SameTasks
<1>3. \A t \in TaskID : TaskOK(r, t)
  BY DEF TaskOK, Sound, SameTasks
<1>4. Sound(r)
  BY <1>1, <1>2, <1>3 DEF Sound, SameTasks, SameLists
<1>5. IsTop(kn, osPriqueueTop(kn))
  BY TopFacts DEF Sound, TaskID
<1>6. IsTop(r, osPriqueueTop(kn))
  BY <1>5 DEF IsTop, SameTasks, SameLists
<1> QED BY <1>1, <1>4, <1>6, TopFacts

\* LOS_Schedule makes good what happened to the lists before it.
LEMMA ScheduleDispatch ==
  ASSUME NEW P, NEW kn \in Kernel, Sound(kn), LockOK(kn), NEW here,
         kn.lock > 0 => kn.run \in TaskID /\ "READY" \in kn.status[kn.run]
  PROVE  LET r == LOS_Schedule(kn)
         IN  /\ Sound(r) /\ Dispatch(r, here, P)
             /\ SameTasks(kn, r) /\ SameLists(kn, r) /\ SameTimer(kn, r)
             /\ r.run = kn.run /\ r.lock = kn.lock /\ r.scan = kn.scan /\ r.need = kn.need
             /\ IsTop(r, r.new) /\ r.new = osPriqueueTop(r)
<1> DEFINE r == LOS_Schedule(kn)
           top == osPriqueueTop(kn)
<1>1. IsTop(kn, top)
  BY TopFacts DEF Sound, TaskID
<1>2. r = [kn EXCEPT !.new = top, !.pendSV = @ \/ (kn.run # top /\ kn.lock = 0)]
  BY DEF LOS_Schedule
<1>3. /\ SameTasks(kn, r) /\ SameLists(kn, r) /\ SameTimer(kn, r)
      /\ r.new = top /\ r.run = kn.run /\ r.lock = kn.lock /\ r.scan = kn.scan /\ r.need = kn.need
      /\ r.pendSV = (kn.pendSV \/ (kn.run # top /\ kn.lock = 0))
  BY <1>2 DEF Kernel, SameTasks, SameLists, SameTimer
<1>4. r \in Kernel
  BY ScheduleType
<1> HIDE DEF r, top
<1>5. \A t \in kn.timer : kn.left[t] = 0 => kn.scan
  BY DEF Sound, TaskOK, Kernel
<1>6. Sound(r) /\ osPriqueueTop(r) = top
  BY <1>3, <1>4, <1>5, SoundFrame DEF Sound, SameTimer, top
<1>7. IsTop(r, top)
  BY <1>1, <1>3 DEF IsTop, SameTasks, SameLists
<1>8. kn.lock \in Nat /\ (kn.lock = 0 \/ kn.lock > 0) /\ ~(kn.lock = 0 /\ kn.lock > 0)
  BY DEF Kernel
<1>9. Dispatch(r, here, P)
  <2>1. LockOK(r)
    BY <1>3 DEF LockOK
  <2>2. r.new \in TaskID /\ "READY" \in r.status[r.new]
    BY <1>3, <1>7 DEF IsTop
  <2>3. ASSUME kn.lock = 0, ~r.pendSV
        PROVE  r.run = top
    BY <1>3, <2>3
  <2>4. ASSUME kn.lock > 0
        PROVE  r.run \in TaskID /\ "READY" \in r.status[r.run]
    BY <1>3, <2>4 DEF SameTasks
  <2> QED BY <1>3, <1>6, <1>8, <2>1, <2>2, <2>3, <2>4 DEF Dispatch
<1> QED BY <1>3, <1>6, <1>7, <1>9 DEF r

\* LOS_Schedule changes no flags.
LEMMA ScheduleFrame ==
  ASSUME NEW kn \in Kernel
  PROVE  LET r == LOS_Schedule(kn)
         IN  SameTasks(kn, r) /\ SameLists(kn, r) /\ SameTimer(kn, r) /\ r.run = kn.run
BY DEF LOS_Schedule, Kernel, SameTasks, SameLists, SameTimer

\* What an operation that leaves the processor alone may do before it ends:
\* with a call of LOS_Schedule if it may have changed who is first.
LEMMA EndSchedule ==
  ASSUME NEW P, Points(P), IInv(P), NEW ctx \in {"task", "isr"},
         ctx = "task" => k.run \in TaskID /\ ~k.pendSV,
         NEW k1 \in Kernel, Sound(k1), SameSwitch(k, k1), k1.fault = k.fault,
         NoNewWait(k, k1), ctx = "task" => k1.status[k.run] \cap Limbo = {},
         k.lock > 0 => "READY" \in k1.status[k.run],
         ThenSchedule(ctx, k1)
  PROVE  IInv(P)'
<1>2. LockOK(k1)
  BY DEF LockOK, IInv, Dispatch, SameSwitch
<1>3. CASE ctx = "isr"
  <2>1. k' = LOS_Schedule(k1) /\ pc' = pc
    BY <1>3 DEF ThenSchedule
  <2>2. k1.lock > 0 => k1.run \in TaskID /\ "READY" \in k1.status[k1.run]
    BY DEF IInv, Dispatch, SameSwitch
  <2>3. Sound(k') /\ Dispatch(k', pc', P)
    BY <1>2, <2>1, <2>2, ScheduleDispatch
  <2>4. k' \in Kernel /\ k'.status = k1.status /\ k'.fault = k.fault
    BY <2>1, ScheduleType, ScheduleFrame DEF SameTasks, SameLists
  <2>5. Blocked(k', pc')
    BY <2>1, <2>4 DEF IInv, Blocked, NoNewWait
  <2> QED BY <2>1, <2>3, <2>4, <2>5 DEF IInv, Typed, Sane
<1>4. CASE ctx = "task"
  <2>1. /\ k' = k1 /\ pc' = [pc EXCEPT ![k.run] = "schedule"]
        /\ k.run \in TaskID /\ ~k.pendSV
    BY <1>4 DEF ThenSchedule, Goto
  <2>2. pc'[k.run] = "schedule" /\ k.run # Dummy
    BY <2>1, TaskAssumption DEF IInv, Typed
  <2>3. Dispatch(k1, pc', P)
    BY <1>2, <2>1, <2>2 DEF Dispatch, SameSwitch, Points
  <2>4. pc' \in [TaskID -> P.all]
    BY <2>1 DEF IInv, Typed, Points, PC
  <2>5. Blocked(k1, pc')
    <3> SUFFICES ASSUME NEW t \in TaskID, k1.status[t] \cap Limbo # {} PROVE pc'[t] \notin PC
      BY DEF Blocked
    <3>1. t # k.run
      BY <1>4
    <3>2. pc'[t] = pc[t]
      BY <2>1, <3>1 DEF IInv, Typed
    <3> QED BY <3>2 DEF IInv, Blocked, NoNewWait
  <2> QED BY <2>1, <2>3, <2>4, <2>5 DEF IInv, Typed, Sane
<1> QED BY <1>3, <1>4

\* A kernel call of the task manager that ends that way.
LEMMA CallSchedule ==
  ASSUME NEW P, Points(P), IInv(P), NEW ctx \in {"task", "isr"}, NEW op, Calls(ctx, op),
         NEW k1 \in Kernel, Sound(k1), SameSwitch(k, k1), k1.fault = k.fault,
         NoNewWait(k, k1),
         k.lock > 0 => "READY" \in k1.status[k.run],
         ThenSchedule(ctx, k1)
  PROVE  IInv(P)'
<1>1. ctx = "task" => k.run \in TaskID /\ ~k.pendSV /\ pc[k.run] = "user"
  BY DEF Calls, At, Runs
<1>2. ctx = "task" => k1.status[k.run] \cap Limbo = {}
  BY <1>1 DEF IInv, Blocked, NoNewWait, PC
<1> QED BY <1>1, <1>2, EndSchedule

\* Or without one, if whoever was first is first still.
LEMMA EndReturn ==
  ASSUME NEW P, Points(P), IInv(P), NEW k1 \in Kernel, Sound(k1), SameSwitch(k, k1),
         k1.fault = k.fault, NoNewWait(k, k1),
         P.strict /\ k.lock = 0 => \A t : IsTop(k, t) => IsTop(k1, t),
         \A t : "READY" \in k.status[t] /\ (t = k.run \/ (t = k.new /\ (k.pendSV \/ k.run = Dummy)))
                  => "READY" \in k1.status[t],
         ThenReturn(k1)
  PROVE  IInv(P)'
<1>1. k' = k1 /\ pc' = pc
  BY DEF ThenReturn
<1>2. P.strict /\ k.lock = 0 => osPriqueueTop(k1) = osPriqueueTop(k)
  <2>1. IsTop(k, osPriqueueTop(k))
    BY TopFacts DEF IInv, Typed, Sound, TaskID
  <2> QED BY <2>1, TopFacts DEF Sound
<1>3. Dispatch(k1, pc, P)
  BY <1>2 DEF Dispatch, LockOK, IInv, SameSwitch
<1>4. Blocked(k1, pc)
  BY DEF IInv, Blocked, NoNewWait
<1> QED BY <1>1, <1>3, <1>4 DEF IInv, Typed, Sane

\* A task that is not ready, and does not become ready, does not count.
LEMMA QuietTask ==
  ASSUME NEW kn \in Kernel, NEW r \in Kernel, NEW t \in TaskID,
         "READY" \notin kn.status[t], "READY" \notin r.status[t], r.list = kn.list,
         \A u \in CB \ {t} : r.status[u] = kn.status[u],
         \A u \in TaskID \ {t} : r.prio[u] = kn.prio[u]
  PROVE  \A x : IsTop(kn, x) => IsTop(r, x)
<1> SUFFICES ASSUME NEW x, IsTop(kn, x) PROVE IsTop(r, x)
  OBVIOUS
<1>1. x \in TaskID \ {t} /\ x \in CB
  BY DEF IsTop, CB
<1>2. \A u \in TaskID : "READY" \in r.status[u] => u \in TaskID \ {t} /\ u \in CB
  BY DEF CB
<1> QED BY <1>1, <1>2 DEF IsTop

-----------------------------------------------------------------------------
(* Every action keeps the invariant *)

\* LOS_TaskCreateOnly keeps the invariant.
LEMMA CreateOnlyInv ==
  ASSUME NEW P, Points(P), IInv(P), NEW ctx \in {"task", "isr"}, NEW t \in Task, NEW p \in Pri,
         LOS_TaskCreateOnly(ctx, t, p)
  PROVE  IInv(P)'
<1> DEFINE k1 == [k EXCEPT !.status[t] = {"SUSPEND"}, !.prio[t] = p]
<1>1. k1 \in Kernel /\ t \in TaskID /\ t \in CB /\ t # Idle
  BY TaskAssumption DEF IInv, Typed, Kernel, Flag, TaskID, CB
<1>2. k.status[t] = {"UNUSED"} /\ TaskOK(k, t)
  BY <1>1 DEF LOS_TaskCreateOnly, Created, IInv, Sound, TaskOK
<1>3. /\ k1.status = [k.status EXCEPT ![t] = {"SUSPEND"}] /\ k1.prio = [k.prio EXCEPT ![t] = p]
      /\ SameTimer(k, k1) /\ SameSwitch(k, k1) /\ SameLists(k, k1)
  BY DEF IInv, Typed, Kernel, SameTimer, SameSwitch, SameLists
<1>4. ThenReturn(k1)
  BY DEF LOS_TaskCreateOnly
<1> HIDE DEF k1
<1>5. /\ k1.status[t] = {"SUSPEND"} /\ \A u \in CB \ {t} : k1.status[u] = k.status[u]
      /\ \A u \in TaskID \ {t} : k1.prio[u] = k.prio[u]
  BY <1>1, <1>3 DEF IInv, Typed, Kernel
<1>6. ListsOK(k1)
  <2>1. k.status[t] \cap Waiting = {} /\ k1.status[t] \cap Waiting = {}
    BY <1>2, <1>5 DEF Waiting
  <2>2. \A u \in TaskID : u # t => k1.status[u] = k.status[u] /\ k1.prio[u] = k.prio[u]
    BY <1>5 DEF CB
  <2>3. k \in Kernel /\ ListsOK(k) /\ k1.list = k.list /\ k1.bitmap = k.bitmap
    BY <1>3 DEF IInv, Typed, Sound, SameLists
  <2>4. "READY" \notin k.status[t] /\ "READY" \notin k1.status[t]
    BY <1>2, <1>5
  <2> HIDE DEF ListsOK
  <2> QED BY <1>1, <2>1, <2>2, <2>3, <2>4, ListsFrame
<1>7. TaskOK(k1, t)
  BY <1>2, <1>3, <1>5 DEF TaskOK, TaskBlock, Waiting, SameTimer, SameSwitch
<1>8. Sound(k1)
  BY <1>1, <1>2, <1>3, <1>5, <1>6, <1>7, OneTask DEF IInv, Typed, Sound, SameTimer, SameLists
<1>9. \A x : IsTop(k, x) => IsTop(k1, x)
  BY <1>1, <1>2, <1>3, <1>5, QuietTask DEF IInv, Typed, SameLists
<1>10. \A u : "READY" \in k.status[u] /\ u \in CB => "READY" \in k1.status[u]
  BY <1>2, <1>5
<1>11. k.run \in CB /\ k.new \in CB
  BY DEF IInv, Typed, Kernel
<1>12. NoNewWait(k, k1) /\ k1.fault = k.fault
  BY <1>3, <1>5 DEF NoNewWait, Limbo, Waiting, CB, SameLists
<1> QED BY <1>1, <1>3, <1>4, <1>8, <1>9, <1>10, <1>11, <1>12, EndReturn

\* LOS_TaskResume keeps the invariant.
LEMMA ResumeInv ==
  ASSUME NEW P, Points(P), IInv(P), NEW ctx \in {"task", "isr"}, NEW t \in Task, LOS_TaskResume(ctx, t)
  PROVE  IInv(P)'
<1> DEFINE k1 == ClearFlags(k, t, {"SUSPEND"})
<1>1. /\ k \in Kernel /\ ListsOK(k) /\ t \in TaskID /\ t \in CB /\ t # Idle
      /\ k1 \in Kernel
  BY TaskAssumption, FlagsType DEF IInv, Typed, Sound, Flag, TaskID, CB
<1>2. "SUSPEND" \in k.status[t] /\ "UNUSED" \notin k.status[t] /\ TaskOK(k, t)
  BY <1>1 DEF LOS_TaskResume, Created, IInv, Sound
<1>3. /\ k1.status = [k.status EXCEPT ![t] = @ \ {"SUSPEND"}] /\ k1.prio = k.prio
      /\ SameTimer(k, k1) /\ SameSwitch(k, k1) /\ SameLists(k, k1)
  <2>1. {"SUSPEND"} \in SUBSET Flag
    BY DEF Flag
  <2> QED BY <1>1, <2>1, FlagsEffect DEF ClearFlags, Kernel
<1>4. "READY" \notin k.status[t]
  BY <1>2 DEF TaskOK, TaskBlock
<1>5. k1.status[t] = k.status[t] \ {"SUSPEND"} /\ \A u \in CB \ {t} : k1.status[u] = k.status[u]
  BY <1>1, <1>3 DEF Kernel
<1> HIDE DEF k1
<1>6. "READY" \notin k1.status[t] /\ k1.status[t] \cap Waiting = k.status[t] \cap Waiting
  BY <1>4, <1>5 DEF Waiting
<1>7. ListsOK(k1)
  <2>1. \A u \in TaskID : u # t => k1.status[u] = k.status[u]
    BY <1>5 DEF CB
  <2>2. k1.list = k.list /\ k1.bitmap = k.bitmap
    BY <1>3 DEF SameLists
  <2> QED BY <1>1, <1>3, <1>4, <1>6, <2>1, <2>2, ListsFrame
<1>8. CASE k1.status[t] \cap TaskBlock = {}
  <2> DEFINE r == MakeReady(k1, t)
  <2>1. ThenSchedule(ctx, r)
    BY <1>8 DEF LOS_TaskResume, k1
  <2>2. /\ SameTimer(k1, r) /\ SameSwitch(k1, r) /\ r.fault = k1.fault
        /\ r.status = [k1.status EXCEPT ![t] = @ \cup {"READY"}]
        /\ r \in Kernel /\ ListsOK(r)
    <3>1. k1.status[t] \cap Waiting = {}
      BY <1>8 DEF TaskBlock, Waiting
    <3> QED BY <1>1, <1>6, <1>7, <3>1, MakeReadyEffect, MakeReadyType, MakeReadyLists
  <2> HIDE DEF r
  <2>3. /\ r.status[t] = k1.status[t] \cup {"READY"}
        /\ \A u \in CB \ {t} : r.status[u] = k.status[u]
    BY <1>1, <1>5, <2>2 DEF Kernel
  <2>4. SameTimer(k, r) /\ SameSwitch(k, r) /\ r.fault = k.fault
    BY <1>3, <2>2 DEF SameTimer, SameSwitch, SameLists, IInv, Sound
  <2>5. TaskOK(r, t)
    BY <1>2, <1>5, <1>8, <2>3, <2>4 DEF TaskOK, TaskBlock, Waiting, SameTimer, SameSwitch
  <2>6. Sound(r)
    BY <1>1, <1>5, <2>2, <2>3, <2>4, <2>5, OneTask DEF IInv, SameTimer
  <2>7. k.lock > 0 => "READY" \in r.status[k.run]
    <3>1. \A u \in CB : "READY" \in k.status[u] => "READY" \in r.status[u]
      BY <1>4, <2>3
    <3> QED BY <3>1 DEF IInv, Dispatch, CB
  <2>8. Calls(ctx, "Resume")
    BY DEF LOS_TaskResume
  <2>9. NoNewWait(k, r)
    BY <1>5, <2>3 DEF NoNewWait, Limbo, Waiting, CB
  <2> QED BY <2>1, <2>2, <2>4, <2>6, <2>7, <2>8, <2>9, CallSchedule
<1>9. CASE k1.status[t] \cap TaskBlock # {}
  <2>1. ThenReturn(k1)
    BY <1>9 DEF LOS_TaskResume, k1
  <2>2. TaskOK(k1, t)
    BY <1>2, <1>3, <1>5, <1>6, <1>9 DEF TaskOK, TaskBlock, Waiting, SameTimer, SameSwitch
  <2>3. Sound(k1)
    BY <1>1, <1>3, <1>5, <1>7, <2>2, OneTask DEF IInv, Sound, SameTimer, SameLists
  <2>4. \A x : IsTop(k, x) => IsTop(k1, x)
    BY <1>1, <1>3, <1>4, <1>5, <1>6, QuietTask DEF SameLists
  <2>5. \A u \in CB : "READY" \in k.status[u] => "READY" \in k1.status[u]
    BY <1>4, <1>5
  <2>6. k.run \in CB /\ k.new \in CB
    BY <1>1 DEF Kernel
  <2>7. NoNewWait(k, k1) /\ k1.fault = k.fault
    BY <1>3, <1>5 DEF NoNewWait, Limbo, Waiting, CB, SameLists
  <2> QED BY <1>1, <1>3, <2>1, <2>3, <2>4, <2>5, <2>6, <2>7, EndReturn
<1> QED BY <1>8, <1>9

\* Taking a task out of the ready queue for a reason that will end.
LEMMA BlockSound ==
  ASSUME NEW kn \in Kernel, Sound(kn), NEW t \in Task, "READY" \in kn.status[t],
         NEW r \in Kernel, NEW f \in {"SUSPEND", "DELAY"}, NEW k1, k1 = MakeUnready(kn, t),
         r.status = [k1.status EXCEPT ![t] = @ \cup {f}],
         SameSwitch(k1, r), SameLists(k1, r), r.prio = k1.prio,
         \A u \in TaskID \ {t} : /\ u \in r.timer <=> u \in kn.timer
                                 /\ r.left[u] = kn.left[u],
         t \in r.timer <=> f = "DELAY",
         t \in r.timer => r.left[t] # 0
  PROVE  /\ Sound(r) /\ SameSwitch(kn, r) /\ r.fault = kn.fault /\ NoNewWait(kn, r)
         /\ \A u \in CB \ {t} : r.status[u] = kn.status[u]
         /\ r.status[t] = (kn.status[t] \ {"READY"}) \cup {f}
         /\ \A x : x # t /\ IsTop(kn, x) => IsTop(r, x)
<1>1. t \in TaskID /\ t \in CB /\ t # Idle /\ TaskOK(kn, t) /\ ListsOK(kn)
  BY TaskAssumption DEF Sound, TaskID, CB
<1>2. k1 \in Kernel /\ ListsOK(k1) /\ IsLinked(kn, t)
  BY <1>1, MakeUnreadyType, MakeUnreadyLists
<1>3. /\ SameTimer(kn, k1) /\ SameSwitch(kn, k1) /\ k1.prio = kn.prio
      /\ k1.status = [kn.status EXCEPT ![t] = @ \ {"READY"}]
      /\ k1.fault = kn.fault
  BY ZenonT(60), <1>1, <1>2, MakeUnreadyEffect
<1>4. /\ r.status[t] = (kn.status[t] \ {"READY"}) \cup {f}
      /\ k1.status[t] = kn.status[t] \ {"READY"}
      /\ \A u \in CB \ {t} : r.status[u] = kn.status[u] /\ k1.status[u] = kn.status[u]
  <2>1. DOMAIN kn.status = CB
    BY DEF Kernel
  <2> QED BY <1>1, <1>3, <2>1
<1>5. kn.status[t] \cap (Waiting \cup TaskBlock) = {} /\ "UNUSED" \notin kn.status[t]
  BY <1>1 DEF TaskOK, TaskBlock, Waiting
<1>6. "READY" \notin k1.status[t] /\ "READY" \notin r.status[t]
  BY <1>4
<1>7. ListsOK(r)
  <2>1. k1.status[t] \cap Waiting = {} /\ r.status[t] \cap Waiting = {}
    BY <1>4, <1>5 DEF Waiting
  <2>2. \A u \in TaskID : u # t => k1.status[u] = r.status[u]
    BY <1>4 DEF CB
  <2>3. k1.list = r.list /\ k1.bitmap = r.bitmap /\ k1.prio = r.prio
    BY DEF SameLists
  <2> QED BY ZenonT(60), <1>2, <1>6, <2>1, <2>2, <2>3, ListsFrame
<1>8. SameSwitch(kn, r) /\ r.fault = kn.fault
  BY <1>1, <1>3 DEF SameSwitch, SameLists
<1>9. TaskOK(r, t)
  <2>1. "UNUSED" \notin r.status[t] /\ f \in r.status[t] /\ f \in TaskBlock
    BY <1>4, <1>5 DEF TaskBlock
  <2>2. r.status[t] \cap Waiting = {}
    BY <1>4, <1>5 DEF Waiting
  <2>3. "DELAY" \in r.status[t] <=> f = "DELAY"
    BY <1>4, <1>5 DEF TaskBlock
  <2> QED BY <1>6, <2>1, <2>2, <2>3 DEF TaskOK
<1>10. Sound(r)
  <2>1. "RUNNING" \in r.status[t] <=> "RUNNING" \in kn.status[t]
    BY <1>4
  <2> QED BY <1>1, <1>4, <1>7, <1>8, <1>9, <2>1, OneTask
<1>11. ASSUME NEW x, x # t, IsTop(kn, x)
       PROVE  IsTop(r, x)
  <2>1. IsTop(k1, x)
    BY <1>1, <1>11, TopKept
  <2>2. \A u \in CB \ {t} : r.status[u] = k1.status[u]
    BY <1>4
  <2>3. r.list = k1.list /\ \A u \in TaskID \ {t} : r.prio[u] = k1.prio[u]
    BY DEF SameLists
  <2>4. x \in TaskID \ {t} /\ x \in CB
    BY <1>11, <2>1 DEF IsTop, CB
  <2>5. \A u \in TaskID : "READY" \in r.status[u] => u \in TaskID \ {t} /\ u \in CB
    BY <1>6 DEF CB
  <2> QED BY <2>1, <2>2, <2>3, <2>4, <2>5 DEF IsTop
<1>12. NoNewWait(kn, r)
  BY <1>4 DEF NoNewWait, Limbo, Waiting, CB
<1> QED BY <1>4, <1>8, <1>10, <1>11, <1>12

\* LOS_TaskSuspend keeps the invariant, but for the task a pending switch leads to.
LEMMA SuspendInv ==
  ASSUME ~IsrRaces, NEW P, Points(P), IInv(P), NEW ctx \in {"task", "isr"}, NEW t \in Task,
         LOS_TaskSuspend(ctx, t)
  PROVE  IInv(P)'
<1> DEFINE k1 == IF "READY" \in k.status[t] THEN MakeUnready(k, t) ELSE k
           k2 == SetFlags(k1, t, {"SUSPEND"})
<1>1. /\ k \in Kernel /\ Sound(k) /\ t \in TaskID /\ t \in CB /\ t # Idle
      /\ {"SUSPEND"} \in SUBSET Flag
  BY TaskAssumption DEF IInv, Typed, Flag, TaskID, CB
<1>2. /\ Calls(ctx, "Suspend") /\ "SUSPEND" \notin k.status[t] /\ "UNUSED" \notin k.status[t]
      /\ ~("RUNNING" \in k.status[t] /\ k.lock # 0)
      /\ IF t = k.run THEN ThenSchedule(ctx, k2) ELSE ThenReturn(k2)
      /\ t # k.run => ~(t = k.new /\ (k.pendSV \/ k.run = Dummy))
  BY DEF LOS_TaskSuspend, Created, SwitchLeadsTo
<1>3. k.lock > 0 => k.run \in TaskID /\ "READY" \in k.status[k.run]
  BY DEF IInv, Dispatch
<1>4. CASE "READY" \in k.status[t]
  <2>1. k1 = MakeUnready(k, t) /\ k1 \in Kernel
    BY <1>1, <1>4, MakeUnreadyType
  <2>2. SameTimer(k, k1)
    BY ZenonT(60), <1>1, <2>1, MakeUnreadyEffect
  <2> HIDE DEF k1
  <2>3. /\ k2 \in Kernel /\ SameSwitch(k1, k2) /\ SameLists(k1, k2) /\ SameTimer(k1, k2)
        /\ k2.prio = k1.prio
    BY <1>1, <2>1, FlagsType, FlagsEffect
  <2>4. k2.status = [k1.status EXCEPT ![t] = @ \cup {"SUSPEND"}]
    BY <2>1 DEF SetFlags, Kernel
  <2> HIDE DEF k2
  <2>5. t \notin k.timer
    BY <1>1, <1>4 DEF Sound, TaskOK, TaskBlock, Waiting
  <2>6. /\ Sound(k2) /\ SameSwitch(k, k2) /\ k2.fault = k.fault /\ NoNewWait(k, k2)
        /\ \A u \in CB \ {t} : k2.status[u] = k.status[u]
        /\ \A x : x # t /\ IsTop(k, x) => IsTop(k2, x)
    <3>1. /\ \A u \in TaskID \ {t} : /\ u \in k2.timer <=> u \in k.timer
                                     /\ k2.left[u] = k.left[u]
          /\ t \in k2.timer <=> "SUSPEND" = "DELAY"
          /\ t \in k2.timer => k2.left[t] # 0
      BY <2>2, <2>3, <2>5 DEF SameTimer
    <3>2. "SUSPEND" \in {"SUSPEND", "DELAY"} /\ k1 = MakeUnready(k, t)
      BY <2>1
    <3>3. t \in Task /\ k \in Kernel /\ Sound(k) /\ "READY" \in k.status[t] /\ k2 \in Kernel
      BY <1>1, <1>4, <2>3
    <3>4. Sound(k2) /\ SameSwitch(k, k2) /\ k2.fault = k.fault /\ NoNewWait(k, k2)
      BY <2>3, <2>4, <3>1, <3>2, <3>3, BlockSound
    <3>5. \A u \in CB \ {t} : k2.status[u] = k.status[u]
      <4>1. k1.status = [k.status EXCEPT ![t] = @ \ {"READY"}]
        BY <1>1, <3>2, MakeUnreadyEffect
      <4> QED BY <1>1, <2>1, <2>4, <4>1 DEF Kernel
    <3>6. \A x : x # t /\ IsTop(k, x) => IsTop(k2, x)
      BY <2>3, <2>4, <3>1, <3>2, <3>3, BlockSound
    <3> QED BY <3>4, <3>5, <3>6
  <2>7. CASE t = k.run
    <3>1. "RUNNING" \in k.status[t] /\ k.lock = 0
      BY <1>1, <1>2, <2>7 DEF Sound, RunOK
    <3> QED BY <1>2, <2>3, <2>6, <2>7, <3>1, CallSchedule
  <2>8. CASE t # k.run
    <3>1. /\ k2.run = k.run /\ k2.new = k.new /\ k2.lock = k.lock /\ k2.pendSV = k.pendSV
          /\ k2.need = k.need
      BY <2>6 DEF SameSwitch
    <3>2. \A x : x # t /\ x = osPriqueueTop(k) => x = osPriqueueTop(k2)
      <4>1. \A kn \in Kernel : Sound(kn) => IsTop(kn, osPriqueueTop(kn)) /\ \A x : IsTop(kn, x) => osPriqueueTop(kn) = x
        BY TopFacts DEF Sound, TaskID
      <4> QED BY <1>1, <2>3, <2>6, <4>1
    <3>3. \A x \in CB : x # t /\ "READY" \in k.status[x] => "READY" \in k2.status[x]
      BY <2>6
    <3>4. TaskID \subseteq CB /\ k' = k2 /\ pc' = pc
      BY <1>2, <2>8 DEF CB, ThenReturn
    <3>5. LockOK(k2)
      BY <3>1 DEF IInv, Dispatch, LockOK
    <3>6. /\ k2.pendSV \/ k2.run = Dummy => k2.new \in TaskID /\ "READY" \in k2.status[k2.new]
          /\ k2.run \in TaskID /\ ~k2.pendSV /\ pc[k2.run] \notin P.window =>
               "READY" \in k2.status[k2.run]
          /\ k2.lock > 0 => k2.run \in TaskID /\ "READY" \in k2.status[k2.run]
      BY <1>2, <2>8, <3>1, <3>3, <3>4 DEF IInv, Dispatch
    <3>7. P.strict /\ ~k2.need =>
            /\ k2.pendSV \/ k2.run = Dummy => k2.new = osPriqueueTop(k2)
            /\ (k2.run \in TaskID /\ ~k2.pendSV /\ k2.lock = 0 /\ pc[k2.run] \notin P.window) =>
                 k2.run = osPriqueueTop(k2)
      BY <1>2, <2>8, <3>1, <3>2 DEF IInv, Dispatch
    <3>8. Dispatch(k2, pc, P)
      BY <3>5, <3>6, <3>7 DEF Dispatch
    <3>9. Blocked(k2, pc)
      BY <2>6 DEF IInv, Blocked, NoNewWait
    <3> QED BY <2>3, <2>6, <3>4, <3>8, <3>9 DEF IInv, Typed, Sane
  <2> QED BY <2>7, <2>8
<1>5. CASE "READY" \notin k.status[t]
  <2>1. k1 = k
    BY <1>5
  <2>2. /\ k2 \in Kernel /\ SameSwitch(k, k2) /\ SameLists(k, k2) /\ SameTimer(k, k2)
        /\ k2.prio = k.prio
    BY <1>1, <2>1, FlagsType, FlagsEffect
  <2>3. k2.status = [k.status EXCEPT ![t] = @ \cup {"SUSPEND"}]
    BY <1>1, <2>1 DEF SetFlags, Kernel
  <2> HIDE DEF k1, k2
  <2>4. /\ k2.status[t] = k.status[t] \cup {"SUSPEND"}
        /\ \A u \in CB \ {t} : k2.status[u] = k.status[u]
    BY <1>1, <2>3 DEF Kernel
  <2>5. TaskOK(k, t)
    BY <1>1 DEF Sound
  <2>6. ListsOK(k2)
    <3>1. k2.status[t] \cap Waiting = k.status[t] \cap Waiting
      BY <2>4 DEF Waiting
    <3>2. \A u \in TaskID : u # t => k2.status[u] = k.status[u]
      BY <2>4 DEF CB
    <3>3. "READY" \notin k2.status[t]
      BY <1>5, <2>4
    <3>4. ListsOK(k) /\ k2.list = k.list /\ k2.bitmap = k.bitmap
      BY <1>1, <2>2 DEF Sound, SameLists
    <3> QED BY <1>1, <1>5, <2>2, <3>1, <3>2, <3>3, <3>4, ListsFrame
  <2>7. TaskOK(k2, t)
    BY <1>2, <1>5, <2>2, <2>4, <2>5 DEF TaskOK, TaskBlock, Waiting, SameTimer, SameSwitch
  <2>8. Sound(k2)
    BY <1>1, <2>2, <2>4, <2>6, <2>7, OneTask DEF Sound, SameTimer, SameLists
  <2>9. \A x : IsTop(k, x) => IsTop(k2, x)
    <3>1. "READY" \notin k2.status[t]
      BY <1>5, <2>4
    <3> QED BY <1>1, <1>5, <2>2, <2>4, <3>1, QuietTask DEF SameLists
  <2>10. NoNewWait(k, k2) /\ k2.fault = k.fault
    BY <2>2, <2>4 DEF NoNewWait, Limbo, Waiting, CB, SameLists
  <2>11. CASE t = k.run
    <3>1. k.lock > 0 => "READY" \in k2.status[k.run]
      BY <1>3, <1>5, <2>11
    <3> QED BY <1>2, <2>2, <2>8, <2>11, <2>10, <3>1, CallSchedule
  <2>12. CASE t # k.run
    <3>1. \A u : "READY" \in k.status[u] /\ (u = k.run \/ u = k.new) => "READY" \in k2.status[u]
      BY <1>1, <1>5, <2>4 DEF Kernel
    <3> QED BY <1>2, <2>2, <2>8, <2>9, <2>10, <2>12, <3>1, EndReturn
  <2> QED BY <2>11, <2>12
<1> QED BY <1>4, <1>5

\* LOS_TaskDelay keeps the invariant.
LEMMA DelayInv ==
  ASSUME NEW P, Points(P), IInv(P), NEW n \in Delays, LOS_TaskDelay(n)
  PROVE  IInv(P)'
<1> DEFINE t  == k.run
           k1 == MakeUnready(k, t)
           k2 == osTaskAdd2TimerList(k1, t, n)
           k3 == SetFlags(k2, t, {"DELAY"})
<1>1. /\ k \in Kernel /\ Sound(k) /\ n \in Nat /\ n # 0 /\ {"DELAY"} \in SUBSET Flag
      /\ Calls("task", "Delay") /\ k.lock = 0
  BY BoundsAssumption DEF IInv, Typed, Flag, LOS_TaskDelay
<1>2. t \in Task /\ t \in TaskID /\ t \in CB /\ pc[t] = "user" /\ ~k.pendSV
  BY <1>1 DEF Calls, At, Runs, TaskID, CB
<1>3. "READY" \in k.status[t]
  BY <1>2 DEF IInv, Dispatch, Points
<1>4. k1 \in Kernel /\ SameTimer(k, k1) /\ SameSwitch(k, k1) /\ ~k1.fault
  <2>1. IsLinked(k, t)
    BY <1>1, <1>2, <1>3, MakeUnreadyLists DEF Sound
  <2> QED BY <1>1, <1>2, <2>1, MakeUnreadyType, MakeUnreadyEffect DEF Sound, Calls, At, Runs
<1>5. ThenSchedule("task", k3)
  BY <1>4 DEF LOS_TaskDelay
<1> DEFINE c1 == k1
<1>6. c1 = MakeUnready(k, t)
  OBVIOUS
<1> HIDE DEF k1
<1>7. /\ k2 \in Kernel /\ k2.timer = k1.timer \cup {t} /\ k2.left = [k1.left EXCEPT ![t] = n]
      /\ SameSwitch(k1, k2) /\ SameLists(k1, k2) /\ SameTasks(k1, k2)
  <2>1. k2 = [k1 EXCEPT !.timer = @ \cup {t}, !.left[t] = n]
    BY DEF osTaskAdd2TimerList
  <2>2. k2 \in Kernel
    BY <1>1, <1>2, <1>4, TimerType
  <2> HIDE DEF k2, t
  <2> QED BY <1>4, <2>1, <2>2 DEF SameSwitch, SameLists, SameTasks, Kernel
<1> HIDE DEF k2
<1>8. /\ k3 \in Kernel /\ SameTimer(k2, k3) /\ SameSwitch(k2, k3) /\ SameLists(k2, k3)
      /\ k3.prio = k2.prio
  BY <1>1, <1>2, <1>7, FlagsType, FlagsEffect
<1>9. k3.status = [k2.status EXCEPT ![t] = @ \cup {"DELAY"}]
  BY <1>7 DEF SetFlags, Kernel
<1> HIDE DEF k3, t
<1>10. /\ k3.status = [k1.status EXCEPT ![t] = @ \cup {"DELAY"}] /\ k3.prio = k1.prio
       /\ SameSwitch(k1, k3) /\ SameLists(k1, k3)
  BY <1>7, <1>8, <1>9 DEF SameTasks, SameSwitch, SameLists
<1>11. /\ \A u \in TaskID \ {t} : /\ u \in k3.timer <=> u \in k.timer
                                  /\ k3.left[u] = k.left[u]
       /\ t \in k3.timer /\ k3.left[t] # 0
  <2>1. DOMAIN k1.left = TaskID
    BY <1>4 DEF Kernel
  <2> QED BY <1>1, <1>2, <1>4, <1>7, <1>8, <2>1 DEF SameTimer
<1>12. Sound(k3) /\ SameSwitch(k, k3) /\ k3.fault = k.fault /\ NoNewWait(k, k3)
  BY <1>1, <1>2, <1>3, <1>6, <1>8, <1>10, <1>11, BlockSound
<1> QED BY <1>1, <1>5, <1>8, <1>12, CallSchedule

\* LOS_TaskYield keeps the invariant.
LEMMA YieldInv ==
  ASSUME NEW P, Points(P), IInv(P), LOS_TaskYield
  PROVE  IInv(P)'
<1> DEFINE r == Requeue(k)
<1>1. /\ k \in Kernel /\ Sound(k) /\ ListsOK(k) /\ k.run \in TaskID /\ "READY" \in k.status[k.run]
      /\ Calls("task", "Yield") /\ ThenSchedule("task", r)
  BY DEF IInv, Typed, Sound, LOS_TaskYield, CanYield, Calls, At
<1>2. /\ ListsOK(r) /\ r.fault = k.fault /\ r \in Kernel
      /\ SameTimer(k, r) /\ SameSwitch(k, r) /\ SameTasks(k, r)
  BY <1>1, RequeueEffect, RequeueType
<1> HIDE DEF r
<1>3. Sound(r)
  <2>1. TaskOK(r, k.run) /\ "READY" \in r.status[Idle]
    BY <1>1, <1>2 DEF Sound, TaskOK, SameTimer, SameSwitch, SameTasks
  <2> QED BY <1>1, <1>2, <2>1, OneTask DEF Sound, SameTimer, SameTasks
<1>4. "READY" \in r.status[k.run]
  BY <1>1, <1>2 DEF SameTasks
<1>5. NoNewWait(k, r)
  BY <1>2 DEF NoNewWait, SameTasks
<1> QED BY <1>1, <1>2, <1>3, <1>4, <1>5, CallSchedule

\* The same tasks and lists, the scheduler lock as given.
LEMMA LockFrame ==
  ASSUME NEW P, Points(P), IInv(P), NEW n \in Nat, NEW r, r = [k EXCEPT !.lock = n]
  PROVE  /\ r \in Kernel /\ Sound(r) /\ osPriqueueTop(r) = osPriqueueTop(k)
         /\ r.lock = n /\ r.run = k.run /\ r.new = k.new /\ r.pendSV = k.pendSV
         /\ r.need = k.need /\ r.scan = k.scan /\ r.status = k.status /\ r.fault = k.fault
<1>1. /\ r \in Kernel /\ SameTasks(k, r) /\ SameLists(k, r) /\ SameTimer(k, r)
      /\ r.lock = n /\ r.run = k.run /\ r.new = k.new /\ r.pendSV = k.pendSV
      /\ r.need = k.need /\ r.scan = k.scan
  BY DEF IInv, Typed, Kernel, SameTasks, SameLists, SameTimer
<1>2. k \in Kernel /\ Sound(k)
  BY DEF IInv, Typed
<1>3. \A t \in k.timer : k.left[t] = 0 => k.scan
  BY <1>2 DEF Sound, TaskOK, Kernel
<1> QED BY <1>1, <1>2, <1>3, SoundFrame DEF SameTimer, SameTasks, SameLists, Sound

\* LOS_TaskLock keeps the invariant.
LEMMA LockInv ==
  ASSUME NEW P, Points(P), IInv(P), LOS_TaskLock
  PROVE  IInv(P)'
<1>1. /\ k.run \in TaskID /\ k.run # Dummy /\ ~k.pendSV /\ pc[k.run] = "user" /\ k.lock + 1 \in Nat
      /\ k.lock + 1 > 0 /\ k' = [k EXCEPT !.lock = k.lock + 1] /\ pc' = pc
  BY TaskAssumption DEF LOS_TaskLock, ThenReturn, Calls, At, Runs, IInv, Typed, Kernel
<1>2. /\ k' \in Kernel /\ Sound(k')
      /\ k'.lock = k.lock + 1 /\ k'.run = k.run /\ k'.pendSV = k.pendSV
      /\ k'.status = k.status /\ k'.fault = k.fault
  BY <1>1, LockFrame
<1>3. "READY" \in k.status[k.run]
  BY <1>1 DEF IInv, Dispatch, Points
<1>4. k'.lock # 0
  BY <1>1, <1>2
<1>5. Dispatch(k', pc', P)
  BY <1>1, <1>2, <1>3, <1>4 DEF Dispatch, LockOK
<1>6. Blocked(k', pc') /\ Sane(k', P)
  BY <1>1, <1>2 DEF IInv, Blocked, Sane
<1> QED BY <1>1, <1>2, <1>5, <1>6 DEF IInv, Typed

\* LOS_TaskUnlock keeps the invariant.
LEMMA UnlockInv ==
  ASSUME NEW P, Points(P), IInv(P), LOS_TaskUnlock
  PROVE  IInv(P)'
<1> DEFINE k1 == [k EXCEPT !.lock = k.lock - 1]
<1>1. /\ k.run \in TaskID /\ k.run # Dummy /\ ~k.pendSV /\ pc[k.run] = "user" /\ k.lock - 1 \in Nat
      /\ IF k1.lock = 0 THEN ThenSchedule("task", k1) ELSE ThenReturn(k1)
  BY TaskAssumption DEF LOS_TaskUnlock, Calls, At, Runs, IInv, Typed, Kernel
<1>2. /\ k1 \in Kernel /\ Sound(k1)
      /\ k1.lock = k.lock - 1 /\ k1.run = k.run /\ k1.pendSV = k.pendSV /\ k1.status = k.status
      /\ k1.fault = k.fault
  BY <1>1, LockFrame
<1> HIDE DEF k1
<1>3. "READY" \in k.status[k.run]
  BY <1>1 DEF IInv, Dispatch, Points
<1>4. k' = k1 /\ (pc' = pc \/ (k1.lock = 0 /\ pc' = [pc EXCEPT ![k.run] = "schedule"]))
  BY <1>1 DEF ThenSchedule, ThenReturn, Goto
<1>5. pc' \in [TaskID -> P.all]
  BY <1>1, <1>4 DEF IInv, Typed, Points, PC
<1>6. k1.lock # 0 \/ pc'[k.run] = "schedule"
  BY <1>1, <1>4 DEF ThenSchedule, Goto, IInv, Typed
<1>7. Dispatch(k1, pc', P)
  BY <1>1, <1>2, <1>3, <1>6 DEF Dispatch, LockOK, Points
<1>8. Blocked(k1, pc') /\ Sane(k1, P)
  BY <1>1, <1>2, <1>4 DEF IInv, Typed, Blocked, Sane, PC
<1> QED BY <1>2, <1>4, <1>5, <1>7, <1>8 DEF IInv, Typed

\* The LOS_Schedule that ends a kernel call keeps the invariant.
LEMMA ScheduleInv ==
  ASSUME NEW P, Points(P), IInv(P), Schedule
  PROVE  IInv(P)'
<1>1. k \in Kernel /\ Sound(k) /\ LockOK(k) /\ k' = LOS_Schedule(k)
  BY DEF IInv, Typed, Dispatch, Schedule
<1>2. k.lock > 0 => k.run \in TaskID /\ "READY" \in k.status[k.run]
  BY DEF IInv, Dispatch
<1>3. Sound(k') /\ Dispatch(k', pc', P)
  BY <1>1, <1>2, ScheduleDispatch
<1>4. Typed(P)'
  BY <1>1, ScheduleType DEF IInv, Typed, Schedule, At, Goto, Points, PC
<1>5. k'.status = k.status /\ k'.fault = k.fault
  BY <1>1, ScheduleFrame DEF SameTasks, SameLists
<1>6. Blocked(k', pc') /\ Sane(k', P)
  <2>1. pc[k.run] = "schedule" /\ pc' = [pc EXCEPT ![k.run] = "user"]
    BY DEF Schedule, At, Goto
  <2> QED BY <1>5, <2>1 DEF IInv, Typed, Blocked, Sane, PC
<1> QED BY <1>3, <1>4, <1>6 DEF IInv

\* The osSchedule that ends the deletion of the running task keeps the invariant.
LEMMA DeadTaskInv ==
  ASSUME NEW P, Points(P), IInv(P), DeadTaskSchedule
  PROVE  IInv(P)'
<1>1. /\ k' \in Kernel /\ k.run = Dummy /\ pc' = pc
      /\ SameTasks(k, k') /\ SameLists(k, k') /\ SameTimer(k, k')
      /\ k'.lock = k.lock /\ k'.run = k.run /\ k'.new = k.new
      /\ k'.need = k.need /\ k'.scan = k.scan
  BY DEF DeadTaskSchedule, Runs, IInv, Typed, Kernel, SameTasks, SameLists, SameTimer
<1>2. k \in Kernel /\ Sound(k) /\ Dummy \notin TaskID
  BY TaskAssumption DEF IInv, Typed
<1>3. \A t \in k.timer : k.left[t] = 0 => k.scan
  BY <1>2 DEF Sound, TaskOK, Kernel
<1>4. Sound(k') /\ osPriqueueTop(k') = osPriqueueTop(k)
  BY <1>1, <1>2, <1>3, SoundFrame DEF SameTimer, Sound
<1>5. Dispatch(k', pc', P)
  BY <1>1, <1>2, <1>4 DEF IInv, Dispatch, LockOK, SameTasks
<1>6. Blocked(k', pc') /\ Sane(k', P)
  BY <1>1 DEF IInv, Blocked, Sane, SameTasks, SameLists
<1> QED BY <1>1, <1>4, <1>5, <1>6 DEF IInv, Typed

\* PendSV keeps the invariant.
LEMMA PendSVInv ==
  ASSUME NEW P, Points(P), IInv(P), PendSV
  PROVE  IInv(P)'
<1>1. /\ k \in Kernel /\ Sound(k) /\ k.pendSV /\ ~k.scan /\ ~k.need /\ k.lock = 0 /\ pc' = pc
      /\ k' = PendSVHandler(k) /\ k' \in Kernel
  BY PendSVType DEF IInv, Typed, PendSV, Dispatch, LockOK, Sound
<1>2. /\ k.new \in TaskID /\ "READY" \in k.status[k.new]
      /\ P.strict => k.new = osPriqueueTop(k)
  BY SMTT(60), <1>1 DEF IInv, Dispatch
<1> DEFINE st1 == [k.status EXCEPT ![k.run] = @ \ {"RUNNING"}]
           st2 == [st1 EXCEPT ![k.new] = @ \cup {"RUNNING"}]
<1>3. /\ k'.status = st2 /\ k'.run = k.new /\ ~k'.pendSV /\ k'.lock = k.lock
      /\ k'.need = k.need /\ k'.scan = k.scan /\ k'.prio = k.prio
      /\ SameLists(k, k') /\ SameTimer(k, k')
  <2> DEFINE k1 == [k EXCEPT !.status[k.run] = @ \ {"RUNNING"}]
             k2 == [k1 EXCEPT !.status[k.new] = @ \cup {"RUNNING"}]
  <2>1. k' = [k2 EXCEPT !.run = k.new, !.pendSV = FALSE]
    BY <1>1 DEF PendSVHandler, SetFlags, ClearFlags
  <2>2. k1 = [k EXCEPT !.status = st1]
    BY <1>1 DEF Kernel
  <2>3. k2 = [k1 EXCEPT !.status = st2]
    BY <1>1, <2>2 DEF Kernel
  <2> HIDE DEF k1, k2, st1, st2
  <2> QED BY <1>1, <2>1, <2>2, <2>3 DEF Kernel, SameLists, SameTimer
<1>4. \A t \in CB : /\ k'.status[t] \ {"RUNNING"} = k.status[t] \ {"RUNNING"}
                    /\ "RUNNING" \in k'.status[t] <=> t = k.new
  <2> TAKE t \in CB
  <2>1. "RUNNING" \in k.status[t] <=> t = k.run
    BY <1>1 DEF Sound, RunOK
  <2>2. k.run \in CB /\ k.new \in CB /\ k.status \in [CB -> SUBSET Flag]
    BY <1>1 DEF Kernel
  <2>3. st1[t] = IF t = k.run THEN k.status[t] \ {"RUNNING"} ELSE k.status[t]
    BY <2>2
  <2>4. st2[t] = IF t = k.new THEN st1[t] \cup {"RUNNING"} ELSE st1[t]
    BY <2>2
  <2> HIDE DEF st1, st2
  <2> QED BY <1>3, <2>1, <2>3, <2>4
<1> HIDE DEF st1, st2
<1>5. \A t \in CB, f \in Flag : f # "RUNNING" => (f \in k'.status[t] <=> f \in k.status[t])
  BY <1>4
<1>6. ListsOK(k')
  <2>1. \A t \in TaskID : /\ "READY" \in k'.status[t] <=> "READY" \in k.status[t]
                          /\ k'.status[t] \cap Waiting = {} <=> k.status[t] \cap Waiting = {}
    BY <1>4 DEF Waiting, CB
  <2> QED BY <1>1, <1>3, <2>1, ListsFrame DEF SameLists, Sound
<1>7. RunOK(k')
  BY <1>3, <1>4 DEF RunOK
<1>8. \A t \in TaskID : TaskOK(k', t)
  <2> TAKE t \in TaskID
  <2>1. TaskOK(k, t)
    BY <1>1 DEF Sound
  <2>2. t \in CB
    BY DEF CB
  <2>4. k'.status[t] \cap Waiting = k.status[t] \cap Waiting
    BY <1>4, <2>2 DEF Waiting
  <2>5. k'.status[t] \cap (Waiting \cup {"DELAY"}) = k.status[t] \cap (Waiting \cup {"DELAY"})
    BY <1>4, <2>2 DEF Waiting
  <2>6. k'.status[t] \cap TaskBlock = k.status[t] \cap TaskBlock
    BY <1>4, <2>2 DEF TaskBlock
  <2>7. \A f \in {"UNUSED", "READY", "DELAY", "TIMEOUT"} : f \in k'.status[t] <=> f \in k.status[t]
    BY <1>4, <2>2
  <2>3. k.status[t] = {"UNUSED"} => k'.status[t] = {"UNUSED"}
    <3> HAVE k.status[t] = {"UNUSED"}
    <3>1. t # k.new
      BY <1>2
    <3> QED BY <1>4, <2>2, <3>1
  <2> QED BY <1>3, <2>1, <2>3, <2>4, <2>5, <2>6, <2>7 DEF TaskOK, SameTimer
<1>9. Sound(k')
  <2>1. Idle \in CB
    BY DEF CB, TaskID
  <2> QED BY <1>1, <1>3, <1>4, <1>6, <1>7, <1>8, <2>1 DEF Sound, SameLists
<1>10. "READY" \in k'.status[k.new]
  BY <1>2, <1>4 DEF CB
<1>11. osPriqueueTop(k') = osPriqueueTop(k)
  <2>1. IsTop(k, osPriqueueTop(k))
    BY <1>1, TopFacts DEF Sound, TaskID
  <2>2. IsTop(k', osPriqueueTop(k))
    <3>1. \A t \in TaskID : "READY" \in k'.status[t] <=> "READY" \in k.status[t]
      BY <1>4 DEF CB
    <3> QED BY <1>3, <2>1, <3>1 DEF IsTop, SameLists
  <2> QED BY <1>1, <1>6, <2>2, TopFacts
<1>12. Dispatch(k', pc', P)
  <2>1. k.new # Dummy
    BY <1>2, TaskAssumption
  <2> QED BY <1>1, <1>2, <1>3, <1>10, <1>11, <2>1 DEF Dispatch, LockOK
<1>13. Typed(P)'
  BY <1>1 DEF IInv, Typed
<1>14. Blocked(k', pc')
  <2>1. \A t \in TaskID : k'.status[t] \cap Limbo = k.status[t] \cap Limbo
    BY <1>4 DEF Limbo, Waiting, CB
  <2> QED BY <1>1, <2>1 DEF IInv, Blocked
<1>15. Sane(k', P)
  BY <1>3 DEF IInv, Sane, SameLists
<1> QED BY <1>9, <1>12, <1>13, <1>14, <1>15 DEF IInv

\* LOS_TaskPriSet keeps the invariant.
LEMMA PriSetInv ==
  ASSUME NEW P, Points(P), IInv(P), NEW t \in Task, NEW p \in Pri, LOS_TaskPriSet(t, p)
  PROVE  IInv(P)'
<1> DEFINE k1 == MakeUnready(k, t)
           k2 == [k1 EXCEPT !.prio[t] = p]
           k3 == MakeReady(k2, t)
           q1 == [k EXCEPT !.prio[t] = p]
<1>1. /\ k \in Kernel /\ Sound(k) /\ ListsOK(k) /\ t \in TaskID /\ t \in CB /\ t # Idle
      /\ TaskOK(k, t) /\ Calls("task", "PriSet")
  BY TaskAssumption DEF IInv, Typed, Sound, TaskID, CB, LOS_TaskPriSet
<1>2. CASE "READY" \in k.status[t]
  <2>1. ThenSchedule("task", k3)
    BY <1>2 DEF LOS_TaskPriSet, osTaskPriModify
  <2>2. k1 \in Kernel /\ ListsOK(k1) /\ IsLinked(k, t)
    BY <1>1, <1>2, MakeUnreadyType, MakeUnreadyLists
  <2>3. /\ SameTimer(k, k1) /\ SameSwitch(k, k1) /\ k1.prio = k.prio
        /\ k1.status = [k.status EXCEPT ![t] = @ \ {"READY"}] /\ k1.fault = k.fault
    BY <1>1, <2>2, MakeUnreadyEffect
  <2> HIDE DEF k1
  <2>4. /\ k2 \in Kernel /\ SameTimer(k1, k2) /\ SameSwitch(k1, k2) /\ SameLists(k1, k2)
        /\ k2.status = k1.status /\ k2.prio = [k1.prio EXCEPT ![t] = p]
    BY <2>2 DEF Kernel, SameTimer, SameSwitch, SameLists
  <2> HIDE DEF k2
  <2>5. "READY" \notin k2.status[t] /\ k2.status[t] \cap Waiting = {}
    BY <1>1, <1>2, <2>3, <2>4 DEF TaskOK, TaskBlock, Waiting, Kernel
  <2>6. ListsOK(k2)
    <3>1. \A u \in TaskID : u # t => k2.prio[u] = k1.prio[u]
      BY <2>2, <2>4 DEF Kernel
    <3> QED BY <2>2, <2>4, <2>5, <3>1, ListsFrame DEF SameLists
  <2>7. /\ k3 \in Kernel /\ ListsOK(k3) /\ SameTimer(k2, k3) /\ SameSwitch(k2, k3)
        /\ k3.fault = k2.fault /\ k3.status = [k2.status EXCEPT ![t] = @ \cup {"READY"}]
    BY <1>1, <2>4, <2>5, <2>6, MakeReadyType, MakeReadyLists, MakeReadyEffect
  <2> HIDE DEF k3
  <2>8. k3.status = k.status
    <3>1. \A u \in CB : k3.status[u] = k.status[u]
      BY <1>1, <1>2, <2>3, <2>4, <2>7 DEF Kernel
    <3> QED BY <1>1, <2>7, <3>1 DEF Kernel
  <2>9. SameTimer(k, k3) /\ SameSwitch(k, k3) /\ k3.fault = k.fault
    BY <1>1, <2>3, <2>4, <2>7 DEF SameTimer, SameSwitch, SameLists, Sound
  <2>10. Sound(k3)
    <3>1. TaskOK(k3, t)
      BY <1>1, <2>8, <2>9 DEF TaskOK, SameTimer, SameSwitch
    <3> QED BY <1>1, <2>7, <2>8, <2>9, <3>1, OneTask DEF SameTimer
  <2>11. k.lock > 0 => "READY" \in k3.status[k.run]
    BY <2>8 DEF IInv, Dispatch
  <2>12. NoNewWait(k, k3)
    BY <2>8 DEF NoNewWait
  <2> QED BY <1>1, <2>1, <2>7, <2>9, <2>10, <2>11, <2>12, CallSchedule
<1>3. CASE "READY" \notin k.status[t]
  <2>1. ThenReturn(q1)
    BY <1>3 DEF LOS_TaskPriSet, osTaskPriModify
  <2>2. /\ q1 \in Kernel /\ SameTimer(k, q1) /\ SameSwitch(k, q1) /\ SameLists(k, q1)
        /\ q1.status = k.status /\ q1.prio = [k.prio EXCEPT ![t] = p]
    BY <1>1 DEF Kernel, SameTimer, SameSwitch, SameLists
  <2> HIDE DEF q1
  <2>3. \A u \in TaskID \ {t} : q1.prio[u] = k.prio[u]
    BY <1>1, <2>2 DEF Kernel
  <2>4. ListsOK(q1)
    BY <1>1, <1>3, <2>2, <2>3, ListsFrame DEF SameLists
  <2>5. TaskOK(q1, t)
    BY <1>1, <2>2 DEF TaskOK, SameTimer, SameSwitch
  <2>6. Sound(q1)
    BY <1>1, <2>2, <2>4, <2>5, OneTask DEF Sound, SameTimer, SameLists
  <2>7. \A x : IsTop(k, x) => IsTop(q1, x)
    BY <1>1, <1>3, <2>2, <2>3, QuietTask DEF SameLists
  <2>8. NoNewWait(k, q1) /\ q1.fault = k.fault
    BY <2>2 DEF NoNewWait, SameLists
  <2> QED BY <2>1, <2>2, <2>6, <2>7, <2>8, EndReturn
<1> QED BY <1>2, <1>3

\* The tick, up to the scan of the timeout list, keeps the invariant.
LEMMA TickInv ==
  ASSUME NEW P, Points(P), IInv(P), Tick
  PROVE  IInv(P)'
<1> DEFINE left == IF k.slice.task # k.run THEN TimeSlice - 1 ELSE k.slice.left - 1
           q  == Requeue(k)
           k1 == osTimesliceCheck(k)
           k2 == LOS_Schedule(q)
<1>1. /\ k \in Kernel /\ Sound(k) /\ ListsOK(k) /\ ~k.scan /\ ~k.need /\ pc' = pc
      /\ \A t \in k.timer : k.left[t] # 0
  BY DEF IInv, Typed, Tick, Sound, TaskOK, Kernel
<1>2. Typed(P)'
  BY <1>1, NextType DEF IInv, Next, KernelNext
<1>3. /\ k'.run = k1.run /\ k'.new = k1.new /\ k'.lock = k1.lock /\ k'.pendSV = k1.pendSV
      /\ k'.need = k1.need /\ k'.scan /\ k'.timer = k1.timer
      /\ SameTasks(k1, k') /\ SameLists(k1, k')
  <2>1. k1 \in Kernel
    BY <1>1, TimesliceType
  <2> HIDE DEF k1
  <2> QED BY <2>1 DEF Tick, k1, Kernel, SameTasks, SameLists
<1>4. ASSUME NEW r \in Kernel, Sound(r), Dispatch(r, pc, P), r.need = k.need, r.timer = k.timer,
             r.status = k.status, r.fault = k.fault, NEW s, k1 = [r EXCEPT !.slice = s]
      PROVE  IInv(P)'
  <2>1. /\ k1.run = r.run /\ k1.new = r.new /\ k1.lock = r.lock /\ k1.pendSV = r.pendSV
        /\ k1.need = r.need /\ k1.timer = r.timer
        /\ SameTasks(r, k1) /\ SameLists(r, k1)
    BY <1>4 DEF Kernel, SameTasks, SameLists
  <2>2. /\ k'.run = r.run /\ k'.new = r.new /\ k'.lock = r.lock /\ k'.pendSV = r.pendSV
        /\ k'.need = r.need /\ k'.timer = r.timer
        /\ SameTasks(r, k') /\ SameLists(r, k')
    BY <1>3, <2>1 DEF SameTasks, SameLists
  <2>3. Sound(k') /\ osPriqueueTop(k') = osPriqueueTop(r)
    BY <1>2, <1>3, <1>4, <2>2, SoundFrame DEF Typed
  <2>4. Dispatch(k', pc, P)
    BY <1>4, <2>2, <2>3 DEF Dispatch, LockOK, SameTasks
  <2>5. Blocked(k', pc) /\ Sane(k', P)
    BY <1>4, <2>2 DEF IInv, Blocked, Sane, SameTasks, SameLists
  <2> QED BY <1>1, <1>2, <2>3, <2>4, <2>5 DEF IInv
<1>5. k \in Kernel /\ Dispatch(k, pc, P)
  BY <1>1 DEF IInv
<1>6. CASE left # 0 \/ ~CanYield(k)
  <2>1. \E s : k1 = [k EXCEPT !.slice = s]
    BY <1>6 DEF osTimesliceCheck
  <2> HIDE DEF k1
  <2> QED BY <1>1, <1>4, <1>5, <2>1
<1>7. CASE left = 0 /\ CanYield(k)
  <2>1. k1 = [k2 EXCEPT !.slice = [task |-> NoTask, left |-> 0]]
    BY <1>7 DEF osTimesliceCheck
  <2>2. k.run \in TaskID /\ "READY" \in k.status[k.run]
    BY <1>1, <1>7 DEF CanYield, Kernel, CB
  <2>3. /\ q \in Kernel /\ ListsOK(q) /\ q.fault = k.fault
        /\ SameTimer(k, q) /\ SameSwitch(k, q) /\ SameTasks(k, q)
    BY <1>1, <2>2, RequeueEffect, RequeueType
  <2> HIDE DEF q
  <2>4. TaskOK(q, k.run) /\ "READY" \in q.status[Idle]
    BY <1>1, <2>2, <2>3 DEF Sound, TaskOK, SameTimer, SameSwitch, SameTasks
  <2>5. Sound(q)
    BY <1>1, <2>2, <2>3, <2>4, OneTask DEF Sound, SameTimer, SameTasks
  <2>6. LockOK(q)
    BY <1>5, <2>3 DEF Dispatch, LockOK, SameSwitch
  <2>7. q.run \in TaskID /\ "READY" \in q.status[q.run]
    BY <2>2, <2>3 DEF SameSwitch, SameTasks
  <2>8. /\ Sound(k2) /\ Dispatch(k2, pc, P) /\ k2.need = q.need /\ SameTimer(q, k2)
        /\ SameTasks(q, k2) /\ SameLists(q, k2)
    BY <2>3, <2>5, <2>6, <2>7, ScheduleDispatch
  <2>9. k2 \in Kernel
    BY <2>3, ScheduleType
  <2> HIDE DEF k1, k2
  <2>10. /\ k2.need = k.need /\ k2.timer = k.timer
         /\ k2.status = k.status /\ k2.fault = k.fault
    BY <2>3, <2>8 DEF SameSwitch, SameTimer, SameTasks, SameLists
  <2> QED BY <1>4, <2>1, <2>8, <2>9, <2>10
<1> QED BY <1>6, <1>7

\* A round of osTaskScan ends what task t waits for, and changes no other task.
LEMMA ScanEffect ==
  ASSUME NEW kn \in Kernel, Sound(kn), NEW t \in Task, kn.scan, t \in kn.timer,
         NEW r, r = ScanTask(kn, t, kn.status[t])
  PROVE  /\ r \in Kernel /\ Sound(r) /\ r.fault = kn.fault
         /\ r.run = kn.run /\ r.new = kn.new /\ r.lock = kn.lock /\ r.pendSV = kn.pendSV
         /\ r.prio = kn.prio
         /\ \A u \in CB \ {t} : r.status[u] = kn.status[u]
         /\ r.status[t] \ {"READY"} = kn.status[t] \ (Waiting \cup {"DELAY"})
         /\ "READY" \in r.status[t] \/ "READY" \notin kn.status[t]
         /\ IF "SUSPEND" \in kn.status[t]
            THEN r.need = kn.need /\ \A x : IsTop(kn, x) => IsTop(r, x)
            ELSE r.need
         /\ \A w \in WaitList : r.list[w] = Unlink(kn.list[w], t)
<1> DEFINE st == kn.status[t]
           k1 == [kn EXCEPT !.timer = @ \ {t}, !.left[t] = 0]
           flag == IF "PEND" \in st \cap Waiting THEN "PEND" ELSE "PEND_QUEUE"
           flags == IF "PEND" \in st \cap Waiting THEN {"PEND"} ELSE {"PEND_QUEUE"}
           c1 == ClearFlags(ListDelete(k1, t), t, flags)
           c2 == ClearFlags(k1, t, {"DELAY"})
           k2 == IF st \cap Waiting # {} THEN c1 ELSE c2
           k3 == MakeReady(k2, t)
           k4 == [k3 EXCEPT !.need = TRUE]
<1>1. /\ ListsOK(kn) /\ TaskOK(kn, t) /\ t \in TaskID /\ t \in CB /\ t # Idle
      /\ kn.status \in [CB -> SUBSET Flag]
  BY TaskAssumption DEF Sound, TaskID, CB, Kernel
<1>2. /\ "UNUSED" \notin st /\ "READY" \notin st
      /\ \A f, g \in st \cap (Waiting \cup {"DELAY"}) : f = g
      /\ st \cap (Waiting \cup {"DELAY"}) # {}
  BY <1>1 DEF TaskOK, TaskBlock, Waiting
<1>3. r = IF "SUSPEND" \in st THEN k2 ELSE k4
  BY DEF ScanTask
<1>0. flags = {flag}
  OBVIOUS
<1> HIDE DEF flags
<1> HIDE DEF st
<1>4. /\ k1 \in Kernel /\ k1.timer = kn.timer \ {t} /\ k1.left = [kn.left EXCEPT ![t] = 0]
      /\ SameSwitch(kn, k1) /\ SameLists(kn, k1) /\ SameTasks(kn, k1)
  BY <1>1 DEF SameSwitch, SameLists, SameTasks, Kernel
<1> HIDE DEF k1
<1>5. ListsOK(k1)
  BY <1>1, <1>4, ListsFrame DEF SameLists, SameTasks
<1> DEFINE gone == st \cap (Waiting \cup {"DELAY"})
<1>6. /\ k2 \in Kernel /\ ListsOK(k2) /\ SameTimer(k1, k2) /\ SameSwitch(k1, k2)
      /\ k2.prio = k1.prio /\ k2.fault = k1.fault
      /\ k2.status = [kn.status EXCEPT ![t] = @ \ gone]
      /\ \A w \in WaitList : k2.list[w] = Unlink(kn.list[w], t)
      /\ \A p \in Pri : k2.list[p] = kn.list[p]
  <2>1. CASE st \cap Waiting # {}
    <3>1. flag \in Waiting /\ k1.status[t] \cap Waiting = {flag} /\ gone = {flag}
      BY <1>2, <1>4, <2>1 DEF Waiting, SameTasks, st
    <3>2. "READY" \notin k1.status[t] /\ k2 = c1
      BY <1>2, <1>4, <2>1 DEF SameTasks, st
    <3>3. /\ k2 \in Kernel /\ ListsOK(k2)
          /\ SameTimer(k1, k2) /\ SameSwitch(k1, k2) /\ k2.prio = k1.prio
          /\ k2.fault = k1.fault
          /\ k2.status = [k1.status EXCEPT ![t] = @ \ {flag}]
          /\ k2.list = [h \in ListHead |-> Unlink(k1.list[h], t)]
          /\ \A p \in Pri : k2.list[p] = k1.list[p]
      <4> HIDE DEF flag, k2
      <4>1. k2 = ClearFlags(ListDelete(k1, t), t, {flag})
        BY <1>0, <3>2
      <4> QED BY <1>1, <1>4, <1>5, <3>1, <3>2, <4>1, LeaveLists
    <3> HIDE DEF flag, k2, gone
    <3>4. k2.status = [kn.status EXCEPT ![t] = @ \ gone]
      BY <1>4, <3>1, <3>3 DEF SameTasks
    <3>5. k1.list = kn.list
      BY <1>4 DEF SameLists
    <3> QED BY <3>3, <3>4, <3>5 DEF ListHead
  <2>2. CASE st \cap Waiting = {}
    <3>1. k2 = c2 /\ gone = {"DELAY"} /\ {"DELAY"} \in SUBSET Flag
      BY <1>2, <2>2 DEF Waiting, Flag
    <3> HIDE DEF k2
    <3>2. /\ k2 \in Kernel /\ SameTimer(k1, k2) /\ SameSwitch(k1, k2) /\ SameLists(k1, k2)
          /\ k2.prio = k1.prio
      BY <1>1, <1>4, <3>1, FlagsType, FlagsEffect
    <3>3. k2.status = [kn.status EXCEPT ![t] = @ \ {"DELAY"}]
      BY <1>4, <3>1 DEF ClearFlags, Kernel, SameTasks
    <3>4. ListsOK(k2)
      <4>1. \A u \in TaskID : /\ "READY" \in k2.status[u] <=> "READY" \in k1.status[u]
                              /\ k2.status[u] \cap Waiting = k1.status[u] \cap Waiting
        BY <1>1, <1>4, <3>3 DEF SameTasks, CB, Waiting
      <4> QED BY <1>4, <1>5, <3>2, <4>1, ListsFrame DEF SameLists
    <3>5. \A w \in WaitList : t \notin ToSet(kn.list[w])
      BY <1>1, <2>2 DEF ListsOK, st
    <3>6. \A w \in WaitList : k2.list[w] = Unlink(kn.list[w], t)
      BY <1>4, <3>2, <3>5 DEF Unlink, SameLists
    <3> QED BY <1>4, <3>1, <3>2, <3>3, <3>4, <3>6 DEF SameLists
  <2> QED BY <2>1, <2>2
<1> HIDE DEF k2, flag
<1>7. /\ k2.status[t] = st \ (Waiting \cup {"DELAY"})
      /\ \A u \in CB \ {t} : k2.status[u] = kn.status[u]
      /\ SameSwitch(kn, k2) /\ k2.prio = kn.prio /\ k2.fault = kn.fault
      /\ k2.timer = kn.timer \ {t} /\ k2.left = [kn.left EXCEPT ![t] = 0]
  <2>1. st \ gone = st \ (Waiting \cup {"DELAY"})
    OBVIOUS
  <2> HIDE DEF gone
  <2> QED BY <1>1, <1>4, <1>6, <2>1 DEF SameSwitch, SameTimer, SameLists, SameTasks, st
<1>8. \A u \in TaskID \ {t} : (u \in k2.timer <=> u \in kn.timer) /\ k2.left[u] = kn.left[u]
  BY <1>1, <1>7 DEF Kernel
<1>9. "READY" \notin k2.status[t] /\ k2.status[t] \cap Waiting = {}
  BY <1>2, <1>7
<1>10. CASE "SUSPEND" \in st
  <2>1. r = k2
    BY <1>3, <1>10
  <2>2. TaskOK(k2, t)
    <3>1. /\ "UNUSED" \notin k2.status[t] /\ "SUSPEND" \in k2.status[t] /\ t \notin k2.timer
          /\ k2.status[t] \cap (Waiting \cup {"DELAY"}) = {} /\ "DELAY" \notin k2.status[t]
      BY <1>2, <1>7, <1>10 DEF Waiting
    <3> QED BY <1>9, <3>1 DEF TaskOK, TaskBlock
  <2>3. Sound(k2)
    <3>1. "RUNNING" \in k2.status[t] <=> "RUNNING" \in kn.status[t]
      BY <1>7 DEF Waiting, st
    <3> QED BY <1>1, <1>6, <1>7, <1>8, <2>2, <3>1, OneTask
  <2>4. \A x : IsTop(kn, x) => IsTop(k2, x)
    <3> SUFFICES ASSUME NEW x, IsTop(kn, x) PROVE IsTop(k2, x)
      OBVIOUS
    <3>1. x \in TaskID \ {t} /\ x \in CB /\ kn.prio[x] \in Pri
      BY <1>2 DEF IsTop, CB, Kernel, st
    <3>2. \A u \in TaskID : "READY" \in k2.status[u] => u \in TaskID \ {t} /\ u \in CB
      BY <1>9 DEF CB
    <3> QED BY <1>6, <1>7, <3>1, <3>2 DEF IsTop
  <2>5. r.status[t] \ {"READY"} = st \ (Waiting \cup {"DELAY"})
    BY <1>7, <1>9, <2>1
  <2>6. "READY" \notin kn.status[t] /\ "SUSPEND" \in kn.status[t]
    BY <1>2, <1>10 DEF st
  <2>7. /\ r.run = kn.run /\ r.new = kn.new /\ r.lock = kn.lock /\ r.pendSV = kn.pendSV
        /\ r.need = kn.need /\ r.fault = kn.fault /\ r.prio = kn.prio /\ r \in Kernel
        /\ \A u \in CB \ {t} : r.status[u] = kn.status[u]
        /\ \A w \in WaitList : r.list[w] = Unlink(kn.list[w], t)
    <3>1. /\ r.run = kn.run /\ r.new = kn.new /\ r.lock = kn.lock /\ r.pendSV = kn.pendSV
          /\ r.need = kn.need
      BY ONLY <1>7, <2>1 DEF SameSwitch
    <3>2. /\ r.fault = kn.fault /\ r.prio = kn.prio
          /\ \A u \in CB \ {t} : r.status[u] = kn.status[u]
      BY ONLY <1>7, <2>1
    <3>3. r \in Kernel /\ \A w \in WaitList : r.list[w] = Unlink(kn.list[w], t)
      BY ONLY <1>6, <2>1
    <3> QED BY ONLY <3>1, <3>2, <3>3
  <2> QED BY ONLY <2>1, <2>3, <2>4, <2>5, <2>6, <2>7 DEF st
<1>11. CASE "SUSPEND" \notin st
  <2>1. r = k4
    BY <1>3, <1>11
  <2>2. /\ k3 \in Kernel /\ ListsOK(k3) /\ SameTimer(k2, k3) /\ SameSwitch(k2, k3)
        /\ k3.fault = k2.fault /\ k3.prio = k2.prio
        /\ k3.status = [k2.status EXCEPT ![t] = @ \cup {"READY"}]
        /\ k3.list = [k2.list EXCEPT ![k2.prio[t]] = Append(@, t)]
    BY <1>1, <1>6, <1>9, MakeReadyType, MakeReadyLists, MakeReadyEffect
  <2> HIDE DEF k3
  <2>3. /\ k3.status[t] = k2.status[t] \cup {"READY"}
        /\ \A u \in CB \ {t} : k3.status[u] = kn.status[u]
        /\ SameSwitch(kn, k3)
        /\ k3.timer = kn.timer \ {t} /\ k3.left = k2.left
    BY <1>1, <1>6, <1>7, <2>2 DEF Kernel, SameSwitch, SameTimer
  <2>4. TaskOK(k3, t)
    <3>1. /\ "UNUSED" \notin k3.status[t] /\ "READY" \in k3.status[t] /\ t \notin k3.timer
          /\ k3.status[t] \cap (Waiting \cup {"DELAY"}) = {} /\ "DELAY" \notin k3.status[t]
          /\ "SUSPEND" \notin k3.status[t]
      BY <1>2, <1>7, <1>11, <2>3 DEF Waiting
    <3> QED BY <3>1 DEF TaskOK, TaskBlock, Waiting
  <2>5. Sound(k3)
    <3>1. \A u \in TaskID \ {t} : (u \in k3.timer <=> u \in kn.timer) /\ k3.left[u] = kn.left[u]
      BY <1>8, <1>7, <2>3
    <3>2. "RUNNING" \in k3.status[t] <=> "RUNNING" \in kn.status[t]
      BY <1>7, <2>3 DEF Waiting, st
    <3> QED BY <1>1, <2>2, <2>3, <2>4, <3>1, <3>2, OneTask
  <2>6. /\ k4 \in Kernel /\ k4.need /\ k4.scan = k3.scan /\ k4.run = k3.run /\ k4.new = k3.new
        /\ k4.lock = k3.lock /\ k4.pendSV = k3.pendSV
        /\ SameTasks(k3, k4) /\ SameLists(k3, k4) /\ SameTimer(k3, k4)
    BY <2>2 DEF Kernel, SameTasks, SameLists, SameTimer
  <2> HIDE DEF k4
  <2>7. k4.scan
    BY <2>3, <2>6 DEF SameSwitch
  <2>8. Sound(k4)
    BY <2>2, <2>5, <2>6, <2>7, SoundFrame DEF SameTimer
  <2>9. k4.status[t] \ {"READY"} = st \ (Waiting \cup {"DELAY"}) /\ "READY" \in k4.status[t]
    BY <1>7, <1>9, <2>3, <2>6 DEF SameTasks
  <2>10. \A w \in WaitList : k4.list[w] = Unlink(kn.list[w], t)
    <3>1. \A w \in WaitList : w # k2.prio[t] /\ w \in ListHead
      BY <1>1, <1>6, WaitListAssumption DEF Kernel, ListHead
    <3> QED BY <1>6, <2>2, <2>6, <3>1 DEF Kernel, SameLists
  <2>11. /\ k4.fault = kn.fault /\ k4.prio = kn.prio
         /\ k4.run = kn.run /\ k4.new = kn.new /\ k4.lock = kn.lock /\ k4.pendSV = kn.pendSV
         /\ \A u \in CB \ {t} : k4.status[u] = kn.status[u]
    BY <1>7, <2>2, <2>3, <2>6 DEF SameSwitch, SameTasks, SameLists
  <2> QED BY <1>11, <2>1, <2>6, <2>8, <2>9, <2>10, <2>11 DEF st
<1> QED BY <1>10, <1>11

\* A round of osTaskScan keeps the invariant.
LEMMA ScanInv ==
  ASSUME ~IsrRaces, NEW P, Points(P), IInv(P), NEW t \in Task, osTaskScan(t)
  PROVE  IInv(P)'
<1>1. /\ k \in Kernel /\ Sound(k) /\ k.scan /\ t \in k.timer /\ pc' = pc
      /\ k' = ScanTask(k, t, k.status[t])
      /\ k.status \in [CB -> SUBSET Flag] /\ t \in CB
  BY DEF IInv, Typed, osTaskScan, Expired, Kernel, TaskID, CB
<1>2. /\ k' \in Kernel /\ Sound(k') /\ k'.fault = k.fault
      /\ k'.run = k.run /\ k'.new = k.new /\ k'.lock = k.lock /\ k'.pendSV = k.pendSV
      /\ \A u \in CB \ {t} : k'.status[u] = k.status[u]
      /\ k'.status[t] \ {"READY"} = k.status[t] \ (Waiting \cup {"DELAY"})
      /\ "READY" \in k'.status[t] \/ "READY" \notin k.status[t]
      /\ IF "SUSPEND" \in k.status[t]
         THEN k'.need = k.need /\ \A x : IsTop(k, x) => IsTop(k', x)
         ELSE k'.need
  BY <1>1, ScanEffect
<1>3. \A u \in CB : "READY" \in k.status[u] => "READY" \in k'.status[u]
  BY <1>2
<1>4. k.run \in CB /\ k.new \in CB /\ TaskID \subseteq CB
  BY <1>1 DEF Kernel, CB
<1>5. k'.need \/ (k'.need = k.need /\ osPriqueueTop(k') = osPriqueueTop(k))
  <2>1. CASE "SUSPEND" \in k.status[t]
    <3>1. IsTop(k, osPriqueueTop(k))
      BY <1>1, TopFacts DEF Sound, TaskID
    <3> QED BY <1>2, <2>1, <3>1, TopFacts DEF Sound
  <2> QED BY <1>2, <2>1
<1>6. Dispatch(k', pc, P)
  BY <1>2, <1>3, <1>4, <1>5 DEF IInv, Dispatch, LockOK
<1>7. Blocked(k', pc)
  <2>1. \A u \in TaskID : k'.status[u] \cap Limbo \subseteq k.status[u]
    BY <1>2, <1>4 DEF Limbo, Waiting
  <2> QED BY <2>1 DEF IInv, Blocked
<1> QED BY <1>1, <1>2, <1>6, <1>7 DEF IInv, Typed, Sane

\* The end of osTaskScan keeps the invariant.
LEMMA ScanEndInv ==
  ASSUME NEW P, Points(P), IInv(P), osTaskScanEnd
  PROVE  IInv(P)'
<1> DEFINE k1 == IF k.need THEN LOS_Schedule(k) ELSE k
<1>1. /\ k \in Kernel /\ Sound(k) /\ Dispatch(k, pc, P) /\ LockOK(k) /\ pc' = pc
      /\ \A t \in k.timer : k.left[t] # 0
      /\ k' = [k1 EXCEPT !.scan = FALSE, !.need = FALSE]
  BY DEF IInv, Typed, Dispatch, osTaskScanEnd, Expired
<1>2. k.lock > 0 => k.run \in TaskID /\ "READY" \in k.status[k.run]
  BY <1>1 DEF Dispatch
<1>3. /\ k1 \in Kernel /\ Sound(k1) /\ SameTimer(k, k1)
      /\ Dispatch([k1 EXCEPT !.need = FALSE], pc, P)
      /\ k1.status = k.status /\ k1.fault = k.fault
  <2>1. CASE k.need
    <3> DEFINE r == LOS_Schedule(k)
    <3>1. /\ Sound(r) /\ Dispatch(r, pc, P) /\ SameTimer(k, r) /\ SameTasks(k, r) /\ SameLists(k, r) /\ IsTop(r, r.new) /\ r.lock = k.lock
          /\ r.new = osPriqueueTop(r) /\ r \in Kernel
      BY <1>1, <1>2, ScheduleDispatch, ScheduleType
    <3>2. r.lock = 0 /\ ~r.pendSV => r.run = r.new
      BY <1>1 DEF LOS_Schedule, Kernel
    <3> HIDE DEF r
    <3> DEFINE q == [r EXCEPT !.need = FALSE]
    <3>3. /\ q \in Kernel /\ SameTasks(r, q) /\ SameLists(r, q) /\ q.timer = r.timer /\ q.left = r.left
          /\ q.run = r.run /\ q.new = r.new /\ q.lock = r.lock /\ q.pendSV = r.pendSV
          /\ q.need = FALSE /\ q.scan = r.scan
      BY <3>1 DEF Kernel, SameTasks, SameLists
    <3> HIDE DEF q
    <3>4. \A t \in r.timer : r.left[t] = 0 => r.scan
      BY <3>1 DEF Sound, TaskOK, Kernel
    <3>5. osPriqueueTop(q) = osPriqueueTop(r)
      BY <3>1, <3>3, <3>4, SoundFrame
    <3>6. Dispatch(q, pc, P)
      BY <3>1, <3>2, <3>3, <3>5 DEF Dispatch, LockOK, SameTasks
    <3> QED BY <2>1, <3>1, <3>6 DEF q, r, SameTasks, SameLists
  <2>2. CASE ~k.need
    <3>1. [k EXCEPT !.need = FALSE] = k
      BY <1>1, <2>2 DEF Kernel
    <3> QED BY <1>1, <2>2, <3>1 DEF SameTimer
  <2> QED BY <2>1, <2>2
<1> HIDE DEF k1
<1> DEFINE q == [k1 EXCEPT !.need = FALSE]
<1>4. /\ k' \in Kernel /\ SameTasks(k1, k') /\ SameLists(k1, k') /\ SameTimer(k1, k')
      /\ k'.run = k1.run /\ k'.need = FALSE
  BY <1>1, <1>3 DEF Kernel, SameTasks, SameLists, SameTimer
<1>5. /\ k'.run = q.run /\ k'.new = q.new /\ k'.lock = q.lock /\ k'.pendSV = q.pendSV
      /\ k'.need = q.need /\ SameTasks(q, k') /\ SameLists(q, k') /\ q \in Kernel
  BY <1>1, <1>3 DEF Kernel, SameTasks, SameLists
<1>6. q.need = FALSE /\ SameTasks(k1, q) /\ SameLists(k1, q) /\ SameTimer(k1, q) /\ q.run = k1.run
  BY <1>3 DEF Kernel, SameTasks, SameLists, SameTimer
<1> HIDE DEF q
<1>7. \A t \in k1.timer : k1.left[t] # 0
  BY <1>1, <1>3 DEF SameTimer
<1>8. Sound(k') /\ osPriqueueTop(k') = osPriqueueTop(k1)
  BY <1>3, <1>4, <1>7, SoundFrame DEF SameTimer
<1>9. osPriqueueTop(q) = osPriqueueTop(k1)
  BY <1>3, <1>5, <1>6, <1>7, SoundFrame DEF SameTimer
<1>10. Dispatch(k', pc, P)
  <2>1. Dispatch(q, pc, P)
    BY <1>3 DEF q
  <2> QED BY <1>5, <1>8, <1>9, <2>1 DEF Dispatch, LockOK, SameTasks
<1>11. Blocked(k', pc) /\ Sane(k', P)
  BY <1>3, <1>4 DEF IInv, Blocked, Sane, SameTasks, SameLists
<1> QED BY <1>1, <1>4, <1>8, <1>10, <1>11 DEF IInv, Typed

\* LOS_TaskDelete takes the task off the list it is on, if it is on one.
LEMMA UnlistEffect ==
  ASSUME NEW kn \in Kernel, ListsOK(kn), NEW t \in TaskID,
         "READY" \in kn.status[t] => kn.status[t] \cap Waiting = {},
         \A f, g \in kn.status[t] \cap Waiting : f = g,
         NEW r, r = IF "READY" \in kn.status[t] THEN MakeUnready(kn, t)
                    ELSE IF kn.status[t] \cap Waiting # {} THEN ListDelete(kn, t)
                    ELSE kn
  PROVE  /\ r \in Kernel /\ r.fault = kn.fault
         /\ SameTimer(kn, r) /\ SameSwitch(kn, r) /\ r.prio = kn.prio
         /\ r.status = [kn.status EXCEPT ![t] = @ \ {"READY"}]
         /\ \A w \in WaitList : r.list[w] = Unlink(kn.list[w], t)
         /\ \A m \in Kernel :
              /\ m.list = r.list /\ m.bitmap = r.bitmap /\ m.status[t] \cap (Waiting \cup {"READY"}) = {}
              /\ \A u \in TaskID \ {t} : m.status[u] = kn.status[u] /\ m.prio[u] = kn.prio[u]
              => ListsOK(m) /\ \A x : x # t /\ IsTop(kn, x) => IsTop(m, x)
<1>1. /\ t \in CB /\ TaskID \subseteq CB /\ kn.status \in [CB -> SUBSET Flag]
      /\ WaitList \subseteq ListHead /\ Pri \subseteq ListHead
  BY DEF Kernel, CB, ListHead
<1> DEFINE Like(c) ==
      /\ c \in Kernel /\ ListsOK(c) /\ c.list = r.list /\ c.bitmap = r.bitmap
      /\ c.status[t] \cap (Waiting \cup {"READY"}) = {}
      /\ \A u \in TaskID \ {t} : c.status[u] = kn.status[u] /\ c.prio[u] = kn.prio[u]
      /\ \A x : x # t /\ IsTop(kn, x) => IsTop(c, x)
<1>2. ASSUME NEW c, Like(c), NEW m \in Kernel,
             m.list = r.list, m.bitmap = r.bitmap, m.status[t] \cap (Waiting \cup {"READY"}) = {},
             \A u \in TaskID \ {t} : m.status[u] = kn.status[u] /\ m.prio[u] = kn.prio[u]
      PROVE  ListsOK(m) /\ \A x : x # t /\ IsTop(kn, x) => IsTop(m, x)
  <2>1. \A u \in TaskID \ {t} : m.status[u] = c.status[u] /\ m.prio[u] = c.prio[u]
    BY <1>2
  <2>2. /\ "READY" \notin m.status[t] /\ "READY" \notin c.status[t]
        /\ m.status[t] \cap Waiting = {} /\ c.status[t] \cap Waiting = {}
    BY <1>2
  <2>3. ListsOK(m)
    <3>1. c \in Kernel /\ ListsOK(c) /\ m.list = c.list /\ m.bitmap = c.bitmap
      BY <1>2
    <3> HIDE DEF Like
    <3> QED BY <2>1, <2>2, <3>1, ListsFrame
  <2>4. ASSUME NEW x, x # t, IsTop(kn, x) PROVE IsTop(m, x)
    <3>1. IsTop(c, x) /\ m.list = c.list
      BY <1>2, <2>4
    <3> QED BY ONLY <2>1, <2>2, <2>4, <3>1 DEF IsTop
  <2> QED BY <2>3, <2>4
<1>3. CASE "READY" \in kn.status[t]
  <2>1. r = MakeUnready(kn, t)
    BY <1>3
  <2>2. IsLinked(kn, t) /\ r \in Kernel /\ ListsOK(r)
    BY <1>3, <2>1, MakeUnreadyLists, MakeUnreadyType
  <2>3. /\ SameTimer(kn, r) /\ SameSwitch(kn, r) /\ r.prio = kn.prio /\ r.fault = kn.fault
        /\ r.status = [kn.status EXCEPT ![t] = @ \ {"READY"}]
        /\ r.list = [h \in ListHead |-> Unlink(kn.list[h], t)]
    BY ONLY <2>1, <2>2, kn \in Kernel, t \in TaskID, MakeUnreadyEffect
  <2>4. \A x : x # t /\ IsTop(kn, x) => IsTop(r, x)
    BY <1>3, <2>1, TopKept
  <2>5. Like(r)
    BY <1>1, <1>3, <2>2, <2>3, <2>4
  <2> HIDE DEF Like
  <2> QED BY <1>1, <1>2, <2>2, <2>3, <2>5
<1>4. CASE "READY" \notin kn.status[t] /\ kn.status[t] \cap Waiting # {}
  <2>1. r = ListDelete(kn, t)
    BY <1>4
  <2>2. PICK flag \in Waiting : kn.status[t] \cap Waiting = {flag}
    BY <1>4
  <2> DEFINE c == ClearFlags(r, t, {flag})
  <2>3. /\ c \in Kernel /\ ListsOK(c) /\ c.prio = kn.prio
        /\ c.status = [kn.status EXCEPT ![t] = @ \ {flag}]
        /\ c.list = [h \in ListHead |-> Unlink(kn.list[h], t)]
        /\ \A p \in Pri : c.list[p] = kn.list[p]
    BY <1>4, <2>1, <2>2, LeaveLists
  <2>4. IsLinked(kn, t) /\ r \in Kernel
    <3>1. \E w \in WaitList : t \in ToSet(kn.list[w])
      BY <1>4 DEF ListsOK
    <3> QED BY <1>1, <2>1, <3>1, ListDeleteType DEF IsLinked
  <2>5. /\ SameTimer(kn, r) /\ SameSwitch(kn, r) /\ SameTasks(kn, r) /\ r.fault = kn.fault
        /\ r.list = [h \in ListHead |-> Unlink(kn.list[h], t)]
    BY <2>1, <2>4, ListDeleteEffect
  <2>6. c.list = r.list /\ c.bitmap = r.bitmap
    <3>1. {flag} \in SUBSET Flag
      BY DEF Waiting, Flag
    <3> QED BY <1>1, <2>4, <3>1, FlagsEffect DEF SameLists
  <2> HIDE DEF c
  <2>7. c.status[t] = kn.status[t] \ {flag} /\ \A u \in CB \ {t} : c.status[u] = kn.status[u]
    BY <1>1, <2>3
  <2>8. ASSUME NEW x, IsTop(kn, x) PROVE IsTop(c, x)
    <3>1. x \in TaskID /\ "READY" \in kn.status[x] /\ kn.prio[x] \in Pri
      BY <2>8 DEF IsTop, Kernel
    <3>2. \A u \in TaskID : "READY" \in c.status[u] <=> "READY" \in kn.status[u]
      BY <1>1, <2>7 DEF Waiting
    <3> QED BY <2>3, <2>8, <3>1, <3>2 DEF IsTop
  <2>9. Like(c)
    <3>1. c.status[t] \cap (Waiting \cup {"READY"}) = {}
      BY <1>4, <2>2, <2>7
    <3> QED BY <1>1, <2>3, <2>6, <2>7, <2>8, <3>1
  <2>10. r.status = [kn.status EXCEPT ![t] = @ \ {"READY"}]
    BY <1>1, <1>4, <2>5 DEF SameTasks
  <2> HIDE DEF Like
  <2> QED BY <1>1, <1>2, <2>4, <2>5, <2>9, <2>10 DEF SameTasks
<1>5. CASE "READY" \notin kn.status[t] /\ kn.status[t] \cap Waiting = {}
  <2>1. r = kn
    BY <1>5
  <2>2. Like(kn)
    BY <1>5, <2>1
  <2>3. \A w \in WaitList : Unlink(kn.list[w], t) = kn.list[w]
    BY <1>1, <1>5, NotLinked DEF Unlink
  <2>4. kn.status = [kn.status EXCEPT ![t] = @ \ {"READY"}]
    BY <1>1, <1>5
  <2> HIDE DEF Like
  <2> QED BY <1>2, <2>1, <2>2, <2>3, <2>4 DEF SameTimer, SameSwitch
<1> QED BY <1>3, <1>4, <1>5

\* Deleting a task leaves the other tasks as they were.  A task whose timeout
\* has expired but that has not run since is not on the timeout list: deleting
\* it follows the NULL links of its node, see DeleteFaults.
LEMMA DeleteEffect ==
  ASSUME NEW kn \in Kernel, Sound(kn), NEW t \in Task, "UNUSED" \notin kn.status[t],
         t \in kn.timer \/ kn.status[t] \cap {"DELAY", "TIMEOUT"} = {}
  PROVE  LET r == TaskDelete(kn, t)
         IN  /\ r \in Kernel /\ Sound(r) /\ r.fault = kn.fault
             /\ r.pendSV = kn.pendSV /\ r.scan = kn.scan /\ r.need = kn.need
             /\ r.new = osPriqueueTop(r) /\ IsTop(r, r.new)
             /\ t = kn.run => r.run = Dummy /\ r.lock = 0
             /\ t # kn.run => r.run = kn.run /\ r.lock = kn.lock
             /\ r.status[t] = {"UNUSED"}
             /\ \A u \in TaskID : u # t => r.status[u] = kn.status[u] /\ r.prio[u] = kn.prio[u]
             /\ \A x : x # t /\ IsTop(kn, x) => IsTop(r, x)
             /\ \A w \in WaitList : r.list[w] = Unlink(kn.list[w], t)
<1> DEFINE st == kn.status[t]
           k1 == IF "RUNNING" \in st THEN [kn EXCEPT !.lock = 0] ELSE kn
           k2 == IF "READY" \in st THEN MakeUnready(k1, t)
                 ELSE IF st \cap Waiting # {} THEN ListDelete(k1, t)
                 ELSE k1
           k3 == IF st \cap {"DELAY", "TIMEOUT"} # {} THEN osTimerListDelete(k2, t) ELSE k2
           k4 == [k3 EXCEPT !.status[t] = {"UNUSED"}, !.new = osPriqueueTop(k3)]
           dead == (st \ {"READY", "SUSPEND"}) \cup {"UNUSED"}
           k5 == [k4 EXCEPT !.run = Dummy, !.status[Dummy] = dead]
           r  == IF "RUNNING" \in st THEN k5 ELSE k4
<1>0. TaskDelete(kn, t) = r
  BY DEF TaskDelete
<1>1. /\ t \in TaskID /\ t \in CB /\ t # Idle /\ t # Dummy /\ TaskOK(kn, t) /\ ListsOK(kn)
      /\ ("RUNNING" \in st <=> t = kn.run) /\ st \in SUBSET Flag
  BY TaskAssumption DEF Sound, RunOK, TaskID, CB, Kernel
<1>2. /\ "READY" \in st => st \cap Waiting = {}
      /\ \A f, g \in st \cap Waiting : f = g
      /\ t \in kn.timer <=> st \cap {"DELAY", "TIMEOUT"} # {}
  BY <1>1 DEF TaskOK, TaskBlock, Waiting
<1>3. /\ k1 \in Kernel /\ SameTasks(kn, k1) /\ SameLists(kn, k1) /\ SameTimer(kn, k1)
      /\ k1.run = kn.run /\ k1.new = kn.new /\ k1.pendSV = kn.pendSV
      /\ k1.scan = kn.scan /\ k1.need = kn.need
      /\ k1.lock = IF t = kn.run THEN 0 ELSE kn.lock
  BY <1>1 DEF Kernel, SameTasks, SameLists, SameTimer
<1> HIDE DEF k1
<1>4. ListsOK(k1) /\ k1.status[t] = st
  BY <1>1, <1>3, ListsFrame DEF SameTasks, SameLists
<1>5. /\ k2 \in Kernel /\ k2.fault = kn.fault
      /\ SameTimer(k1, k2) /\ SameSwitch(k1, k2) /\ k2.prio = kn.prio
      /\ k2.status = [kn.status EXCEPT ![t] = @ \ {"READY"}]
      /\ \A w \in WaitList : k2.list[w] = Unlink(kn.list[w], t)
      /\ \A m \in Kernel :
           /\ m.list = k2.list /\ m.bitmap = k2.bitmap /\ m.status[t] \cap (Waiting \cup {"READY"}) = {}
           /\ \A u \in TaskID \ {t} : m.status[u] = kn.status[u] /\ m.prio[u] = kn.prio[u]
           => ListsOK(m) /\ \A x : x # t /\ IsTop(kn, x) => IsTop(m, x)
  <2>1. k2 = IF "READY" \in k1.status[t] THEN MakeUnready(k1, t)
             ELSE IF k1.status[t] \cap Waiting # {} THEN ListDelete(k1, t)
             ELSE k1
    BY <1>4
  <2>2. \A x : IsTop(kn, x) => IsTop(k1, x)
    BY <1>3 DEF IsTop, SameTasks, SameLists
  <2> HIDE DEF k2, st
  <2>3. "READY" \in k1.status[t] => k1.status[t] \cap Waiting = {}
    BY <1>2, <1>4
  <2>4. \A f, g \in k1.status[t] \cap Waiting : f = g
    BY <1>2, <1>4
  <2>5. /\ k2 \in Kernel /\ k2.fault = k1.fault
        /\ SameTimer(k1, k2) /\ SameSwitch(k1, k2) /\ k2.prio = k1.prio
        /\ k2.status = [k1.status EXCEPT ![t] = @ \ {"READY"}]
        /\ \A w \in WaitList : k2.list[w] = Unlink(k1.list[w], t)
        /\ \A m \in Kernel :
             /\ m.list = k2.list /\ m.bitmap = k2.bitmap /\ m.status[t] \cap (Waiting \cup {"READY"}) = {}
             /\ \A u \in TaskID \ {t} : m.status[u] = k1.status[u] /\ m.prio[u] = k1.prio[u]
             => ListsOK(m) /\ \A x : x # t /\ IsTop(k1, x) => IsTop(m, x)
    BY ONLY <1>1, <1>3, <1>4, <2>1, <2>3, <2>4, UnlistEffect
  <2> QED BY <1>3, <2>2, <2>5 DEF SameTasks, SameLists
<1> HIDE DEF k2
<1>6. /\ k3 \in Kernel /\ k3.fault = kn.fault /\ k3.timer = kn.timer \ {t}
      /\ \A u \in TaskID \ {t} : k3.left[u] = kn.left[u]
      /\ SameTasks(k2, k3) /\ k3.list = k2.list /\ k3.bitmap = k2.bitmap /\ SameSwitch(k1, k3)
  <2>1. CASE t \in kn.timer
    <3>1. t \in k2.timer
      BY <1>3, <1>5, <2>1 DEF SameTimer
    <3>2. k3 = [k2 EXCEPT !.timer = @ \ {t}, !.left[t] = 0]
      BY <1>2, <2>1, <3>1 DEF osTimerListDelete
    <3> HIDE DEF k3
    <3>3. /\ k3 \in Kernel /\ k3.fault = k2.fault /\ k3.timer = k2.timer \ {t}
          /\ k3.left = [k2.left EXCEPT ![t] = 0]
      BY <1>1, <1>5, <3>2 DEF Kernel
    <3>4. SameTasks(k2, k3) /\ k3.list = k2.list /\ k3.bitmap = k2.bitmap /\ SameSwitch(k2, k3)
      BY <1>5, <3>2 DEF Kernel, SameTasks, SameSwitch
    <3>5. \A u \in TaskID \ {t} : k3.left[u] = k2.left[u]
      BY <1>1, <1>5, <3>3 DEF Kernel
    <3> QED BY <1>3, <1>5, <3>3, <3>4, <3>5 DEF SameTimer, SameSwitch
  <2>2. CASE t \notin kn.timer
    <3>1. k3 = k2
      BY <1>2, <2>2
    <3> QED BY <1>3, <1>5, <2>2, <3>1 DEF SameTimer, SameTasks, SameSwitch
  <2> QED BY <2>1, <2>2
<1> HIDE DEF k3
<1>7. /\ k4 \in Kernel /\ k4.new = osPriqueueTop(k3)
      /\ k4.status = [k3.status EXCEPT ![t] = {"UNUSED"}]
      /\ SameLists(k3, k4) /\ SameTimer(k3, k4) /\ k4.prio = k3.prio
      /\ k4.run = k3.run /\ k4.lock = k3.lock /\ k4.pendSV = k3.pendSV
      /\ k4.scan = k3.scan /\ k4.need = k3.need
  <2>1. k4 \in Kernel
    BY <1>6, TopType DEF Kernel, Flag
  <2> QED BY <1>6, <2>1 DEF Kernel, SameLists, SameTimer
<1> HIDE DEF k4
<1>8. /\ r \in Kernel /\ r.new = osPriqueueTop(k3)
      /\ \A u \in TaskID : r.status[u] = k4.status[u]
      /\ \A u \in CB \ {Dummy} : r.status[u] = k4.status[u]
      /\ SameLists(k3, r) /\ SameTimer(k3, r) /\ r.prio = k3.prio
      /\ r.lock = k3.lock /\ r.pendSV = k3.pendSV /\ r.scan = k3.scan /\ r.need = k3.need
      /\ r.run = IF t = kn.run THEN Dummy ELSE kn.run
      /\ r.status[Dummy] = IF t = kn.run THEN dead ELSE k4.status[Dummy]
  <2>1. dead \in SUBSET Flag /\ Dummy \in CB /\ Dummy \notin TaskID
    BY <1>1, TaskAssumption DEF Flag, CB
  <2>2. k3.run = kn.run
    BY <1>3, <1>6 DEF SameSwitch
  <2> HIDE DEF st
  <2>3. CASE "RUNNING" \in st
    <3>1. r = k5
      BY <2>3
    <3> HIDE DEF r, dead
    <3>2. /\ k5 \in Kernel /\ SameLists(k4, k5) /\ SameTimer(k4, k5) /\ k5.prio = k4.prio
          /\ k5.lock = k4.lock /\ k5.pendSV = k4.pendSV /\ k5.scan = k4.scan /\ k5.need = k4.need
          /\ k5.run = Dummy /\ k5.new = k4.new
          /\ k5.status = [k4.status EXCEPT ![Dummy] = dead]
      BY <1>7, <2>1 DEF Kernel, SameLists, SameTimer
    <3>3. /\ k5.status[Dummy] = dead
          /\ \A u \in CB \ {Dummy} : k5.status[u] = k4.status[u]
          /\ \A u \in TaskID : k5.status[u] = k4.status[u]
      BY ZenonT(60), <1>7, <2>1, <3>2 DEF Kernel, CB
    <3>4. t = kn.run
      BY <1>1, <2>3 DEF st
    <3> HIDE DEF k5
    <3> QED BY <1>7, <3>1, <3>2, <3>3, <3>4 DEF SameLists, SameTimer
  <2>4. CASE "RUNNING" \notin st
    <3>1. r = k4
      BY <2>4
    <3> QED BY <1>1, <1>7, <2>1, <2>2, <2>4, <3>1 DEF SameLists, SameTimer, st
  <2> QED BY <2>3, <2>4
<1>9. "RUNNING" \in dead <=> "RUNNING" \in st
  OBVIOUS
<1> HIDE DEF r, dead
<1>10. /\ r.status[t] = {"UNUSED"} /\ k3.status[t] = st \ {"READY"}
       /\ \A u \in CB \ {t} : k3.status[u] = kn.status[u]
       /\ \A u \in TaskID : u # t => r.status[u] = kn.status[u] /\ r.status[u] = k3.status[u]
       /\ t # kn.run => r.status[Dummy] = kn.status[Dummy]
  <2>1. k3.status = [kn.status EXCEPT ![t] = @ \ {"READY"}]
    BY <1>5, <1>6 DEF SameTasks
  <2>2. k4.status = [k3.status EXCEPT ![t] = {"UNUSED"}]
    BY <1>7
  <2>3. kn.status \in [CB -> SUBSET Flag] /\ Dummy \in CB /\ TaskID \subseteq CB
    BY DEF Kernel, CB
  <2> QED BY <1>1, <1>8, <2>1, <2>2, <2>3
<1>11. r.list = k2.list /\ r.bitmap = k2.bitmap /\ r.prio = kn.prio
  BY <1>5, <1>6, <1>8 DEF SameLists, SameTasks
<1>12. ListsOK(r) /\ \A x : x # t /\ IsTop(kn, x) => IsTop(r, x)
  <2>1. r.status[t] \cap (Waiting \cup {"READY"}) = {}
    BY <1>10 DEF Waiting
  <2> QED BY <1>5, <1>8, <1>10, <1>11, <2>1
<1>13. \A u \in TaskID : TaskOK(r, u)
  <2> TAKE u \in TaskID
  <2>1. TaskOK(kn, u)
    BY DEF Sound
  <2>2. r.scan = kn.scan /\ r.timer = kn.timer \ {t} /\ (u # t => r.left[u] = kn.left[u])
    BY <1>3, <1>6, <1>8 DEF SameSwitch, SameTimer
  <2>3. CASE u = t
    BY <1>10, <2>2, <2>3 DEF TaskOK, Waiting
  <2>4. CASE u # t
    BY <1>10, <2>1, <2>2, <2>4 DEF TaskOK
  <2> QED BY <2>3, <2>4
<1>14. RunOK(r)
  <2> SUFFICES ASSUME NEW u \in CB PROVE "RUNNING" \in r.status[u] <=> u = r.run
    BY DEF RunOK
  <2>1. "RUNNING" \in kn.status[u] <=> u = kn.run
    BY DEF Sound, RunOK
  <2>2. CASE u = t
    BY <1>1, <1>8, <1>10, <2>2
  <2>3. CASE u \in TaskID /\ u # t
    <3>1. u # Dummy
      BY <2>3, TaskAssumption
    <3> QED BY <1>8, <1>10, <2>1, <2>3, <3>1
  <2>4. CASE u = Dummy
    BY <1>1, <1>8, <1>9, <1>10, <2>1, <2>4
  <2> QED BY <2>2, <2>3, <2>4 DEF CB
<1>15. Sound(r)
  <2>1. "READY" \in r.status[Idle] /\ Idle \in TaskID
    BY <1>1, <1>10 DEF Sound, TaskID
  <2>2. r.need = kn.need /\ r.scan = kn.scan
    BY <1>3, <1>6, <1>8 DEF SameSwitch
  <2> QED BY <1>12, <1>13, <1>14, <2>1, <2>2 DEF Sound
<1>16. r.new = osPriqueueTop(r) /\ IsTop(r, r.new)
  <2>1. "READY" \in r.status[Idle] /\ Idle \in TaskID
    BY <1>1, <1>10 DEF Sound, TaskID
  <2>2. IsTop(r, osPriqueueTop(r))
    BY <1>8, <1>12, <2>1, TopFacts
  <2>3. osPriqueueTop(r) = osPriqueueTop(k3)
    BY <1>6, <1>11 DEF osPriqueueTop
  <2> QED BY <1>8, <2>2, <2>3
<1>17. \A w \in WaitList : r.list[w] = Unlink(kn.list[w], t)
  BY <1>5, <1>11
<1>18. r.fault = kn.fault
  BY <1>6, <1>8 DEF SameLists
<1>19. /\ r.pendSV = kn.pendSV /\ r.scan = kn.scan /\ r.need = kn.need
       /\ t = kn.run => r.run = Dummy /\ r.lock = 0
       /\ t # kn.run => r.run = kn.run /\ r.lock = kn.lock
  BY ONLY <1>3, <1>6, <1>8 DEF SameSwitch
<1> QED BY <1>0, <1>8, <1>10, <1>11, <1>12, <1>15, <1>16, <1>17, <1>18, <1>19

\* A timeout that has expired is not on the timeout list any more: the list
\* routine faults when LOS_TaskDelete looks at the flag alone.
LEMMA DeleteFaults ==
  ASSUME NEW kn \in Kernel, NEW t \in TaskID, t \notin kn.timer,
         kn.status[t] \cap {"DELAY", "TIMEOUT"} # {}
  PROVE  TaskDelete(kn, t).fault
<1> DEFINE st == kn.status[t]
           k1 == IF "RUNNING" \in st THEN [kn EXCEPT !.lock = 0] ELSE kn
           k2 == IF "READY" \in st THEN MakeUnready(k1, t)
                 ELSE IF st \cap Waiting # {} THEN ListDelete(k1, t)
                 ELSE k1
           k3 == IF st \cap {"DELAY", "TIMEOUT"} # {} THEN osTimerListDelete(k2, t) ELSE k2
           k4 == [k3 EXCEPT !.status[t] = {"UNUSED"}, !.new = osPriqueueTop(k3)]
           k5 == [k4 EXCEPT !.run = Dummy,
                            !.status[Dummy] = (st \ {"READY", "SUSPEND"}) \cup {"UNUSED"}]
<1>1. k1 \in Kernel /\ k1.timer = kn.timer
  BY DEF Kernel
<1> HIDE DEF k1
<1>2. k2 \in Kernel /\ k2.timer = kn.timer
  <2>1. MakeUnready(k1, t) \in Kernel /\ MakeUnready(k1, t).timer = k1.timer
    BY <1>1, MakeUnreadyType, MakeUnreadyEffect DEF SameTimer
  <2>2. ListDelete(k1, t) \in Kernel /\ ListDelete(k1, t).timer = k1.timer
    BY <1>1, ListDeleteType, ListDeleteEffect DEF SameTimer
  <2> QED BY ONLY <1>1, <2>1, <2>2
<1> HIDE DEF k2
<1>3. k3 = [k2 EXCEPT !.fault = TRUE]
  BY <1>2 DEF osTimerListDelete
<1>4. k3 \in Kernel /\ k3.fault
  BY <1>2, <1>3 DEF Kernel
<1> HIDE DEF k3
<1>5. k4.fault /\ k4 \in Kernel
  BY <1>4, TopType DEF Kernel, Flag
<1> HIDE DEF k4
<1>6. k5.fault
  BY <1>5 DEF Kernel
<1> QED BY <1>5, <1>6 DEF TaskDelete, k4, k3, k2, k1

\* LOS_TaskDelete keeps what the invariant says of the dispatch.
LEMMA DeleteDispatch ==
  ASSUME NEW kn \in Kernel, Sound(kn), NEW t \in Task, "UNUSED" \notin kn.status[t],
         t \in kn.timer \/ kn.status[t] \cap {"DELAY", "TIMEOUT"} = {},
         NEW P, NEW here, t = kn.run \/ Dispatch(kn, here, P),
         NEW b \in BOOLEAN, b => kn.pendSV \/ t = kn.run, kn.pendSV => b,
         NEW there, \A u \in TaskID : u # t => there[u] = here[u],
         NEW q, q = [TaskDelete(kn, t) EXCEPT !.pendSV = b]
  PROVE  q \in Kernel /\ Sound(q) /\ Dispatch(q, there, P)
<1> DEFINE r == TaskDelete(kn, t)
<1>1. /\ r \in Kernel /\ Sound(r)
      /\ r.pendSV = kn.pendSV /\ r.scan = kn.scan /\ r.need = kn.need
      /\ r.new = osPriqueueTop(r) /\ IsTop(r, r.new)
      /\ t = kn.run => r.run = Dummy /\ r.lock = 0
      /\ t # kn.run => r.run = kn.run /\ r.lock = kn.lock
      /\ \A u \in TaskID : u # t => r.status[u] = kn.status[u]
      /\ \A x : x # t /\ IsTop(kn, x) => IsTop(r, x)
  BY DeleteEffect
<1> HIDE DEF r
<1>2. /\ q \in Kernel /\ SameTasks(r, q) /\ SameLists(r, q) /\ SameTimer(r, q)
      /\ q.run = r.run /\ q.new = r.new /\ q.lock = r.lock /\ q.pendSV = b
      /\ q.need = r.need /\ q.scan = r.scan
  BY <1>1 DEF Kernel, SameTasks, SameLists, SameTimer, r
<1>3. \A u \in r.timer : r.left[u] = 0 => r.scan
  BY <1>1 DEF Sound, TaskOK, Kernel
<1>4. Sound(q) /\ osPriqueueTop(q) = osPriqueueTop(r)
  BY ZenonT(60), <1>1, <1>2, <1>3, SoundFrame DEF Sound, SameTimer
<1>5. q.new = osPriqueueTop(q) /\ q.new \in TaskID /\ "READY" \in q.status[q.new]
  BY <1>1, <1>2, <1>4 DEF IsTop, SameTasks
<1>6. Dummy \notin TaskID
  BY TaskAssumption
<1>7. CASE t = kn.run
  <2>1. q.run = Dummy /\ q.lock = 0 /\ q.run \notin TaskID
    BY <1>1, <1>2, <1>6, <1>7
  <2>2. LockOK(q)
    BY <2>1 DEF LockOK
  <2>3. ~(q.lock > 0)
    BY <2>1
  <2> HIDE DEF r
  <2> QED BY ONLY <1>2, <1>4, <1>5, <2>1, <2>2, <2>3 DEF Dispatch
<1>8. CASE t # kn.run
  <2>1. Dispatch(kn, here, P) /\ (b <=> kn.pendSV)
    BY <1>8
  <2>2. q.run = kn.run /\ q.lock = kn.lock /\ q.need = kn.need
    BY <1>1, <1>2, <1>8
  <2>3. kn.run \in TaskID => q.status[kn.run] = kn.status[kn.run] /\ there[kn.run] = here[kn.run]
    BY <1>1, <1>2, <1>8 DEF SameTasks
  <2>4. ASSUME kn.run = osPriqueueTop(kn)
        PROVE  q.run = osPriqueueTop(q)
    <3>1. IsTop(kn, kn.run)
      BY <2>4, TopFacts DEF Sound, TaskID
    <3>2. IsTop(r, kn.run)
      BY <1>1, <1>8, <3>1
    <3>3. osPriqueueTop(r) = kn.run
      BY <1>1, <3>2, TopFacts DEF Sound
    <3> QED BY <1>4, <2>2, <3>3
  <2>5. q.pendSV = kn.pendSV
    BY <1>2, <2>1, <1>1 DEF Kernel
  <2>6. LockOK(q)
    BY <2>1, <2>2, <2>5 DEF Dispatch, LockOK
  <2>7. q.run \in TaskID /\ ~q.pendSV /\ there[q.run] \notin P.window => "READY" \in q.status[q.run]
    BY <2>1, <2>2, <2>3, <2>5 DEF Dispatch
  <2>8. q.lock > 0 => q.run \in TaskID /\ "READY" \in q.status[q.run]
    BY <2>1, <2>2, <2>3, <2>5 DEF Dispatch
  <2>9. P.strict /\ ~q.need /\ q.run \in TaskID /\ ~q.pendSV /\ q.lock = 0 /\ there[q.run] \notin P.window =>
          q.run = osPriqueueTop(q)
    BY <2>1, <2>2, <2>3, <2>4, <2>5 DEF Dispatch
  <2> QED BY ONLY <1>2, <1>4, <1>5, <2>6, <2>7, <2>8, <2>9 DEF Dispatch
<1> QED BY <1>2, <1>4, <1>7, <1>8

\* Where tasks block a list routine may fail, and stops the system.
LEMMA HaltInv ==
  ASSUME NEW P, Points(P), IInv(P), P.all # PC, k' = [k EXCEPT !.fault = TRUE], pc' = pc
  PROVE  IInv(P)'
<1>1. /\ k \in Kernel /\ Sound(k) /\ Dispatch(k, pc, P)
  BY DEF IInv, Typed
<1>2. /\ k' \in Kernel /\ SameTasks(k, k') /\ SameTimer(k, k') /\ SameSwitch(k, k')
      /\ k'.list = k.list /\ k'.bitmap = k.bitmap
  BY <1>1 DEF Kernel, SameTasks, SameTimer, SameSwitch
<1>3. ListsOK(k')
  BY <1>1, <1>2, ListsFrame DEF Sound, SameTasks
<1>4. Sound(k')
  BY <1>1, <1>2, <1>3 DEF Sound, RunOK, TaskOK, SameTasks, SameTimer, SameSwitch
<1>5. osPriqueueTop(k') = osPriqueueTop(k)
  BY <1>2 DEF osPriqueueTop
<1>6. Dispatch(k', pc, P)
  BY <1>1, <1>2, <1>5 DEF Dispatch, LockOK, SameTasks, SameSwitch
<1> QED BY <1>2, <1>4, <1>6 DEF IInv, Typed, Blocked, Sane, SameTasks

\* LOS_TaskDelete keeps the invariant.
LEMMA DeleteInv ==
  ASSUME NEW P, Points(P), IInv(P), NEW ctx \in {"task", "isr"}, NEW t \in Task, LOS_TaskDelete(ctx, t)
  PROVE  IInv(P)'
<1> DEFINE r == TaskDelete(k, t)
           b == k.pendSV \/ (ctx = "isr" /\ t = k.run)
<1>1. /\ k \in Kernel /\ Sound(k) /\ Dispatch(k, pc, P) /\ "UNUSED" \notin k.status[t]
      /\ ~k.fault /\ t \in TaskID /\ TaskOK(k, t)
  BY DEF IInv, Typed, LOS_TaskDelete, Created, Calls, At, Runs, TaskID, Sound
<1>2. CASE t \in k.timer \/ k.status[t] \cap {"DELAY", "TIMEOUT"} = {}
  <2>1. /\ r \in Kernel /\ ~r.fault /\ r.pendSV = k.pendSV /\ r.status[t] = {"UNUSED"}
        /\ \A u \in TaskID : u # t => r.status[u] = k.status[u]
    BY <1>1, <1>2, DeleteEffect
  <2> HIDE DEF r
  <2>2. /\ k' = [r EXCEPT !.pendSV = b] /\ pc' = [pc EXCEPT ![t] = "user"]
    BY <2>1 DEF LOS_TaskDelete, r
  <2>3. b \in BOOLEAN /\ (b => k.pendSV \/ t = k.run) /\ (k.pendSV => b)
    BY <1>1 DEF Kernel
  <2>4. pc' \in [TaskID -> P.all] /\ pc'[t] = "user" /\ \A u \in TaskID : u # t => pc'[u] = pc[u]
    BY <1>1, <2>2 DEF IInv, Typed, Points, PC
  <2> HIDE DEF b
  <2>5. k' \in Kernel /\ Sound(k') /\ Dispatch(k', pc', P)
    <3>1. k' = [TaskDelete(k, t) EXCEPT !.pendSV = b]
      BY <2>2 DEF r
    <3>2. t = k.run \/ Dispatch(k, pc, P)
      BY <1>1
    <3> QED BY ONLY <1>1, <1>2, <2>3, <2>4, <3>1, <3>2, t \in Task, DeleteDispatch
  <2>6. k'.status = r.status /\ k'.fault = r.fault
    BY <2>1, <2>2 DEF Kernel
  <2>7. Blocked(k', pc')
    BY <2>1, <2>4, <2>6 DEF IInv, Blocked, Limbo, Waiting
  <2> QED BY <2>1, <2>4, <2>5, <2>6, <2>7 DEF IInv, Typed, Sane
<1>3. CASE ~(t \in k.timer \/ k.status[t] \cap {"DELAY", "TIMEOUT"} = {})
  <2>1. TaskDelete(k, t).fault
    BY <1>1, <1>3, DeleteFaults
  <2>2. k' = [k EXCEPT !.fault = TRUE] /\ pc' = pc
    BY <2>1 DEF LOS_TaskDelete, Halt
  <2>3. P.all # PC
    <3>1. "TIMEOUT" \in k.status[t]
      BY <1>1, <1>3 DEF TaskOK
    <3> QED BY <1>1, <3>1 DEF IInv, Typed, Blocked, Limbo
  <2> QED BY <1>1, <2>2, <2>3, HaltInv
<1> QED BY <1>2, <1>3

\* The return of a task function, which gives up the scheduler lock, keeps the
\* invariant.
LEMMA EntryInv ==
  ASSUME NEW P, Points(P), IInv(P), osTaskEntry
  PROVE  IInv(P)'
<1>1. /\ k.run \in TaskID /\ k.run # Dummy /\ ~k.pendSV /\ pc[k.run] = "user"
      /\ k' = [k EXCEPT !.lock = 0] /\ pc' = [pc EXCEPT ![k.run] = "exit"]
  BY TaskAssumption DEF osTaskEntry, Goto, Calls, At, Runs, IInv, Typed
<1>2. /\ k' \in Kernel /\ Sound(k')
      /\ k'.lock = 0 /\ k'.run = k.run /\ k'.pendSV = k.pendSV
      /\ k'.status = k.status /\ k'.fault = k.fault
  BY <1>1, LockFrame
<1>3. pc' \in [TaskID -> P.all] /\ pc'[k.run] = "exit"
  BY <1>1 DEF IInv, Typed, Points, PC
<1>4. Dispatch(k', pc', P)
  BY <1>1, <1>2, <1>3 DEF Dispatch, LockOK, Points
<1>5. Blocked(k', pc') /\ Sane(k', P)
  BY <1>1, <1>2 DEF IInv, Typed, Blocked, Sane, PC
<1> QED BY <1>2, <1>3, <1>4, <1>5 DEF IInv, Typed

\* A task at the end of osTaskEntry has none of the flags of a wait.
LEMMA EntryAtEnd ==
  ASSUME NEW P, Points(P), IInv(P), osTaskEntryDelete
  PROVE  /\ k.run \in Task /\ k.run \in TaskID /\ ~k.pendSV /\ ~k.fault
         /\ k' = TaskDelete(k, k.run) /\ pc' = [pc EXCEPT ![k.run] = "user"]
         /\ pc[k.run] = "exit" /\ "UNUSED" \notin k.status[k.run]
         /\ k.run \in k.timer \/ k.status[k.run] \cap {"DELAY", "TIMEOUT"} = {}
<1>1. /\ k.run \in Task /\ k.run \in TaskID /\ ~k.pendSV /\ ~k.fault
      /\ k' = TaskDelete(k, k.run) /\ pc' = [pc EXCEPT ![k.run] = "user"] /\ pc[k.run] = "exit"
  BY DEF osTaskEntryDelete, Goto, At, Runs, TaskID
<1>2. TaskOK(k, k.run) /\ "RUNNING" \in k.status[k.run]
  BY <1>1 DEF IInv, Sound, RunOK, TaskID, CB
<1>3. k.status[k.run] \cap Limbo = {}
  BY <1>1 DEF IInv, Blocked, PC
<1> QED BY <1>1, <1>2, <1>3 DEF TaskOK, Limbo

\* The LOS_TaskDelete at the end of osTaskEntry keeps the invariant.
LEMMA EntryDeleteInv ==
  ASSUME NEW P, Points(P), IInv(P), osTaskEntryDelete
  PROVE  IInv(P)'
<1> DEFINE r == TaskDelete(k, k.run)
<1>0. PICK t : t = k.run
  OBVIOUS
<1>1. /\ t \in Task /\ t \in TaskID /\ k' = r /\ pc' = [pc EXCEPT ![t] = "user"]
      /\ ~k.pendSV /\ ~k.fault /\ "UNUSED" \notin k.status[t]
      /\ t \in k.timer \/ k.status[t] \cap {"DELAY", "TIMEOUT"} = {}
      /\ k \in Kernel /\ Sound(k) /\ r = TaskDelete(k, t)
  BY <1>0, EntryAtEnd DEF IInv, Typed
<1> HIDE DEF r
<1>2. /\ r \in Kernel /\ r.pendSV = k.pendSV /\ r.fault = k.fault /\ r.status[t] = {"UNUSED"}
      /\ \A u \in TaskID : u # t => r.status[u] = k.status[u]
  BY <1>1, DeleteEffect
<1>3. r = [TaskDelete(k, t) EXCEPT !.pendSV = k.pendSV] /\ k.pendSV \in BOOLEAN
  BY <1>1, <1>2 DEF Kernel
<1>4. pc' \in [TaskID -> P.all] /\ pc'[t] = "user" /\ \A u \in TaskID : u # t => pc'[u] = pc[u]
  BY <1>1 DEF IInv, Typed, Points, PC
<1>5. k' \in Kernel /\ Sound(k') /\ Dispatch(k', pc', P)
  <2>1. t = k.run \/ Dispatch(k, pc, P)
    BY <1>0
  <2>2. k' = [TaskDelete(k, t) EXCEPT !.pendSV = k.pendSV]
    BY <1>1, <1>3
  <2> QED BY ONLY <1>1, <1>3, <1>4, <2>1, <2>2, DeleteDispatch
<1>6. Blocked(k', pc') /\ Sane(k', P)
  BY <1>1, <1>2, <1>4 DEF IInv, Blocked, Limbo, Waiting, Sane
<1> QED BY <1>4, <1>5, <1>6 DEF IInv, Typed

\* LOS_TaskCreate keeps the invariant.
LEMMA CreateInv ==
  ASSUME NEW P, Points(P), IInv(P), NEW ctx \in {"task", "isr"}, NEW t \in Task, NEW p \in Pri,
         LOS_TaskCreate(ctx, t, p)
  PROVE  IInv(P)'
<1> DEFINE k1 == [k EXCEPT !.status[t] = {"SUSPEND"}, !.prio[t] = p]
           c1 == ClearFlags(k1, t, {"SUSPEND"})
           k2 == MakeReady(c1, t)
           k3 == [k2 EXCEPT !.new = osPriqueueTop(k2)]
           k4 == [k3 EXCEPT !.pendSV = @ \/ (k3.lock = 0 /\ k3.run # k3.new)]
<1>1. /\ k \in Kernel /\ Sound(k) /\ ListsOK(k) /\ TaskOK(k, t)
      /\ t \in TaskID /\ t \in CB /\ t # Idle /\ k.status[t] = {"UNUSED"}
      /\ k' = k4 /\ pc' = pc
  BY TaskAssumption DEF IInv, Typed, Sound, TaskOK, TaskID, CB, LOS_TaskCreate, Created, ThenReturn
<1>2. c1 \in Kernel /\ c1.status = [k.status EXCEPT ![t] = {}] /\ c1.prio = [k.prio EXCEPT ![t] = p]
      /\ SameTimer(k, c1) /\ SameSwitch(k, c1) /\ SameLists(k, c1)
  <2>1. /\ k1 \in Kernel /\ k1.status = [k.status EXCEPT ![t] = {"SUSPEND"}]
        /\ k1.prio = [k.prio EXCEPT ![t] = p]
        /\ SameTimer(k, k1) /\ SameSwitch(k, k1) /\ SameLists(k, k1)
    BY <1>1 DEF Kernel, Flag, SameTimer, SameSwitch, SameLists
  <2> HIDE DEF k1
  <2>2. {"SUSPEND"} \in SUBSET Flag
    BY DEF Flag
  <2>3. /\ c1 \in Kernel /\ SameTimer(k1, c1) /\ SameSwitch(k1, c1) /\ SameLists(k1, c1)
        /\ c1.prio = k1.prio
    BY <1>1, <2>1, <2>2, FlagsType, FlagsEffect
  <2>4. c1.status = [k1.status EXCEPT ![t] = {}]
    <3>1. k1.status[t] \ {"SUSPEND"} = {}
      BY <1>1, <2>1 DEF Kernel
    <3> QED BY <1>1, <2>1, <3>1 DEF ClearFlags, Kernel
  <2> HIDE DEF c1
  <2>5. c1.status = [k.status EXCEPT ![t] = {}]
    BY <1>1, <2>1, <2>4 DEF Kernel
  <2>6. SameTimer(k, c1) /\ SameSwitch(k, c1) /\ SameLists(k, c1)
    BY <2>1, <2>3 DEF SameTimer, SameSwitch, SameLists
  <2> QED BY <2>1, <2>3, <2>5, <2>6
<1> HIDE DEF c1
<1>3. /\ c1.status[t] = {} /\ \A u \in CB \ {t} : c1.status[u] = k.status[u]
      /\ \A u \in TaskID : u # t => c1.status[u] = k.status[u] /\ c1.prio[u] = k.prio[u]
  BY <1>1, <1>2 DEF Kernel, CB
<1>4. ListsOK(c1)
  <2>1. k.status[t] \cap Waiting = {} /\ c1.status[t] \cap Waiting = {}
    BY <1>1, <1>3 DEF Waiting
  <2>2. "READY" \notin k.status[t] /\ "READY" \notin c1.status[t]
    BY <1>1, <1>3
  <2> QED BY <1>1, <1>2, <1>3, <2>1, <2>2, ListsFrame DEF SameLists
<1>5. /\ k2 \in Kernel /\ ListsOK(k2) /\ SameTimer(c1, k2) /\ SameSwitch(c1, k2)
      /\ k2.fault = c1.fault /\ k2.status = [c1.status EXCEPT ![t] = @ \cup {"READY"}]
  <2>1. "READY" \notin c1.status[t] /\ c1.status[t] \cap Waiting = {}
    BY <1>3
  <2> QED BY ZenonT(60), <1>1, <1>2, <1>4, <2>1, MakeReadyType, MakeReadyLists, MakeReadyEffect
<1> HIDE DEF k2
<1>6. /\ k2.status[t] = {"READY"} /\ \A u \in CB \ {t} : k2.status[u] = k.status[u]
      /\ SameTimer(k, k2) /\ SameSwitch(k, k2) /\ k2.fault = k.fault
  BY <1>1, <1>2, <1>3, <1>5 DEF Kernel, SameTimer, SameSwitch, SameLists, Sound
<1>7. Sound(k2)
  <2>1. TaskOK(k2, t)
    BY <1>1, <1>6 DEF TaskOK, TaskBlock, Waiting, SameTimer, SameSwitch
  <2> QED BY <1>1, <1>5, <1>6, <2>1, OneTask DEF SameTimer
<1>8. LockOK(k2)
  BY <1>6 DEF IInv, Dispatch, LockOK, SameSwitch
<1>9. k2.lock > 0 => k2.run \in TaskID /\ "READY" \in k2.status[k2.run]
  <2>1. \A u \in CB : "READY" \in k.status[u] => "READY" \in k2.status[u]
    BY <1>6
  <2> QED BY <1>6, <2>1 DEF IInv, Dispatch, SameSwitch, CB
<1>10. k4 = LOS_Schedule(k2)
  BY <1>5 DEF LOS_Schedule, Kernel
<1> HIDE DEF k4
<1>11. k4 \in Kernel /\ Sound(k4) /\ Dispatch(k4, pc, P)
  BY <1>5, <1>7, <1>8, <1>9, <1>10, ScheduleDispatch, ScheduleType
<1>12. k4.status = k2.status /\ k4.fault = k2.fault
  BY <1>5, <1>10, ScheduleFrame DEF SameTasks, SameLists
<1>13. Blocked(k4, pc)
  BY <1>6, <1>12 DEF IInv, Blocked, Limbo, Waiting, CB
<1> QED BY <1>1, <1>6, <1>11, <1>12, <1>13 DEF IInv, Typed, Sane

-----------------------------------------------------------------------------
(* LOS_Start establishes the invariant *)

\* The state LOS_Start leaves satisfies the invariant.
LEMMA InitInv ==
  ASSUME NEW P, Points(P), Init
  PROVE  IInv(P)
<1>1. Typed(P) /\ k \in Kernel
  BY InitType DEF Typed
<1>2. /\ k.status = [t \in CB |-> IF t = First THEN {"READY", "RUNNING"}
                                  ELSE IF t \in BootTasks THEN {"READY"} ELSE {"UNUSED"}]
      /\ k.prio = [t \in TaskID |-> BootPrio(t)]
      /\ k.list = [h \in ListHead |-> IF h \in Pri THEN BootQueue[h] ELSE <<>>]
      /\ k.bitmap = BootBitmap /\ k.timer = {} /\ k.run = First /\ k.new = First /\ k.lock = 0
      /\ ~k.pendSV /\ ~k.scan /\ ~k.need /\ ~k.fault
  BY DEF Init, KernelInit
<1>3. /\ First \in BootTasks /\ BootTasks \subseteq TaskID /\ First \in TaskID /\ First # Dummy
      /\ TaskID \subseteq CB /\ Dummy \notin BootTasks
  BY FirstType, TaskAssumption DEF CB
<1>4. \A t \in TaskID : "READY" \in k.status[t] <=> t \in BootTasks
  BY <1>2, <1>3
<1>5. \A p \in Pri : k.list[p] = BootQueue[p] /\ p \in ListHead
  BY <1>2 DEF ListHead
<1>6. \A w \in WaitList : k.list[w] = <<>>
  BY <1>2, WaitListAssumption DEF ListHead
<1>7. \A t, p : p \in Pri /\ t \in ToSet(BootQueue[p]) => t \in BootTasks /\ BootPrio(t) = p
  <2> SUFFICES ASSUME NEW p \in Pri, NEW t \in ToSet(BootQueue[p])
               PROVE  t \in BootTasks /\ BootPrio(t) = p
    OBVIOUS
  <2>1. t \in BootTasks
    BY DEF BootTasks
  <2>2. \A q \in Pri : t \in ToSet(BootQueue[q]) => q = p
    BY BootAssumption DEF ToSet
  <2>3. BootPrio(t) = CHOOSE q \in Pri : t \in ToSet(BootQueue[q])
    BY <2>1 DEF BootPrio
  <2>4. BootPrio(t) \in Pri /\ t \in ToSet(BootQueue[BootPrio(t)])
    BY <2>3
  <2> QED BY <2>1, <2>2, <2>4
<1>8. \A t \in BootTasks : BootPrio(t) \in Pri /\ t \in ToSet(BootQueue[BootPrio(t)])
  <2> TAKE t \in BootTasks
  <2>1. PICK p \in Pri : t \in ToSet(BootQueue[p])
    BY DEF BootTasks
  <2> QED BY <2>1, <1>7
<1>9. ToSet(<<>>) = {}
  BY DEF ToSet
<1>10. ListsOK(k)
  <2>1. \A h \in ListHead : IsInjective(k.list[h])
    <3> TAKE h \in ListHead
    <3>1. CASE h \in Pri
      BY <1>5, <3>1, BootAssumption DEF IsInjective
    <3>2. CASE h \in WaitList
      BY <1>6, <3>2 DEF IsInjective
    <3> QED BY <3>1, <3>2 DEF ListHead
  <2>2. \A g, h \in ListHead : g # h => ToSet(k.list[g]) \cap ToSet(k.list[h]) = {}
    <3> SUFFICES ASSUME NEW g \in ListHead, NEW h \in ListHead, NEW t,
                        t \in ToSet(k.list[g]), t \in ToSet(k.list[h])
                 PROVE  g = h
      OBVIOUS
    <3>1. g \in Pri /\ h \in Pri
      BY <1>6, <1>9 DEF ListHead
    <3> QED BY <1>5, <1>7, <3>1
  <2>3. \A t \in TaskID, p \in Pri :
          t \in ToSet(k.list[p]) <=> "READY" \in k.status[t] /\ k.prio[t] = p
    <3> TAKE t \in TaskID, p \in Pri
    <3>1. k.prio[t] = BootPrio(t)
      BY <1>2
    <3> QED BY <1>4, <1>5, <1>7, <1>8, <3>1
  <2>4. \A t \in TaskID :
          (\E w \in WaitList : t \in ToSet(k.list[w])) <=> k.status[t] \cap Waiting # {}
    <3> TAKE t \in TaskID
    <3>1. k.status[t] \cap Waiting = {}
      BY <1>2, <1>3 DEF Waiting
    <3> QED BY <1>6, <1>9, <3>1
  <2>5. k.bitmap = {p \in Pri : k.list[p] # <<>>}
    BY <1>2, <1>5 DEF BootBitmap
  <2> QED BY <2>1, <2>2, <2>3, <2>4, <2>5 DEF ListsOK
<1>11. Idle \in BootTasks
  <2>1. Lowest \in Pri /\ BootQueue[Lowest] = <<Idle>>
    BY LowestAssumption, BootAssumption DEF Pri
  <2>2. 1 \in DOMAIN <<Idle>> /\ <<Idle>>[1] = Idle
    OBVIOUS
  <2>3. Idle \in ToSet(BootQueue[Lowest])
    BY <2>1, <2>2 DEF ToSet
  <2> QED BY <1>7, <2>1, <2>3
<1>12. Sound(k)
  <2>1. RunOK(k)
    BY <1>2 DEF RunOK
  <2>2. \A t \in TaskID : TaskOK(k, t)
    BY <1>2, <1>3 DEF TaskOK, TaskBlock, Waiting
  <2>3. "READY" \in k.status[Idle]
    BY <1>3, <1>4, <1>11
  <2> QED BY <1>2, <1>10, <2>1, <2>2, <2>3 DEF Sound
<1>13. osPriqueueTop(k) = First
  <2> DEFINE u == CHOOSE p \in BootBitmap : \A q \in BootBitmap : p <= q
  <2>1. Lowest \in BootBitmap /\ BootBitmap \subseteq Pri /\ Pri \subseteq Nat
    <3>1. Lowest \in Pri /\ Pri \subseteq Nat
      BY LowestAssumption DEF Pri
    <3>2. BootQueue[Lowest] # <<>>
      BY BootAssumption
    <3> QED BY <3>1, <3>2 DEF BootBitmap
  <2>2. u \in BootBitmap /\ \A q \in BootBitmap : u <= q
    BY <2>1, MostUrgent
  <2>3. First = Head(BootQueue[u])
    BY DEF First
  <2> HIDE DEF u
  <2>4. First \in ToSet(BootQueue[u]) /\ u \in Pri
    <3>1. BootQueue[u] \in Seq(TaskID) /\ BootQueue[u] # <<>> /\ u \in Pri
      BY <2>1, <2>2, BootAssumption DEF BootBitmap
    <3>2. Head(BootQueue[u]) = BootQueue[u][1] /\ 1 \in DOMAIN BootQueue[u]
      BY <3>1, HeadTailProperties, LenProperties, EmptySeq
    <3> QED BY <2>3, <3>1, <3>2 DEF ToSet
  <2>5. k.prio[First] = u
    BY <1>2, <1>3, <1>7, <2>4
  <2>6. \A t \in TaskID : "READY" \in k.status[t] => u <= k.prio[t]
    <3> SUFFICES ASSUME NEW t \in TaskID, "READY" \in k.status[t] PROVE u <= k.prio[t]
      OBVIOUS
    <3>1. t \in BootTasks /\ k.prio[t] = BootPrio(t)
      BY <1>2, <1>4
    <3>2. BootPrio(t) \in Pri /\ BootQueue[BootPrio(t)] # <<>>
      BY <1>8, <1>9, <3>1
    <3>3. BootPrio(t) \in BootBitmap
      BY <3>2 DEF BootBitmap
    <3> QED BY <2>2, <3>1, <3>3
  <2>7. IsTop(k, First)
    BY <1>3, <1>4, <1>5, <2>3, <2>4, <2>5, <2>6 DEF IsTop
  <2> QED BY <1>1, <1>10, <2>7, TopFacts
<1>14. Dispatch(k, pc, P)
  BY <1>2, <1>3, <1>4, <1>13 DEF Dispatch, LockOK
<1>15. Blocked(k, pc)
  BY <1>2, <1>3 DEF Blocked, Limbo, Waiting
<1>16. Sane(k, P)
  BY DEF Init, KernelInit, Sane
<1> QED BY <1>1, <1>12, <1>14, <1>15, <1>16 DEF IInv

\* Every step keeps the invariant, while the handlers keep to their rules.
LEMMA StepInv ==
  ASSUME ~IsrRaces, NEW P, Points(P), IInv(P), [Next]_vars
  PROVE  IInv(P)'
<1>1. CASE TaskNext
  BY <1>1, CreateOnlyInv, CreateInv, ResumeInv, SuspendInv, DeleteInv, PriSetInv, DelayInv,
     EntryInv, EntryDeleteInv, YieldInv, LockInv, UnlockInv DEF TaskNext
<1>3. CASE KernelNext
  BY <1>3, ScheduleInv, DeadTaskInv, PendSVInv, TickInv, ScanInv, ScanEndInv DEF KernelNext
<1>4. CASE UNCHANGED vars
  BY <1>4 DEF vars, IInv, Typed
<1> QED BY <1>1, <1>3, <1>4 DEF Next

\* The invariant holds in every state, if handlers keep to their rules.
LEMMA Invariance ==
  ASSUME ~IsrRaces
  PROVE  Spec => []IInv(TaskPoints)
<1>0. Points(TaskPoints)
  BY DEF Points, TaskPoints
<1>1. Init => IInv(TaskPoints)
  BY <1>0, InitInv
<1>2. IInv(TaskPoints) /\ [Next]_vars => IInv(TaskPoints)'
  BY <1>0, StepInv
<1> QED BY <1>1, <1>2, PTL DEF Spec

-----------------------------------------------------------------------------
(***************************************************************************)
(* The steps of calls that block.  A module that adds such calls keeps     *)
(* IInv(P) by these lemmas.                                                *)
(***************************************************************************)

\* kn is k after a change of priorities.
Repriced(kn) ==
  /\ kn \in Kernel /\ Sound(kn) /\ SameSwitch(k, kn)
  /\ kn.status = k.status /\ kn.fault = k.fault
  /\ \A w \in WaitList : kn.list[w] = k.list[w]

\* A kernel state is one in which no priority was changed.
LEMMA SameRepriced ==
  ASSUME NEW P, IInv(P)
  PROVE  Repriced(k)
BY DEF IInv, Typed, Repriced, SameSwitch

\* The running task at point c: it is ready, and no switch is pending.
LEMMA AtFacts ==
  ASSUME NEW P, Points(P), IInv(P), NEW c, At(c), c \notin P.window
  PROVE  /\ k.run \in TaskID /\ k.run \in CB /\ k.run # Dummy /\ ~k.pendSV /\ ~k.fault
         /\ pc[k.run] = c /\ "READY" \in k.status[k.run] /\ k.status[k.run] \cap Waiting = {}
         /\ "UNUSED" \notin k.status[k.run]
         /\ c \in PC => k.status[k.run] \cap Limbo = {}
<1>1. k.run \in TaskID /\ k.run # Dummy /\ ~k.pendSV /\ ~k.fault /\ pc[k.run] = c
  BY TaskAssumption DEF At, Runs
<1>2. "READY" \in k.status[k.run] /\ TaskOK(k, k.run)
  BY <1>1 DEF IInv, Dispatch, Sound
<1>3. k.status[k.run] \cap Waiting = {} /\ "UNUSED" \notin k.status[k.run]
  BY <1>2 DEF TaskOK, TaskBlock, Waiting
<1>4. c \in PC => k.status[k.run] \cap Limbo = {}
  BY <1>1 DEF IInv, Blocked
<1> QED BY <1>1, <1>2, <1>3, <1>4 DEF CB

\* osTaskWait of the running task, which goes on to call LOS_Schedule.
LEMMA BlocksAt ==
  ASSUME NEW P, Points(P), IInv(P), NEW here, At(here), here \notin P.window, k.run \in Task,
         k.status[k.run] \cap Limbo = {}, k.lock = 0,
         NEW kn, Repriced(kn), NEW w \in WaitList, NEW flag \in Waiting, NEW n \in Nat,
         NEW c \in P.all, c \in P.window, c \notin PC,
         k' = osTaskWait(kn, w, flag, n), Goto(c)
  PROVE  /\ IInv(P)' /\ k.run \in Task /\ pc' = [pc EXCEPT ![k.run] = c]
         /\ \A v \in WaitList : k'.list[v] = IF v = w THEN Append(k.list[v], k.run) ELSE k.list[v]
         /\ \A u \in CB \ {k.run} : k'.status[u] = k.status[u]
         /\ k'.status[k.run] = (k.status[k.run] \ {"READY"})
                                 \cup {flag} \cup (IF n = Forever THEN {} ELSE {"TIMEOUT"})
         /\ k'.fault = k.fault /\ k'.prio = kn.prio
<1>0. PICK t : t = k.run
  OBVIOUS
<1>1. /\ t \in TaskID /\ t \in CB /\ t \in Task /\ t # Idle /\ t # Dummy
      /\ "READY" \in k.status[t] /\ ~k.pendSV
      /\ k.status[t] \cap Limbo = {} /\ k.status[t] \cap Waiting = {} /\ "UNUSED" \notin k.status[t]
  BY <1>0, AtFacts, TaskAssumption
<1>2. /\ kn \in Kernel /\ ListsOK(kn) /\ kn.run = t /\ TaskOK(kn, t) /\ SameSwitch(k, kn)
      /\ kn.status = k.status /\ kn.fault = k.fault
      /\ \A v \in WaitList : kn.list[v] = k.list[v]
  BY <1>0, <1>1 DEF Repriced, Sound, SameSwitch
<1>3. /\ k' \in Kernel /\ ListsOK(k') /\ SameSwitch(kn, k')
      /\ k'.prio = kn.prio /\ k'.fault = kn.fault
      /\ k'.status = [kn.status EXCEPT ![t] =
                        (@ \ {"READY"}) \cup {flag} \cup (IF n = Forever THEN {} ELSE {"TIMEOUT"})]
      /\ k'.timer = IF n = Forever THEN kn.timer ELSE kn.timer \cup {t}
      /\ k'.left = IF n = Forever THEN kn.left ELSE [kn.left EXCEPT ![t] = n]
      /\ \A v \in WaitList : k'.list[v] = IF v = w THEN Append(kn.list[v], t) ELSE kn.list[v]
  <2>1. \A r : r = osTaskWait(kn, w, flag, n) =>
          /\ r \in Kernel /\ ListsOK(r) /\ SameSwitch(kn, r)
          /\ r.prio = kn.prio /\ r.fault = kn.fault
          /\ r.status = [kn.status EXCEPT ![t] =
                           (@ \ {"READY"}) \cup {flag} \cup (IF n = Forever THEN {} ELSE {"TIMEOUT"})]
          /\ r.timer = IF n = Forever THEN kn.timer ELSE kn.timer \cup {t}
          /\ r.left = IF n = Forever THEN kn.left ELSE [kn.left EXCEPT ![t] = n]
          /\ \A v \in WaitList : r.list[v] = IF v = w THEN Append(kn.list[v], t) ELSE kn.list[v]
    <3>1. "READY" \in kn.status[t] /\ kn.status[t] \cap Waiting = {}
      BY <1>1, <1>2
    <3>2. kn \in Kernel /\ ListsOK(kn) /\ t \in TaskID /\ t = kn.run
      BY <1>1, <1>2
    <3>3. w \in WaitList /\ flag \in Waiting /\ n \in Nat
      OBVIOUS
    <3> QED BY ONLY <3>1, <3>2, <3>3, WaitEffect
  <2> QED BY <2>1
<1>4. /\ k'.status[t] = (k.status[t] \ {"READY"}) \cup {flag} \cup (IF n = Forever THEN {} ELSE {"TIMEOUT"})
      /\ \A u \in CB \ {t} : k'.status[u] = k.status[u]
  BY <1>1, <1>2, <1>3 DEF Kernel
<1>5. TaskOK(k', t)
  <2>1. \A f \in Flag : f \in k.status[t] => f \notin TaskBlock
    BY <1>1, <1>2 DEF TaskOK
  <2>2. t \notin kn.timer
    BY <1>1, <1>2 DEF TaskOK, TaskBlock
  <2>3. "DELAY" \notin k.status[t]
    BY <1>1, <1>2 DEF TaskOK, TaskBlock
  <2>4. /\ "UNUSED" \notin k'.status[t] /\ "READY" \notin k'.status[t]
        /\ k'.status[t] \cap TaskBlock # {}
        /\ k'.status[t] \cap (Waiting \cup {"DELAY"}) = {flag}
    BY <1>1, <1>4, <2>3 DEF Waiting, TaskBlock
  <2>5. "TIMEOUT" \in k'.status[t] <=> n # Forever
    BY <1>1, <1>4 DEF Limbo, Waiting
  <2>6. t \in k'.timer <=> n # Forever
    BY <1>3, <2>2
  <2>7. t \in k'.timer => k'.left[t] # 0
    BY <1>1, <1>2, <1>3, <2>6 DEF Kernel, Forever
  <2>8. "DELAY" \notin k'.status[t] /\ k'.status[t] \cap Waiting # {}
    BY <2>4 DEF Waiting
  <2> QED BY <2>4, <2>5, <2>6, <2>7, <2>8 DEF TaskOK
<1>6. Sound(k')
  <2>1. \A u \in TaskID \ {t} : (u \in k'.timer <=> u \in kn.timer) /\ k'.left[u] = kn.left[u]
    BY <1>1, <1>2, <1>3 DEF Kernel
  <2>2. "RUNNING" \in k'.status[t] <=> "RUNNING" \in kn.status[t]
    BY <1>2, <1>4 DEF Waiting
  <2>3. \A u \in CB \ {t} : k'.status[u] = kn.status[u]
    BY <1>2, <1>4
  <2>4. Sound(kn) /\ t # Idle
    BY <1>1 DEF Repriced
  <2>5. kn \in Kernel /\ k' \in Kernel /\ t \in TaskID /\ ListsOK(k') /\ SameSwitch(kn, k')
    BY <1>1, <1>2, <1>3
  <2> QED BY ONLY <1>5, <2>1, <2>2, <2>3, <2>4, <2>5, OneTask
<1>7. pc' = [pc EXCEPT ![t] = c] /\ pc \in [TaskID -> P.all]
  BY <1>0 DEF Goto, IInv, Typed
<1>8. pc' \in [TaskID -> P.all] /\ pc'[t] = c
  BY <1>1, <1>7
<1>9. Dispatch(k', pc', P)
  <2>1. k'.run = t /\ ~k'.pendSV /\ k'.lock = 0
    BY <1>0, <1>1, <1>2, <1>3 DEF SameSwitch
  <2> QED BY <1>1, <1>8, <2>1 DEF Dispatch, LockOK
<1>10. Blocked(k', pc')
  <2> SUFFICES ASSUME NEW u \in TaskID, k'.status[u] \cap Limbo # {} PROVE pc'[u] \notin PC
    BY DEF Blocked
  <2>1. CASE u = t
    BY <1>8, <2>1
  <2>2. CASE u # t
    <3>1. k'.status[u] = k.status[u] /\ pc'[u] = pc[u]
      BY <1>4, <1>7, <2>2 DEF CB
    <3> QED BY <3>1 DEF IInv, Blocked
  <2> QED BY <2>1, <2>2
<1>11. Sane(k', P)
  BY DEF Sane
<1> QED BY <1>0, <1>1, <1>2, <1>3, <1>4, <1>6, <1>7, <1>8, <1>9, <1>10, <1>11 DEF IInv, Typed

\* A kernel call that blocks as soon as it is made.
LEMMA Blocks ==
  ASSUME NEW P, Points(P), IInv(P), NEW op, Calls("task", op), k.lock = 0,
         NEW kn, Repriced(kn), NEW w \in WaitList, NEW flag \in Waiting, NEW n \in Nat,
         NEW c \in P.all, c \in P.window, c \notin PC,
         k' = osTaskWait(kn, w, flag, n), Goto(c)
  PROVE  /\ IInv(P)' /\ k.run \in Task /\ pc' = [pc EXCEPT ![k.run] = c]
         /\ \A v \in WaitList : k'.list[v] = IF v = w THEN Append(k.list[v], k.run) ELSE k.list[v]
         /\ \A u \in CB \ {k.run} : k'.status[u] = k.status[u]
         /\ k'.status[k.run] = (k.status[k.run] \ {"READY"})
                                 \cup {flag} \cup (IF n = Forever THEN {} ELSE {"TIMEOUT"})
         /\ k'.fault = k.fault /\ k'.prio = kn.prio
<1>1. At("user") /\ k.run # Idle /\ "user" \notin P.window /\ "user" \in PC
  BY DEF Calls, Points, PC
<1>2. k.run \in Task /\ k.status[k.run] \cap Limbo = {}
  BY <1>1, AtFacts DEF TaskID
<1> QED BY <1>1, <1>2, BlocksAt

\* A call goes on to another point of its own, or returns, and touches nothing.
LEMMA Moves ==
  ASSUME NEW P, Points(P), IInv(P), NEW c, At(c), c \notin P.window,
         NEW d \in P.all, d \notin P.window, k.status[k.run] \cap Limbo = {},
         k' = k, Goto(d)
  PROVE  /\ IInv(P)' /\ k.run \in TaskID /\ pc[k.run] = c
         /\ pc' = [pc EXCEPT ![k.run] = d] /\ pc'[k.run] = d
         /\ \A u \in TaskID \ {k.run} : pc'[u] = pc[u]
<1>1. k.run \in TaskID /\ pc[k.run] = c /\ ~k.pendSV /\ k.run # Dummy
  BY AtFacts
<1>2. pc' = [pc EXCEPT ![k.run] = d] /\ pc \in [TaskID -> P.all]
  BY DEF Goto, IInv, Typed
<1>3. /\ pc' \in [TaskID -> P.all] /\ pc'[k.run] = d
      /\ \A u \in TaskID \ {k.run} : pc'[u] = pc[u]
  BY <1>1, <1>2
<1>4. Dispatch(k, pc', P)
  BY <1>1, <1>3 DEF IInv, Dispatch
<1>5. Blocked(k, pc')
  <2> SUFFICES ASSUME NEW t \in TaskID, k.status[t] \cap Limbo # {} PROVE pc'[t] \notin PC
    BY DEF Blocked
  <2>1. t # k.run
    OBVIOUS
  <2> QED BY <1>3, <2>1 DEF IInv, Blocked
<1> QED BY <1>1, <1>2, <1>3, <1>4, <1>5 DEF IInv, Typed, Sane

\* osTaskWake of a waiting task keeps the data sound.
LEMMA WakeSound ==
  ASSUME NEW kn \in Kernel, Sound(kn), NEW t \in TaskID, NEW flag \in Waiting,
         kn.status[t] \cap Waiting = {flag},
         NEW r, r = osTaskWake(kn, t, flag)
  PROVE  /\ r \in Kernel /\ Sound(r) /\ SameSwitch(kn, r) /\ r.prio = kn.prio /\ r.fault = kn.fault
         /\ \A u \in CB \ {t} : r.status[u] = kn.status[u]
         /\ r.status[t] \cap Limbo = {} /\ "READY" \notin kn.status[t]
         /\ \A w \in WaitList : r.list[w] = Unlink(kn.list[w], t)
<1> DEFINE st == kn.status[t]
<1>1. /\ TaskOK(kn, t) /\ ListsOK(kn) /\ t \in CB /\ st \in SUBSET Flag
  BY DEF Sound, CB, Kernel
<1>2. /\ "READY" \notin st /\ "UNUSED" \notin st /\ "DELAY" \notin st
      /\ "TIMEOUT" \in st <=> t \in kn.timer
  BY <1>1 DEF TaskOK, TaskBlock, Waiting
<1>3. t # Idle
  BY <1>2 DEF Sound
<1>4. /\ r \in Kernel /\ ListsOK(r) /\ SameSwitch(kn, r)
      /\ r.prio = kn.prio /\ r.fault = kn.fault
      /\ \A u \in CB \ {t} : r.status[u] = kn.status[u]
      /\ r.status[t] = (st \ {flag, "TIMEOUT"}) \cup (IF "SUSPEND" \in st THEN {} ELSE {"READY"})
      /\ r.timer = IF "TIMEOUT" \in st THEN kn.timer \ {t} ELSE kn.timer
      /\ \A u \in TaskID \ {t} : r.left[u] = kn.left[u]
      /\ \A w \in WaitList : r.list[w] = Unlink(kn.list[w], t)
  BY <1>1, <1>2, WakeEffect
<1>5. TaskOK(r, t)
  <2>1. t \notin r.timer
    BY <1>2, <1>4
  <2>2. /\ "UNUSED" \notin r.status[t] /\ r.status[t] \cap (Waiting \cup {"DELAY"}) = {}
        /\ "TIMEOUT" \notin r.status[t] /\ "DELAY" \notin r.status[t]
    BY <1>2, <1>4 DEF Waiting
  <2>3. "READY" \in r.status[t] <=> "SUSPEND" \notin r.status[t]
    BY <1>2, <1>4 DEF Waiting
  <2>4. r.status[t] \cap TaskBlock = {} <=> "SUSPEND" \notin r.status[t]
    BY <2>2 DEF Waiting, TaskBlock
  <2> QED BY <2>1, <2>2, <2>3, <2>4 DEF TaskOK
<1>6. \A u \in TaskID \ {t} : u \in r.timer <=> u \in kn.timer
  BY <1>4
<1>7. "RUNNING" \in r.status[t] <=> "RUNNING" \in kn.status[t]
  BY <1>4 DEF Waiting
<1>8. r.status[t] \cap Limbo = {}
  BY <1>2, <1>4 DEF Limbo, Waiting
<1> QED BY <1>1, <1>2, <1>3, <1>4, <1>5, <1>6, <1>7, <1>8, OneTask

\* osTaskWake, and then LOS_Schedule.
LEMMA Wakes ==
  ASSUME NEW P, Points(P), IInv(P), NEW ctx \in {"task", "isr"},
         ctx = "task" => k.run \in TaskID /\ ~k.pendSV /\ k.status[k.run] \cap Limbo = {},
         NEW kn, Repriced(kn), NEW t \in TaskID, NEW flag \in Waiting,
         k.status[t] \cap Waiting = {flag},
         ThenSchedule(ctx, osTaskWake(kn, t, flag))
  PROVE  /\ IInv(P)' /\ pc' = IF ctx = "task" THEN [pc EXCEPT ![k.run] = "schedule"] ELSE pc
         /\ \A w \in WaitList : k'.list[w] = Unlink(k.list[w], t)
         /\ \A u \in CB \ {t} : k'.status[u] = k.status[u]
         /\ k'.status[t] \cap Limbo = {} /\ k'.fault = k.fault /\ k'.prio = kn.prio
<1> DEFINE r == osTaskWake(kn, t, flag)
<1>1. /\ kn \in Kernel /\ Sound(kn) /\ SameSwitch(k, kn)
      /\ kn.status = k.status /\ kn.fault = k.fault
      /\ \A w \in WaitList : kn.list[w] = k.list[w]
  BY DEF Repriced
<1>2. /\ r \in Kernel /\ Sound(r) /\ SameSwitch(kn, r) /\ r.prio = kn.prio /\ r.fault = kn.fault
      /\ \A u \in CB \ {t} : r.status[u] = kn.status[u]
      /\ r.status[t] \cap Limbo = {} /\ "READY" \notin kn.status[t]
      /\ \A w \in WaitList : r.list[w] = Unlink(kn.list[w], t)
  BY <1>1, WakeSound
<1>3. ThenSchedule(ctx, r)
  OBVIOUS
<1> HIDE DEF r
<1>4. SameSwitch(k, r) /\ r.fault = k.fault
  BY <1>1, <1>2 DEF SameSwitch
<1>5. NoNewWait(k, r)
  BY <1>1, <1>2 DEF NoNewWait, CB
<1>6. ctx = "task" => r.status[k.run] \cap Limbo = {}
  BY <1>1, <1>2 DEF CB
<1>7. k.lock > 0 => "READY" \in r.status[k.run]
  BY <1>1, <1>2 DEF IInv, Dispatch, CB
<1>8. IInv(P)'
  <2>1. ctx = "task" => k.run \in TaskID /\ ~k.pendSV
    OBVIOUS
  <2> QED BY <1>2, <1>3, <1>4, <1>5, <1>6, <1>7, <2>1, EndSchedule
<1>9. k' = r \/ k' = LOS_Schedule(r)
  BY <1>3 DEF ThenSchedule
<1>10. k'.status = r.status /\ k'.prio = r.prio /\ k'.list = r.list /\ k'.fault = r.fault
  BY <1>2, <1>9, ScheduleFrame DEF SameTasks, SameLists
<1>11. pc' = IF ctx = "task" THEN [pc EXCEPT ![k.run] = "schedule"] ELSE pc
  BY <1>3 DEF ThenSchedule, Goto
<1> QED BY <1>1, <1>2, <1>8, <1>10, <1>11

\* A blocked call reaches its call of LOS_Schedule.
LEMMA Goes ==
  ASSUME NEW P, Points(P), IInv(P), NEW c, At(c), NEW d \in P.all, d \notin PC,
         k' = LOS_Schedule(k), Goto(d)
  PROVE  /\ IInv(P)' /\ pc' = [pc EXCEPT ![k.run] = d] /\ k.run \in TaskID /\ pc[k.run] = c
         /\ k'.list = k.list /\ k'.status = k.status /\ k'.prio = k.prio /\ k'.fault = k.fault
<1>1. /\ k.run \in TaskID /\ pc[k.run] = c /\ k \in Kernel /\ Sound(k) /\ LockOK(k)
      /\ k.lock > 0 => k.run \in TaskID /\ "READY" \in k.status[k.run]
  BY DEF At, IInv, Typed, Dispatch
<1>2. Sound(k') /\ Dispatch(k', pc', P) /\ k' \in Kernel
  BY <1>1, ScheduleDispatch, ScheduleType
<1>3. k'.list = k.list /\ k'.status = k.status /\ k'.prio = k.prio /\ k'.fault = k.fault
  BY <1>1, ScheduleFrame DEF SameTasks, SameLists
<1>4. pc' = [pc EXCEPT ![k.run] = d] /\ pc \in [TaskID -> P.all]
  BY DEF Goto, IInv, Typed
<1>5. Blocked(k', pc')
  <2> SUFFICES ASSUME NEW u \in TaskID, k.status[u] \cap Limbo # {} PROVE pc'[u] \notin PC
    BY <1>3 DEF Blocked
  <2> QED BY <1>1, <1>4 DEF IInv, Blocked
<1>6. Sane(k', P)
  BY DEF Sane
<1>7. pc' \in [TaskID -> P.all]
  BY <1>4
<1> QED BY <1>1, <1>2, <1>3, <1>4, <1>5, <1>6, <1>7 DEF IInv, Typed

\* A blocked call returns, and clears the TIMEOUT flag.
LEMMA Returns ==
  ASSUME NEW P, Points(P), IInv(P), NEW c, At(c), c \notin P.window,
         k' = ClearFlags(k, k.run, {"TIMEOUT"}), Goto("user")
  PROVE  /\ IInv(P)' /\ pc' = [pc EXCEPT ![k.run] = "user"] /\ k.run \in TaskID /\ pc[k.run] = c
         /\ k'.list = k.list /\ k'.prio = k.prio /\ k'.fault = k.fault
         /\ \A u \in CB \ {k.run} : k'.status[u] = k.status[u]
         /\ k'.status[k.run] = k.status[k.run] \ {"TIMEOUT"}
         /\ k.status[k.run] \cap Waiting = {}
<1>0. PICK t : t = k.run
  OBVIOUS
<1>1. /\ t \in TaskID /\ t \in CB /\ t # Dummy /\ ~k.pendSV /\ ~k.fault
      /\ pc[t] = c /\ "READY" \in k.status[t] /\ k.status[t] \cap Waiting = {}
      /\ "UNUSED" \notin k.status[t]
  BY <1>0, AtFacts
<1>2. k \in Kernel /\ Sound(k) /\ ListsOK(k) /\ TaskOK(k, t)
  BY <1>1 DEF IInv, Typed, Sound
<1>3. /\ k' \in Kernel /\ SameTimer(k, k') /\ SameSwitch(k, k') /\ SameLists(k, k')
      /\ k'.prio = k.prio /\ k'.status = [k.status EXCEPT ![t] = @ \ {"TIMEOUT"}]
  <2>1. {"TIMEOUT"} \in SUBSET Flag
    BY DEF Flag
  <2>2. k' = ClearFlags(k, t, {"TIMEOUT"})
    BY <1>0
  <2>3. k'.status = [k.status EXCEPT ![t] = @ \ {"TIMEOUT"}]
    BY <1>2, <2>2 DEF ClearFlags, Kernel
  <2>4. k' \in Kernel
    BY <1>1, <1>2, <2>1, <2>2, FlagsType
  <2>5. /\ SameTimer(k, k') /\ SameSwitch(k, k') /\ SameLists(k, k') /\ k'.prio = k.prio
    BY <1>1, <1>2, <2>1, <2>2, FlagsEffect
  <2> QED BY <2>3, <2>4, <2>5
<1>4. k'.status[t] = k.status[t] \ {"TIMEOUT"} /\ \A u \in CB \ {t} : k'.status[u] = k.status[u]
  BY <1>1, <1>2, <1>3 DEF Kernel
<1>5. \A u \in TaskID : /\ "READY" \in k'.status[u] <=> "READY" \in k.status[u]
                        /\ k'.status[u] \cap Waiting = k.status[u] \cap Waiting
  BY <1>4 DEF Waiting, CB
<1>6. ListsOK(k')
  BY <1>2, <1>3, <1>5, ListsFrame DEF SameLists
<1>7. TaskOK(k', t)
  BY <1>1, <1>2, <1>3, <1>4 DEF TaskOK, TaskBlock, Waiting, SameTimer, SameSwitch
<1>8. Sound(k')
  <2>1. "RUNNING" \in k'.status[t] <=> "RUNNING" \in k.status[t]
    BY <1>4
  <2>2. t = Idle => "READY" \in k'.status[t]
    BY <1>1, <1>4
  <2> QED BY <1>1, <1>2, <1>3, <1>4, <1>6, <1>7, <2>1, <2>2, OneTask DEF SameTimer
<1>9. osPriqueueTop(k') = osPriqueueTop(k)
  <2>1. k'.list = k.list /\ k'.bitmap = k.bitmap
    BY <1>3 DEF SameLists
  <2> QED BY ONLY <2>1 DEF osPriqueueTop
<1>10. pc' = [pc EXCEPT ![t] = "user"] /\ pc \in [TaskID -> P.all] /\ "user" \in P.all
  BY <1>0 DEF Goto, IInv, Typed, Points, PC
<1>11. pc' \in [TaskID -> P.all] /\ pc'[t] = "user" /\ "user" \notin P.window
  BY <1>1, <1>10 DEF Points
<1>12. Dispatch(k', pc', P)
  <2>1. k'.run = t /\ ~k'.pendSV /\ k'.lock = k.lock /\ k'.need = k.need
    BY <1>0, <1>1, <1>3 DEF SameSwitch
  <2>2. "READY" \in k'.status[t]
    BY <1>1, <1>4
  <2>3. P.strict /\ ~k.need /\ k.lock = 0 => t = osPriqueueTop(k)
    BY <1>0, <1>1 DEF IInv, Dispatch
  <2> QED BY <1>1, <1>9, <2>1, <2>2, <2>3 DEF Dispatch, LockOK
<1>13. Blocked(k', pc')
  <2> SUFFICES ASSUME NEW u \in TaskID, k'.status[u] \cap Limbo # {} PROVE pc'[u] \notin PC
    BY DEF Blocked
  <2>1. u # t
    BY <1>1, <1>4 DEF Limbo
  <2>2. pc'[u] = pc[u] /\ k'.status[u] = k.status[u]
    BY <1>4, <1>10, <2>1 DEF CB
  <2> QED BY <2>2 DEF IInv, Blocked
<1>14. k'.fault = k.fault /\ k'.list = k.list
  BY <1>3 DEF SameLists
<1> QED BY <1>0, <1>1, <1>3, <1>4, <1>8, <1>10, <1>11, <1>12, <1>13, <1>14 DEF IInv, Typed, Sane

\* A blocked call that finds no TIMEOUT flag returns and leaves the kernel alone.
LEMMA ReturnsQuietly ==
  ASSUME NEW P, Points(P), IInv(P), NEW c, At(c), c \notin P.window,
         "TIMEOUT" \notin k.status[k.run], k' = k, Goto("user")
  PROVE  /\ IInv(P)' /\ pc' = [pc EXCEPT ![k.run] = "user"] /\ k.run \in TaskID /\ pc[k.run] = c
         /\ k.status[k.run] \cap Waiting = {}
<1>1. k.run \in CB /\ k \in Kernel
  BY DEF At, CB, IInv, Typed
<1>2. k = ClearFlags(k, k.run, {"TIMEOUT"})
  BY <1>1 DEF ClearFlags, Kernel
<1> QED BY <1>2, Returns

-----------------------------------------------------------------------------
(***************************************************************************)
(* What the steps of the task manager do to the calls that wait.           *)
(***************************************************************************)

SameWaits(kn, r) ==
  /\ \A w \in WaitList : r.list[w] = kn.list[w]
  /\ \A t \in TaskID : r.status[t] \cap Limbo = kn.status[t] \cap Limbo

\* No call starts to wait, or ends its wait.
Quiet ==
  /\ SameWaits(k, k')
  /\ \A t \in TaskID : pc'[t] = pc[t] \/ {pc[t], pc'[t]} \subseteq PC

\* Task t leaves the list it waits on, if it waits.
Leaves(t) ==
  /\ \A w \in WaitList : k'.list[w] = Unlink(k.list[w], t)
  /\ k'.status[t] \cap Waiting = {}
  /\ \A u \in TaskID \ {t} : /\ k'.status[u] \cap Limbo = k.status[u] \cap Limbo
                             /\ pc'[u] = pc[u] \/ {pc[u], pc'[u]} \subseteq PC

\* Its time limit has passed, and it stays inside its call.
Expires(t) ==
  /\ Leaves(t)
  /\ pc'[t] = pc[t]
  /\ "TIMEOUT" \in k'.status[t] <=> "TIMEOUT" \in k.status[t]
  /\ k.status[t] \cap Waiting # {} => "TIMEOUT" \in k.status[t]

\* It is deleted, and its call with it; or it ends, outside every call.
Vanishes(t) ==
  /\ Leaves(t)
  /\ k'.status[t] = {"UNUSED"}
  /\ pc'[t] = "user"
  /\ pc[t] \in PC \/ "Delete" \in TaskCalls \cup IsrCalls

\* Another task, or a handler, gives it what it waits for.
Served(t) == Leaves(t) /\ pc'[t] = pc[t] /\ k'.status[t] \cap Limbo = {}

\* Making a task ready leaves the waits alone.
LEMMA ReadyWaits ==
  ASSUME NEW kn \in Kernel, NEW t \in TaskID
  PROVE  SameWaits(kn, MakeReady(kn, t))
<1> DEFINE r == MakeReady(kn, t)
<1>1. /\ r.status = [kn.status EXCEPT ![t] = @ \cup {"READY"}]
      /\ r.list = [kn.list EXCEPT ![kn.prio[t]] = Append(@, t)]
  BY MakeReadyEffect
<1>2. /\ kn.prio[t] \in Pri /\ kn.list \in [ListHead -> Seq(TaskID)]
      /\ kn.status \in [CB -> SUBSET Flag] /\ TaskID \subseteq CB
      /\ \A w \in WaitList : w \in ListHead /\ w \notin Pri
  BY WaitListAssumption DEF Kernel, ListHead, CB
<1> HIDE DEF r
<1>3. \A w \in WaitList : r.list[w] = kn.list[w]
  BY <1>1, <1>2
<1>4. \A u \in TaskID : r.status[u] \cap Limbo = kn.status[u] \cap Limbo
  BY <1>1, <1>2 DEF Limbo, Waiting
<1> QED BY <1>3, <1>4 DEF SameWaits, r

\* Taking a ready task out of the ready queue leaves the waits alone.
LEMMA UnreadyWaits ==
  ASSUME NEW kn \in Kernel, ListsOK(kn), NEW t \in TaskID, "READY" \in kn.status[t],
         kn.status[t] \cap Waiting = {}
  PROVE  SameWaits(kn, MakeUnready(kn, t)) /\ MakeUnready(kn, t).fault = kn.fault
<1> DEFINE r == MakeUnready(kn, t)
<1>1. /\ r.status = [kn.status EXCEPT ![t] = @ \ {"READY"}]
      /\ r.list = [h \in ListHead |-> Unlink(kn.list[h], t)] /\ r.fault = kn.fault
  BY MakeUnreadyLists, MakeUnreadyEffect
<1>2. /\ kn.status \in [CB -> SUBSET Flag] /\ TaskID \subseteq CB
      /\ \A w \in WaitList : w \in ListHead /\ t \notin ToSet(kn.list[w])
  BY DEF Kernel, ListHead, CB, ListsOK
<1> HIDE DEF r
<1>3. \A w \in WaitList : r.list[w] = kn.list[w]
  BY <1>1, <1>2 DEF Unlink
<1>4. \A u \in TaskID : r.status[u] \cap Limbo = kn.status[u] \cap Limbo
  BY <1>1, <1>2 DEF Limbo, Waiting
<1> QED BY <1>1, <1>3, <1>4 DEF SameWaits, r

\* So does moving the running task to the end of its ready list.
LEMMA RequeueWaits ==
  ASSUME NEW kn \in Kernel, ListsOK(kn), kn.run \in TaskID, "READY" \in kn.status[kn.run],
         kn.status[kn.run] \cap Waiting = {}
  PROVE  SameWaits(kn, Requeue(kn)) /\ Requeue(kn) \in Kernel
<1> DEFINE t  == kn.run
           k1 == ListDelete(kn, t)
           r  == osPriqueueEnqueue(k1, t)
<1>1. /\ kn.list \in [ListHead -> Seq(TaskID)] /\ kn.prio[t] \in Pri /\ kn.prio[t] \in ListHead
      /\ \A w \in WaitList : w \in ListHead /\ w \notin Pri /\ t \notin ToSet(kn.list[w])
  BY WaitListAssumption DEF Kernel, ListHead, ListsOK
<1>2. IsLinked(kn, t)
  BY <1>1 DEF IsLinked, ListsOK
<1>3. /\ k1 \in Kernel /\ SameTasks(kn, k1)
      /\ k1.list = [h \in ListHead |-> Unlink(kn.list[h], t)]
  BY <1>2, ListDeleteType, ListDeleteEffect
<1> HIDE DEF k1
<1>4. /\ SameTasks(k1, r) /\ r.list = [k1.list EXCEPT ![k1.prio[t]] = Append(@, t)]
  BY ZenonT(60), <1>3, EnqueueEffect
<1>5. r \in Kernel
  BY <1>3, EnqueueType
<1> HIDE DEF r
<1>6. \A w \in WaitList : r.list[w] = kn.list[w]
  BY ZenonT(60), <1>1, <1>3, <1>4 DEF SameTasks, Unlink
<1>7. r.status = kn.status
  BY <1>3, <1>4 DEF SameTasks
<1>8. Requeue(kn) = r
  BY DEF Requeue, r, k1
<1> QED BY <1>5, <1>6, <1>7, <1>8 DEF SameWaits

\* The ways a kernel call ends leave the waits alone.
LEMMA EndWaits ==
  ASSUME NEW P, Points(P), IInv(P), NEW ctx \in {"task", "isr"}, NEW op, Calls(ctx, op),
         NEW k1 \in Kernel, SameWaits(k, k1), ThenSchedule(ctx, k1) \/ ThenReturn(k1)
  PROVE  Quiet
<1>1. k' = k1 \/ k' = LOS_Schedule(k1)
  BY DEF ThenSchedule, ThenReturn
<1>2. SameWaits(k, k')
  BY <1>1, ScheduleFrame DEF SameWaits, SameTasks, SameLists
<1>3. ctx = "task" => k.run \in TaskID /\ pc[k.run] = "user"
  BY DEF Calls, At
<1>4. pc' = pc \/ (ctx = "task" /\ pc' = [pc EXCEPT ![k.run] = "schedule"])
  BY DEF ThenSchedule, ThenReturn, Goto
<1>5. \A t \in TaskID : pc'[t] = pc[t] \/ {pc[t], pc'[t]} \subseteq PC
  BY <1>3, <1>4 DEF IInv, Typed, PC
<1> QED BY <1>2, <1>5 DEF Quiet

\* The task manager's calls that create, resume, suspend, delay, reorder or
\* reprioritise tasks, or lock the scheduler.
LEMMA CallWaits ==
  ASSUME NEW P, Points(P), IInv(P), TaskNext,
         ~ \E ctx \in {"task", "isr"}, t \in Task : LOS_TaskDelete(ctx, t), ~osTaskEntryDelete
  PROVE  Quiet
<1>1. k \in Kernel /\ ListsOK(k) /\ \A t \in TaskID : TaskOK(k, t)
  BY DEF IInv, Typed, Sound
<1>2. \A t \in Task : t \in TaskID /\ t \in CB
  BY DEF TaskID, CB
<1>3. \A t \in TaskID : "READY" \in k.status[t] => k.status[t] \cap Waiting = {}
  BY <1>1 DEF TaskOK, TaskBlock, Waiting
<1>4. ASSUME NEW ctx \in {"task", "isr"}, NEW t \in Task, NEW p \in Pri, LOS_TaskCreateOnly(ctx, t, p)
      PROVE  Quiet
  <2> DEFINE k1 == [k EXCEPT !.status[t] = {"SUSPEND"}, !.prio[t] = p]
  <2>1. k.status[t] = {"UNUSED"} /\ Calls(ctx, "CreateOnly") /\ ThenReturn(k1)
    BY <1>1, <1>2, <1>4 DEF LOS_TaskCreateOnly, Created, TaskOK
  <2>2. k1 \in Kernel
    BY <1>1, <1>2 DEF Kernel, Flag
  <2>3. SameWaits(k, k1)
    BY <1>1, <1>2, <2>1 DEF SameWaits, Kernel, Limbo, Waiting, CB
  <2> HIDE DEF k1
  <2> QED BY <2>1, <2>2, <2>3, EndWaits
<1>5. ASSUME NEW ctx \in {"task", "isr"}, NEW t \in Task, NEW p \in Pri, LOS_TaskCreate(ctx, t, p)
      PROVE  Quiet
  <2> DEFINE k1 == [k EXCEPT !.status[t] = {"SUSPEND"}, !.prio[t] = p]
             c1 == ClearFlags(k1, t, {"SUSPEND"})
             k2 == MakeReady(c1, t)
             k3 == [k2 EXCEPT !.new = osPriqueueTop(k2)]
             k4 == [k3 EXCEPT !.pendSV = @ \/ (k3.lock = 0 /\ k3.run # k3.new)]
  <2>1. k.status[t] = {"UNUSED"} /\ k' = k4 /\ pc' = pc
    BY <1>1, <1>2, <1>5 DEF LOS_TaskCreate, Created, TaskOK, ThenReturn
  <2>2. c1 \in Kernel /\ SameWaits(k, c1)
    <3>1. k1 \in Kernel /\ k1.list = k.list /\ k1.status = [k.status EXCEPT ![t] = {"SUSPEND"}]
      BY <1>1, <1>2 DEF Kernel, Flag
    <3> HIDE DEF k1
    <3>2. c1 \in Kernel /\ c1.list = k1.list /\ c1.status = [k1.status EXCEPT ![t] = @ \ {"SUSPEND"}]
      BY ZenonT(60), <1>2, <3>1, FlagsType DEF ClearFlags, Kernel, Flag
    <3> HIDE DEF c1
    <3>3. \A u \in TaskID : c1.status[u] \cap Limbo = k.status[u] \cap Limbo
      BY <1>1, <1>2, <2>1, <3>1, <3>2 DEF Kernel, Limbo, Waiting, CB
    <3> QED BY <3>1, <3>2, <3>3 DEF SameWaits
  <2> HIDE DEF c1
  <2>3. k2 \in Kernel /\ SameWaits(c1, k2)
    BY <1>2, <2>2, MakeReadyType, ReadyWaits
  <2> HIDE DEF k2
  <2>4. k4.list = k2.list /\ k4.status = k2.status
    BY <2>3 DEF Kernel
  <2> HIDE DEF k4
  <2>5. k'.list = k2.list /\ k'.status = k2.status
    BY <2>1, <2>4
  <2> QED BY <2>1, <2>2, <2>3, <2>5 DEF Quiet, SameWaits
<1>6. ASSUME NEW ctx \in {"task", "isr"}, NEW t \in Task, LOS_TaskResume(ctx, t)
      PROVE  Quiet
  <2> DEFINE k1 == ClearFlags(k, t, {"SUSPEND"})
             k2 == MakeReady(k1, t)
  <2>1. Calls(ctx, "Resume") /\ (ThenSchedule(ctx, k2) \/ ThenReturn(k1))
    BY <1>6 DEF LOS_TaskResume
  <2>2. k1 \in Kernel
    BY <1>1, <1>2, FlagsType DEF Flag
  <2>3. SameWaits(k, k1)
    BY <1>1, <1>2 DEF SameWaits, ClearFlags, Kernel, Limbo, Waiting, CB
  <2> HIDE DEF k1
  <2>4. k2 \in Kernel /\ SameWaits(k1, k2)
    BY <1>2, <2>2, MakeReadyType, ReadyWaits
  <2>5. SameWaits(k, k2)
    BY <2>3, <2>4 DEF SameWaits
  <2> HIDE DEF k2
  <2> QED BY <2>1, <2>2, <2>3, <2>4, <2>5, EndWaits
<1>7. ASSUME NEW ctx \in {"task", "isr"}, NEW t \in Task, LOS_TaskSuspend(ctx, t)
      PROVE  Quiet
  <2> DEFINE k1 == IF "READY" \in k.status[t] THEN MakeUnready(k, t) ELSE k
             k2 == SetFlags(k1, t, {"SUSPEND"})
  <2>1. Calls(ctx, "Suspend") /\ (ThenSchedule(ctx, k2) \/ ThenReturn(k2))
    BY <1>7 DEF LOS_TaskSuspend
  <2>2. k1 \in Kernel /\ SameWaits(k, k1)
    BY <1>1, <1>2, <1>3, MakeUnreadyType, UnreadyWaits DEF SameWaits
  <2> HIDE DEF k1
  <2>3. k2 \in Kernel
    BY <1>2, <2>2, FlagsType DEF Flag
  <2>4. SameWaits(k1, k2)
    BY <1>2, <2>2 DEF SameWaits, SetFlags, Kernel, Limbo, Waiting, CB
  <2>5. SameWaits(k, k2)
    BY <2>2, <2>4 DEF SameWaits
  <2> HIDE DEF k2
  <2> QED BY <2>1, <2>3, <2>5, EndWaits
<1>8. ASSUME NEW t \in Task, NEW p \in Pri, LOS_TaskPriSet(t, p)
      PROVE  Quiet
  <2> DEFINE r == osTaskPriModify(k, t, p)
  <2>1. Calls("task", "PriSet") /\ (ThenSchedule("task", r) \/ ThenReturn(r))
    BY <1>8 DEF LOS_TaskPriSet
  <2>2. r \in Kernel
    BY <1>1, <1>2, PriModifyType
  <2>3. SameWaits(k, r)
    <3>1. CASE "READY" \in k.status[t]
      <4> DEFINE k1 == MakeUnready(k, t)
                 k2 == [k1 EXCEPT !.prio[t] = p]
                 k3 == MakeReady(k2, t)
      <4>1. k1 \in Kernel /\ SameWaits(k, k1)
        BY <1>1, <1>2, <1>3, <3>1, MakeUnreadyType, UnreadyWaits
      <4> HIDE DEF k1
      <4>2. k2 \in Kernel /\ k2.list = k1.list /\ k2.status = k1.status
        BY <1>2, <4>1 DEF Kernel
      <4> HIDE DEF k2
      <4>3. SameWaits(k2, k3)
        BY <1>2, <4>2, ReadyWaits
      <4>4. r = k3
        BY <3>1 DEF osTaskPriModify, k1, k2
      <4> QED BY <4>1, <4>2, <4>3, <4>4 DEF SameWaits
    <3>2. CASE "READY" \notin k.status[t]
      <4>1. r = [k EXCEPT !.prio[t] = p]
        BY <3>2 DEF osTaskPriModify
      <4>2. r.list = k.list /\ r.status = k.status
        BY <1>1, <4>1 DEF Kernel
      <4> QED BY <4>2 DEF SameWaits
    <3> QED BY <3>1, <3>2
  <2> HIDE DEF r
  <2> QED BY <2>1, <2>2, <2>3, EndWaits
<1>9. ASSUME NEW n \in Delays, LOS_TaskDelay(n)
      PROVE  Quiet
  <2> DEFINE t  == k.run
             k1 == MakeUnready(k, t)
             k2 == osTaskAdd2TimerList(k1, t, n)
             k3 == SetFlags(k2, t, {"DELAY"})
  <2>1. Calls("task", "Delay") /\ (Halt \/ ThenSchedule("task", k3))
    BY <1>9 DEF LOS_TaskDelay
  <2>2. t \in TaskID /\ t \in CB /\ "READY" \in k.status[t]
    BY <2>1 DEF Calls, At, Runs, IInv, Dispatch, Points, CB
  <2>3. k1 \in Kernel /\ SameWaits(k, k1)
    BY <1>1, <1>3, <2>2, MakeUnreadyType, UnreadyWaits
  <2> HIDE DEF k1
  <2>4. k2 \in Kernel
    BY <2>2, <2>3, TimerType, BoundsAssumption
  <2>5. k2.list = k1.list /\ k2.status = k1.status
    BY <2>3 DEF osTaskAdd2TimerList, Kernel
  <2> HIDE DEF k2, t
  <2>6. k3 \in Kernel
    BY <2>2, <2>4, FlagsType DEF Flag
  <2>7. k3.list = k2.list /\ k3.status = [k2.status EXCEPT ![t] = @ \cup {"DELAY"}]
    BY <2>4 DEF SetFlags, Kernel
  <2>8. \A u \in TaskID : k3.status[u] \cap Limbo = k2.status[u] \cap Limbo
    BY <2>4, <2>7 DEF Kernel, Limbo, Waiting, CB
  <2>9. SameWaits(k, k3)
    BY <2>3, <2>5, <2>7, <2>8 DEF SameWaits
  <2>10. ASSUME Halt PROVE Quiet
    BY <1>1, <2>10 DEF Halt, Kernel, Quiet, SameWaits
  <2> HIDE DEF k3
  <2> QED BY <2>1, <2>6, <2>9, <2>10, EndWaits
<1>10. ASSUME LOS_TaskYield PROVE Quiet
  <2>1. /\ Calls("task", "Yield") /\ ThenSchedule("task", Requeue(k))
        /\ k.run \in TaskID /\ "READY" \in k.status[k.run]
    BY <1>10 DEF LOS_TaskYield, CanYield, Calls, At
  <2>2. SameWaits(k, Requeue(k)) /\ Requeue(k) \in Kernel
    BY <1>1, <1>3, <2>1, RequeueWaits
  <2> QED BY <2>1, <2>2, EndWaits
<1>11. ASSUME LOS_TaskLock \/ LOS_TaskUnlock PROVE Quiet
  <2>1. PICK n \in Nat : /\ Calls("task", "Lock")
                         /\ \/ ThenSchedule("task", [k EXCEPT !.lock = n])
                            \/ ThenReturn([k EXCEPT !.lock = n])
    <3>1. k.lock \in Nat
      BY <1>1 DEF Kernel
    <3>2. CASE LOS_TaskLock
      BY <3>1, <3>2 DEF LOS_TaskLock
    <3>3. CASE LOS_TaskUnlock
      BY <3>1, <3>3 DEF LOS_TaskUnlock
    <3> QED BY <1>11, <3>2, <3>3
  <2>2. /\ [k EXCEPT !.lock = n] \in Kernel
        /\ [k EXCEPT !.lock = n].list = k.list /\ [k EXCEPT !.lock = n].status = k.status
    BY <1>1 DEF Kernel
  <2>3. SameWaits(k, [k EXCEPT !.lock = n])
    BY <2>2 DEF SameWaits
  <2> QED BY <2>1, <2>2, <2>3, EndWaits
<1>12. CASE osTaskEntry
  <2>1. /\ k.run \in TaskID /\ pc[k.run] = "user"
        /\ k' = [k EXCEPT !.lock = 0] /\ pc' = [pc EXCEPT ![k.run] = "exit"]
    BY <1>12 DEF osTaskEntry, Goto, Calls, At
  <2>2. SameWaits(k, k')
    BY <1>1, <2>1 DEF SameWaits, Kernel
  <2>3. \A t \in TaskID : pc'[t] = pc[t] \/ {pc[t], pc'[t]} \subseteq PC
    BY <2>1 DEF IInv, Typed, PC
  <2> QED BY <2>2, <2>3 DEF Quiet
<1> QED BY <1>4, <1>5, <1>6, <1>7, <1>8, <1>9, <1>10, <1>11, <1>12 DEF TaskNext

\* The scheduler and the tick: only osTaskScan touches a wait.
LEMMA KernelWaits ==
  ASSUME ~IsrRaces, NEW P, Points(P), IInv(P), KernelNext
  PROVE  Quiet \/ \E t \in Task : Expires(t)
<1>1. k \in Kernel /\ Sound(k) /\ ListsOK(k) /\ \A t \in TaskID : TaskOK(k, t)
  BY DEF IInv, Typed, Sound
<1>2. ASSUME k'.list = k.list, pc' = pc,
             \A t \in TaskID : k'.status[t] \cap Limbo = k.status[t] \cap Limbo
      PROVE  Quiet
  BY <1>2 DEF Quiet, SameWaits
<1>3. CASE Schedule
  <2>1. k' = LOS_Schedule(k) /\ pc[k.run] = "schedule" /\ pc' = [pc EXCEPT ![k.run] = "user"]
    BY <1>3 DEF Schedule, At, Goto
  <2>2. SameWaits(k, k')
    BY <1>1, <2>1, ScheduleFrame DEF SameWaits, SameTasks, SameLists
  <2>3. \A t \in TaskID : pc'[t] = pc[t] \/ {pc[t], pc'[t]} \subseteq PC
    BY <2>1 DEF IInv, Typed, PC
  <2> QED BY <2>2, <2>3 DEF Quiet
<1>4. CASE DeadTaskSchedule
  BY <1>1, <1>2, <1>4 DEF DeadTaskSchedule, Kernel
<1>5. CASE PendSV
  <2> DEFINE k1 == ClearFlags(k, k.run, {"RUNNING"})
             k2 == SetFlags(k1, k.new, {"RUNNING"})
  <2>1. /\ k' = [k2 EXCEPT !.run = k.new, !.pendSV = FALSE] /\ pc' = pc
        /\ k.run \in CB /\ k.new \in CB
    BY <1>1, <1>5 DEF PendSV, PendSVHandler, Kernel
  <2>2. k1 \in Kernel /\ k1.list = k.list /\ k1.status = [k.status EXCEPT ![k.run] = @ \ {"RUNNING"}]
    BY <1>1, <2>1, FlagsType DEF ClearFlags, Kernel, Flag
  <2> HIDE DEF k1
  <2>3. k2 \in Kernel /\ k2.list = k1.list /\ k2.status = [k1.status EXCEPT ![k.new] = @ \cup {"RUNNING"}]
    <3>1. k2 = [k1 EXCEPT !.status[k.new] = @ \cup {"RUNNING"}]
      BY DEF SetFlags
    <3>2. k2 \in Kernel
      BY <2>1, <2>2, FlagsType DEF Flag
    <3> HIDE DEF k2
    <3> QED BY <2>2, <3>1, <3>2 DEF Kernel
  <2> HIDE DEF k2
  <2>4. k'.list = k2.list /\ k'.status = k2.status
    BY <2>1, <2>3 DEF Kernel
  <2>5. \A t \in TaskID : k1.status[t] \cap Limbo = k.status[t] \cap Limbo
    BY <1>1, <2>2 DEF Kernel, Limbo, Waiting, CB
  <2>6. \A t \in TaskID : k2.status[t] \cap Limbo = k1.status[t] \cap Limbo
    BY <2>2, <2>3 DEF Kernel, Limbo, Waiting, CB
  <2> QED BY <1>2, <2>1, <2>2, <2>3, <2>4, <2>5, <2>6
<1>6. CASE Tick
  <2> DEFINE k1 == osTimesliceCheck(k)
             q  == Requeue(k)
             k2 == IF CanYield(k) THEN LOS_Schedule(q) ELSE k
  <2>1. k2 \in Kernel /\ SameWaits(k, k2)
    <3>1. CASE CanYield(k)
      <4>1. k.run \in TaskID /\ "READY" \in k.status[k.run]
        BY <1>1, <3>1 DEF CanYield, Kernel, CB
      <4>2. k.status[k.run] \cap Waiting = {}
        BY <1>1, <4>1 DEF TaskOK, TaskBlock, Waiting
      <4>3. q \in Kernel /\ SameWaits(k, q)
        BY <1>1, <4>1, <4>2, RequeueWaits
      <4> HIDE DEF q
      <4>4. LOS_Schedule(q) \in Kernel /\ SameWaits(q, LOS_Schedule(q))
        BY <4>3, ScheduleType, ScheduleFrame DEF SameWaits, SameTasks, SameLists
      <4> QED BY <3>1, <4>3, <4>4 DEF SameWaits
    <3>2. CASE ~CanYield(k)
      BY <1>1, <3>2 DEF SameWaits
    <3> QED BY <3>1, <3>2
  <2> HIDE DEF k2
  <2>2. \E s : k1 \in {[k2 EXCEPT !.slice = s], [k EXCEPT !.slice = s]}
    BY DEF osTimesliceCheck, k2
  <2>3. PICK kn \in {k, k2} : k1.list = kn.list /\ k1.status = kn.status
    <3>1. PICK kn \in {k, k2} : \E s : k1 = [kn EXCEPT !.slice = s]
      BY <2>2
    <3>2. kn \in Kernel
      BY <1>1, <2>1
    <3> HIDE DEF k1
    <3>3. k1.list = kn.list /\ k1.status = kn.status
      BY <3>1, <3>2 DEF Kernel
    <3> QED BY <3>3
  <2>4. k1 \in Kernel
    BY <1>1, TimesliceType
  <2> HIDE DEF k1
  <2>5. k'.list = k1.list /\ k'.status = k1.status /\ pc' = pc
    BY <1>6, <2>4 DEF Tick, Kernel, k1
  <2> QED BY <2>1, <2>3, <2>5 DEF Quiet, SameWaits
<1>7. ASSUME NEW t \in Task, osTaskScan(t)
      PROVE  Expires(t)
  <2>1. k' = ScanTask(k, t, k.status[t]) /\ pc' = pc /\ k.scan /\ t \in k.timer
    BY <1>7 DEF osTaskScan, Expired
  <2>2. /\ \A u \in CB \ {t} : k'.status[u] = k.status[u]
        /\ k'.status[t] \ {"READY"} = k.status[t] \ (Waiting \cup {"DELAY"})
        /\ \A w \in WaitList : k'.list[w] = Unlink(k.list[w], t)
    BY <1>1, <2>1, ScanEffect
  <2>3. Leaves(t)
    BY <2>1, <2>2 DEF Leaves, Waiting, CB
  <2>4. "TIMEOUT" \in k'.status[t] <=> "TIMEOUT" \in k.status[t]
    BY <2>2 DEF Waiting
  <2>5. k.status[t] \cap Waiting # {} => "TIMEOUT" \in k.status[t]
    <3>1. TaskOK(k, t)
      BY <1>1 DEF TaskID
    <3>2. /\ "DELAY" \in k.status[t] \/ "TIMEOUT" \in k.status[t]
          /\ \A f, g \in k.status[t] \cap (Waiting \cup {"DELAY"}) : f = g
      BY <2>1, <3>1 DEF TaskOK
    <3> QED BY <3>2 DEF Waiting
  <2> QED BY <2>1, <2>3, <2>4, <2>5 DEF Expires
<1>8. CASE osTaskScanEnd
  <2> DEFINE k1 == IF k.need THEN LOS_Schedule(k) ELSE k
  <2>1. k1 \in Kernel /\ k1.list = k.list /\ k1.status = k.status
    BY <1>1, ScheduleType, ScheduleFrame DEF SameTasks, SameLists
  <2>2. k' = [k1 EXCEPT !.scan = FALSE, !.need = FALSE] /\ pc' = pc
    BY <1>8 DEF osTaskScanEnd
  <2> HIDE DEF k1
  <2>3. k'.list = k1.list /\ k'.status = k1.status
    BY <2>1, <2>2 DEF Kernel
  <2> QED BY <1>2, <2>1, <2>2, <2>3
<1> QED BY <1>3, <1>4, <1>5, <1>6, <1>7, <1>8 DEF KernelNext

\* A task that is deleted leaves its list, unless the deletion faults.
LEMMA DeleteWaits ==
  ASSUME NEW P, Points(P), IInv(P), NEW ctx \in {"task", "isr"}, NEW t \in Task, LOS_TaskDelete(ctx, t)
  PROVE  Quiet \/ Vanishes(t)
<1> DEFINE r == TaskDelete(k, t)
<1>1. k \in Kernel /\ Sound(k) /\ "UNUSED" \notin k.status[t] /\ pc \in [TaskID -> P.all] /\ ~k.fault
  BY DEF IInv, Typed, LOS_TaskDelete, Created, Calls, At, Runs
<1>2. IF r.fault THEN Halt
      ELSE /\ k' = [r EXCEPT !.pendSV = @ \/ (ctx = "isr" /\ t = k.run)]
           /\ pc' = [pc EXCEPT ![t] = "user"]
  BY DEF LOS_TaskDelete
<1>3. ASSUME Halt PROVE Quiet
  BY <1>1, <1>3 DEF Halt, Kernel, Quiet, SameWaits
<1>4. CASE t \in k.timer \/ k.status[t] \cap {"DELAY", "TIMEOUT"} = {}
  <2>1. /\ r \in Kernel /\ r.fault = k.fault /\ r.status[t] = {"UNUSED"}
        /\ \A u \in TaskID : u # t => r.status[u] = k.status[u]
        /\ \A w \in WaitList : r.list[w] = Unlink(k.list[w], t)
    BY <1>1, <1>4, DeleteEffect
  <2>2. k'.list = r.list /\ k'.status = r.status /\ pc' = [pc EXCEPT ![t] = "user"]
    <3> HIDE DEF r
    <3> QED BY <1>1, <1>2, <2>1 DEF Kernel
  <2> HIDE DEF r
  <2>3. "Delete" \in TaskCalls \cup IsrCalls
    BY DEF LOS_TaskDelete, Calls
  <2> QED BY <1>1, <2>1, <2>2, <2>3 DEF Vanishes, Leaves, Waiting, TaskID
<1>5. CASE t \notin k.timer /\ k.status[t] \cap {"DELAY", "TIMEOUT"} # {}
  BY <1>1, <1>2, <1>3, <1>5, DeleteFaults DEF TaskID
<1> QED BY <1>4, <1>5

\* A task whose entry function has returned is in no call.
LEMMA EntryDeleteWaits ==
  ASSUME NEW P, Points(P), IInv(P), osTaskEntryDelete
  PROVE  k.run \in Task /\ Vanishes(k.run)
<1>0. PICK t : t = k.run
  OBVIOUS
<1>1. /\ t \in Task /\ t \in TaskID /\ k' = TaskDelete(k, t) /\ pc' = [pc EXCEPT ![t] = "user"]
      /\ pc[t] = "exit" /\ "UNUSED" \notin k.status[t]
      /\ t \in k.timer \/ k.status[t] \cap {"DELAY", "TIMEOUT"} = {}
      /\ k \in Kernel /\ Sound(k) /\ pc \in [TaskID -> P.all]
  BY <1>0, EntryAtEnd DEF IInv, Typed
<1>2. /\ k'.status[t] = {"UNUSED"}
      /\ \A u \in TaskID : u # t => k'.status[u] = k.status[u]
      /\ \A w \in WaitList : k'.list[w] = Unlink(k.list[w], t)
  BY <1>1, DeleteEffect
<1>3. Vanishes(t)
  BY <1>1, <1>2 DEF Vanishes, Leaves, Waiting, PC
<1> QED BY <1>0, <1>1, <1>3

\* A step of the task manager starts no wait; it ends one only because the
\* time limit of the call has passed, or the task is deleted.
LEMMA StepWaits ==
  ASSUME ~IsrRaces, NEW P, Points(P), IInv(P), [Next]_vars
  PROVE  Quiet \/ \E t \in Task : Expires(t) \/ Vanishes(t)
<1>1. CASE UNCHANGED vars
  BY <1>1 DEF vars, Quiet, SameWaits
<1>2. CASE KernelNext
  BY <1>2, KernelWaits
<1>3. CASE TaskNext
  BY <1>3, CallWaits, DeleteWaits, EntryDeleteWaits
<1> QED BY <1>1, <1>2, <1>3 DEF Next

\* A kernel call that ends the wait of a task.
LEMMA CallServes ==
  ASSUME NEW P, Points(P), IInv(P), NEW ctx \in {"task", "isr"}, NEW op, Calls(ctx, op),
         NEW kn, Repriced(kn), NEW t \in TaskID, NEW flag \in Waiting,
         k.status[t] \cap Waiting = {flag},
         ThenSchedule(ctx, osTaskWake(kn, t, flag))
  PROVE  IInv(P)' /\ Served(t) /\ k'.prio = kn.prio
<1>1. ctx = "task" => k.run \in TaskID /\ ~k.pendSV /\ pc[k.run] = "user"
  BY DEF Calls, At, Runs
<1>2. ctx = "task" => k.status[k.run] \cap Limbo = {}
  BY <1>1 DEF IInv, Blocked, PC
<1>3. /\ IInv(P)' /\ pc' = IF ctx = "task" THEN [pc EXCEPT ![k.run] = "schedule"] ELSE pc
      /\ \A w \in WaitList : k'.list[w] = Unlink(k.list[w], t)
      /\ \A u \in CB \ {t} : k'.status[u] = k.status[u]
      /\ k'.status[t] \cap Limbo = {} /\ k'.prio = kn.prio
  BY <1>1, <1>2, Wakes
<1>4. \A u \in TaskID : pc'[u] = pc[u] \/ {pc[u], pc'[u]} \subseteq PC
  BY <1>1, <1>3 DEF IInv, Typed, PC
<1>5. pc'[t] = pc[t]
  <2>1. ctx = "task" => k.run # t
    BY <1>2 DEF Limbo
  <2> QED BY <1>3, <2>1 DEF IInv, Typed
<1>6. \A u \in TaskID \ {t} : k'.status[u] \cap Limbo = k.status[u] \cap Limbo
  BY <1>3 DEF CB
<1>7. k'.status[t] \cap Waiting = {}
  BY <1>3 DEF Limbo
<1> QED BY <1>3, <1>4, <1>5, <1>6, <1>7 DEF Served, Leaves

\* What the lists hold after a task has left them.
LEMMA LeavesLists ==
  ASSUME k \in Kernel, ListsOK(k), NEW W \in SUBSET WaitList, NEW t \in TaskID, Leaves(t)
  PROVE  \A w \in W : /\ ToSet(k'.list[w]) = ToSet(k.list[w]) \ {t}
                      /\ t \notin ToSet(k.list[w]) => k'.list[w] = k.list[w]
                      /\ k'.list[w] # <<>> => k.list[w] # <<>>
<1> SUFFICES ASSUME NEW w \in W
             PROVE  /\ ToSet(k'.list[w]) = ToSet(k.list[w]) \ {t}
                    /\ t \notin ToSet(k.list[w]) => k'.list[w] = k.list[w]
                    /\ k'.list[w] # <<>> => k.list[w] # <<>>
  OBVIOUS
<1>1. /\ k'.list[w] = Unlink(k.list[w], t)
      /\ k.list[w] \in Seq(TaskID) /\ IsInjective(k.list[w])
  BY DEF Leaves, Kernel, ListsOK, ListHead
<1>2. k.list[w] = <<>> => t \notin ToSet(k.list[w])
  BY <1>1, EmptySeq, LenProperties DEF ToSet
<1> QED BY <1>1, <1>2, UnlinkFacts DEF Unlink

\* The steps that do not touch the lists of W, nor the calls at the points S.
Still(W, S) ==
  /\ \A w \in W : k'.list[w] = k.list[w]
  /\ \A t \in TaskID : \/ pc'[t] = pc[t] /\ k'.status[t] \cap Limbo = k.status[t] \cap Limbo
                       \/ pc[t] \notin S /\ pc'[t] \notin S

\* Quiet steps leave every list and every call that waits alone.
LEMMA QuietStill ==
  ASSUME NEW W \in SUBSET WaitList, NEW S, S \cap PC = {}, Quiet
  PROVE  Still(W, S)
BY DEF Quiet, Still, SameWaits, PC

\* A task that is served touches the lists and the points of its own call only.
LEMMA ServedStill ==
  ASSUME k \in Kernel, ListsOK(k), NEW W \in SUBSET WaitList, NEW S, S \cap PC = {},
         NEW t \in TaskID, Served(t), pc[t] \notin S,
         \A w \in W : t \notin ToSet(k.list[w])
  PROVE  Still(W, S)
<1>1. Leaves(t) /\ pc'[t] = pc[t]
  BY DEF Served
<1>2. \A w \in W : k'.list[w] = k.list[w]
  BY ZenonT(60), <1>1, LeavesLists
<1> QED BY <1>1, <1>2 DEF Still, Leaves

-----------------------------------------------------------------------------
(* The guarantees *)

\* Every variable keeps its type, while handlers keep to the rules of LosTask.
THEOREM TypeCorrect ==
  ASSUME ~IsrRaces
  PROVE  Spec => []TypeOK
<1>1. IInv(TaskPoints) => TypeOK
  BY DEF IInv, Typed, TaskPoints, TypeOK
<1> QED BY <1>1, Invariance, PTL

\* The ready queue, its bitmap, the wait lists, the timeout list and the
\* status words describe the same situation in every state, however calls,
\* ticks, switches and the handlers that keep to the rules of LosTask (none of
\* them interrupts osTaskScan) interleave (los_task.c, los_priqueue.c).
THEOREM Consistent ==
  ASSUME ~IsrRaces
  PROVE  Spec => []KernelConsistent
<1>1. IInv(TaskPoints) => KernelConsistent
  <2> SUFFICES ASSUME IInv(TaskPoints) PROVE KernelOK(k)
    BY DEF KernelConsistent
  <2> QED BY SoundConsistent DEF IInv, Typed, Dispatch
<1> QED BY <1>1, Invariance, PTL

\* While handlers keep to the rules of LosTask, LOS_ListDelete never meets the
\* NULL links of a task that is on no list.
THEOREM NoNullLink ==
  ASSUME ~IsrRaces
  PROVE  Spec => []NoFault
<1>1. IInv(TaskPoints) => NoFault
  BY DEF IInv, Sane, TaskPoints, NoFault
<1> QED BY <1>1, Invariance, PTL

\* Preemptive priority scheduling: the most urgent ready task, the longest
\* waiting of them, computes or is about to (LOS_Schedule, osPriqueueTop).
THEOREM Preemptive ==
  ASSUME ~IsrRaces
  PROVE  Spec => []HighestRuns
<1>1. IInv(TaskPoints) => HighestRuns
  BY DEF IInv, Typed, Dispatch, TaskPoints, PC, HighestRuns
<1> QED BY <1>1, Invariance, PTL

\* A task that computes, or is being switched to, is in the ready queue.
THEOREM OnlyReadyRun ==
  ASSUME ~IsrRaces
  PROVE  Spec => []RunningReady
<1>1. IInv(TaskPoints) => RunningReady
  BY DEF IInv, Typed, Dispatch, TaskPoints, PC, RunningReady
<1> QED BY <1>1, Invariance, PTL

\* A round of osTaskScan does not change the running task.
LEMMA ScanRun ==
  ASSUME NEW kn \in Kernel, NEW t \in TaskID, NEW st
  PROVE  ScanTask(kn, t, st).run = kn.run
BY DEF ScanTask, MakeReady, osPriqueueEnqueue, ListTailInsert, ListDelete, SetFlags, ClearFlags,
       Kernel

\* Only PendSV, and a task's own deletion, change the running task.
LEMMA RunKept ==
  ASSUME ~IsrRaces, NEW P, Points(P), IInv(P), [Next]_vars, ~PendSV
  PROVE  k'.run = k.run \/ k'.run = Dummy
<1>1. k \in Kernel /\ Sound(k) /\ k.status \in [CB -> SUBSET Flag]
  BY DEF IInv, Typed, Kernel
<1> DEFINE Kept(kn) == kn \in Kernel /\ kn.run = k.run
<1>2. \A kn : Kept(kn) => Kept(LOS_Schedule(kn))
  BY ScheduleType DEF LOS_Schedule, Kernel
<1>3. \A kn : \A t \in TaskID : Kept(kn) => Kept(MakeReady(kn, t)) /\ Kept(MakeUnready(kn, t))
  BY MakeReadyType, MakeUnreadyType, MakeReadyEffect, MakeUnreadyEffect DEF SameSwitch
<1>4. \A kn : \A t \in CB, f \in Flag : Kept(kn) => Kept(SetFlags(kn, t, {f})) /\ Kept(ClearFlags(kn, t, {f}))
  <2> SUFFICES ASSUME NEW kn \in Kernel, kn.run = k.run, NEW t \in CB, NEW f \in Flag
               PROVE  Kept(SetFlags(kn, t, {f})) /\ Kept(ClearFlags(kn, t, {f}))
    OBVIOUS
  <2>1. {f} \in SUBSET Flag
    OBVIOUS
  <2> QED BY <2>1, FlagsType, FlagsEffect DEF SameSwitch
<1>5. Kept(k) /\ Task \subseteq CB /\ Task \subseteq TaskID /\ {"SUSPEND", "DELAY"} \subseteq Flag
  BY <1>1 DEF CB, TaskID, Flag
<1> HIDE DEF Kept
<1>7. \A ctx, kn : Kept(kn) /\ (ThenSchedule(ctx, kn) \/ ThenReturn(kn)) => Kept(k')
  BY <1>2 DEF ThenSchedule, ThenReturn
<1>8. Kept(k') => k'.run = k.run
  BY DEF Kept
<1>9. ASSUME NEW ctx \in {"task", "isr"}, NEW t \in Task, NEW p \in Pri,
             LOS_TaskCreateOnly(ctx, t, p)
      PROVE  k'.run = k.run
  BY <1>1, <1>9 DEF LOS_TaskCreateOnly, ThenReturn, Kernel
<1>10. ASSUME NEW ctx \in {"task", "isr"}, NEW t \in Task, NEW p \in Pri,
              LOS_TaskCreate(ctx, t, p)
       PROVE  k'.run = k.run
  <2> DEFINE k1 == [k EXCEPT !.status[t] = {"SUSPEND"}, !.prio[t] = p]
             k2 == MakeReady(ClearFlags(k1, t, {"SUSPEND"}), t)
  <2>1. Kept(k1)
    BY <1>1 DEF Kept, Kernel, Flag
  <2> HIDE DEF k1
  <2>2. Kept(k2)
    BY <1>3, <1>4, <1>5, <2>1
  <2> HIDE DEF k2
  <2> QED BY <1>10, <2>2 DEF LOS_TaskCreate, ThenReturn, Kept, Kernel, k1, k2
<1>11. ASSUME NEW ctx \in {"task", "isr"}, NEW t \in Task, LOS_TaskResume(ctx, t)
       PROVE  k'.run = k.run
  <2>1. Kept(ClearFlags(k, t, {"SUSPEND"})) /\ Kept(MakeReady(ClearFlags(k, t, {"SUSPEND"}), t))
    BY <1>3, <1>4, <1>5
  <2> QED BY <1>7, <1>8, <1>11, <2>1 DEF LOS_TaskResume
<1>12. ASSUME NEW ctx \in {"task", "isr"}, NEW t \in Task, LOS_TaskSuspend(ctx, t)
       PROVE  k'.run = k.run
  <2>1. /\ Kept(SetFlags(k, t, {"SUSPEND"}))
        /\ Kept(SetFlags(MakeUnready(k, t), t, {"SUSPEND"}))
    BY <1>3, <1>4, <1>5
  <2> QED BY <1>7, <1>8, <1>12, <2>1 DEF LOS_TaskSuspend
<1>13. ASSUME NEW ctx \in {"task", "isr"}, NEW t \in Task, LOS_TaskDelete(ctx, t)
       PROVE  k'.run = k.run \/ k'.run = Dummy
  <2> DEFINE r == TaskDelete(k, t)
  <2>0. "UNUSED" \notin k.status[t] /\ t \in TaskID
    BY <1>5, <1>13 DEF LOS_TaskDelete, Created
  <2>1. CASE t \in k.timer \/ k.status[t] \cap {"DELAY", "TIMEOUT"} = {}
    <3>1. r \in Kernel /\ (r.run = k.run \/ r.run = Dummy)
      BY <1>1, <2>0, <2>1, DeleteEffect
    <3> HIDE DEF r
    <3>2. k' = [k EXCEPT !.fault = TRUE] \/ \E b : k' = [r EXCEPT !.pendSV = b]
      BY <1>13 DEF LOS_TaskDelete, Halt, r
    <3> QED BY <1>1, <3>1, <3>2 DEF Kernel
  <2>2. CASE ~(t \in k.timer \/ k.status[t] \cap {"DELAY", "TIMEOUT"} = {})
    <3>1. TaskDelete(k, t).fault
      BY <1>1, <2>0, <2>2, DeleteFaults
    <3> QED BY <1>1, <1>13, <3>1 DEF LOS_TaskDelete, Halt, Kernel
  <2> QED BY <2>1, <2>2
<1>14. ASSUME NEW t \in Task, NEW p \in Pri, LOS_TaskPriSet(t, p)
       PROVE  k'.run = k.run
  <2>1. \A kn : Kept(kn) => Kept([kn EXCEPT !.prio[t] = p])
    BY DEF Kept, Kernel
  <2>2. Kept(osTaskPriModify(k, t, p))
    BY <1>3, <1>5, <2>1 DEF osTaskPriModify
  <2> QED BY <1>7, <1>8, <1>14, <2>2 DEF LOS_TaskPriSet
<1>15. ASSUME NEW n \in Delays, LOS_TaskDelay(n)
       PROVE  k'.run = k.run
  <2>1. k.run \in TaskID /\ k.run \in CB /\ n \in Nat
    BY <1>15, BoundsAssumption DEF LOS_TaskDelay, Calls, At, CB
  <2>2. \A kn : Kept(kn) => Kept(osTaskAdd2TimerList(kn, k.run, n))
    <3>1. \A kn \in Kernel : osTaskAdd2TimerList(kn, k.run, n).run = kn.run
      BY DEF osTaskAdd2TimerList, Kernel
    <3> QED BY <2>1, <3>1, TimerType DEF Kept
  <2>3. Kept(SetFlags(osTaskAdd2TimerList(MakeUnready(k, k.run), k.run, n), k.run, {"DELAY"}))
    BY <1>3, <1>4, <1>5, <2>1, <2>2
  <2>4. [k EXCEPT !.fault = TRUE].run = k.run
    BY <1>1 DEF Kernel
  <2> QED BY <1>7, <1>8, <1>15, <2>3, <2>4 DEF LOS_TaskDelay, Halt
<1>16. CASE osTaskEntry \/ osTaskEntryDelete
  <2>1. CASE osTaskEntry
    BY <1>1, <2>1 DEF osTaskEntry, Kernel
  <2>2. CASE osTaskEntryDelete
    BY <1>1, <2>2, EntryAtEnd, DeleteEffect
  <2> QED BY <1>16, <2>1, <2>2
<1>17. CASE LOS_TaskYield \/ Tick
  <2>1. ASSUME CanYield(k)
        PROVE  Kept(Requeue(k)) /\ Kept(LOS_Schedule(Requeue(k)))
    <3>1. k.run \in TaskID /\ "READY" \in k.status[k.run] /\ ListsOK(k)
      BY <1>1, <2>1 DEF CanYield, Kernel, CB, Sound
    <3>2. Kept(Requeue(k))
      BY <1>1, <3>1, RequeueEffect, RequeueType DEF Kept, SameSwitch
    <3> QED BY <1>2, <3>2 DEF Kept
  <2>2. CASE LOS_TaskYield
    BY <1>7, <1>8, <2>1, <2>2 DEF LOS_TaskYield
  <2>3. CASE Tick
    <3>1. \E r, s : Kept(r) /\ osTimesliceCheck(k) = [r EXCEPT !.slice = s]
      BY <1>5, <2>1 DEF osTimesliceCheck
    <3>2. osTimesliceCheck(k).run = k.run /\ osTimesliceCheck(k) \in Kernel
      BY <1>1, <3>1, TimesliceType DEF Kept, Kernel
    <3> HIDE DEF Kept
    <3> QED BY <2>3, <3>2 DEF Tick, Kernel
  <2> QED BY <1>17, <2>2, <2>3
<1>18. CASE LOS_TaskLock \/ LOS_TaskUnlock
  BY <1>1, <1>18 DEF LOS_TaskLock, LOS_TaskUnlock, ThenReturn, ThenSchedule, Kernel
<1>19. CASE Schedule \/ DeadTaskSchedule \/ UNCHANGED vars
  BY <1>1, <1>2, <1>5, <1>8, <1>19 DEF Schedule, DeadTaskSchedule, vars, Kernel
<1>20. ASSUME NEW t \in Task, osTaskScan(t)
       PROVE  k'.run = k.run
  BY <1>1, <1>20, ScanRun DEF osTaskScan, TaskID
<1>21. CASE osTaskScanEnd
  <2> DEFINE k1 == IF k.need THEN LOS_Schedule(k) ELSE k
  <2>1. Kept(k1)
    BY <1>2, <1>5
  <2> HIDE DEF k1
  <2> QED BY <1>21, <2>1 DEF osTaskScanEnd, k1, Kept, Kernel
<1> QED BY <1>9, <1>10, <1>11, <1>12, <1>13, <1>14, <1>15, <1>16, <1>17, <1>18, <1>19,
           <1>20, <1>21 DEF Next, TaskNext, KernelNext

\* While handlers keep to the rules of LosTask, one of which is not to suspend
\* the task a pending switch leads to, PendSV_Handler never resumes a task that
\* is not in the ready queue.
THEOREM DispatchesReady ==
  ASSUME ~IsrRaces
  PROVE  Spec => DispatchReady
<1> DEFINE A == k'.run # k.run /\ k'.run # Dummy => "READY" \in k'.status[k'.run]
<1>0. Points(TaskPoints)
  BY DEF Points, TaskPoints
<1>1. IInv(TaskPoints) /\ [Next]_vars => [A]_vars
  <2> SUFFICES ASSUME IInv(TaskPoints), [Next]_vars PROVE A
    OBVIOUS
  <2>1. CASE PendSV
    <3>1. k \in Kernel /\ k.new \in TaskID /\ "READY" \in k.status[k.new]
      BY <2>1 DEF IInv, Typed, Dispatch, PendSV
    <3>2. k'.run = k.new /\ "READY" \in k'.status[k.new]
      BY <2>1, <3>1 DEF PendSV, PendSVHandler, SetFlags, ClearFlags, Kernel, CB
    <3> QED BY <3>2
  <2>2. CASE ~PendSV
    BY <1>0, <2>2, RunKept
  <2> QED BY <2>1, <2>2
<1> QED BY <1>1, Invariance, PTL DEF Spec, DispatchReady

\* The processor does not change hands while the scheduler is locked.
THEOREM LockHolds ==
  ASSUME ~IsrRaces
  PROVE  Spec => NoSwitchUnderLock
<1> DEFINE A == k'.run # k.run => k'.lock = 0
<1>0. Points(TaskPoints)
  BY DEF Points, TaskPoints
<1>1. IInv(TaskPoints) /\ [Next]_vars => [A]_vars
  <2> SUFFICES ASSUME IInv(TaskPoints), [Next]_vars PROVE A
    OBVIOUS
  <2>1. CASE PendSV
    <3>1. k.lock = 0 /\ k \in Kernel
      BY <2>1 DEF IInv, Typed, Dispatch, LockOK, PendSV
    <3>2. k'.lock = k.lock
      BY <2>1, <3>1 DEF PendSV, PendSVHandler, SetFlags, ClearFlags, Kernel
    <3> QED BY <3>1, <3>2
  <2>2. CASE ~PendSV
    <3>1. k'.run = k.run \/ k'.run = Dummy
      BY <1>0, <2>2, RunKept
    <3>2. k'.run = Dummy => k'.lock = 0
      <4>1. IInv(TaskPoints)'
        BY <1>0, StepInv
      <4> QED BY <4>1 DEF IInv, Dispatch, LockOK
    <3> QED BY <3>1, <3>2
  <2> QED BY <2>1, <2>2
<1> QED BY <1>1, Invariance, PTL DEF Spec, NoSwitchUnderLock
=============================================================================
