-------------------------- MODULE LosTicklessProofs --------------------------
(***************************************************************************)
(* What the wheel of timeouts, the tick and the tickless mode guarantee,   *)
(* for every number of tasks and slots, every length of a tick and of a    *)
(* sleep and every depth of interrupts.                                    *)
(***************************************************************************)
EXTENDS LosTickless, DeltaListProofs

-----------------------------------------------------------------------------
(* The wheel *)

\* A task is in the list of its index, once, or in none.
WheelOK(w) ==
  /\ w \in [cursor : Slot, link : [Slot -> Seq(Entries(Task))], index : [Task -> Slot]]
  /\ \A s \in Slot : Listed(Task, w.link[s])
  /\ \A s \in Slot : \A t \in Members(w.link[s]) : w.index[t] = s

\* The tasks in the wheel.
Waiting(w) == {t \in Task : t \in Members(w.link[w.index[t]])}

LEMMA SlotType == SortLinkLen \in Nat /\ SortLinkLen > 0 /\ \A s \in Slot : s \in Nat /\ s < SortLinkLen
BY SortLinkAssumption DEF Slot

LEMMA WheelType ==
  ASSUME NEW w, WheelOK(w)
  PROVE  /\ w.cursor \in Slot /\ \A t \in Task : w.index[t] \in Slot
         /\ \A s \in Slot : /\ Listed(Task, w.link[s]) /\ w.link[s] \in Seq(Entries(Task))
                            /\ Members(w.link[s]) \subseteq Task
<1>1. \A s \in Slot : Listed(Task, w.link[s]) /\ w.link[s] \in Seq(Entries(Task))
  BY DEF WheelOK, Listed
<1>2. ASSUME NEW s \in Slot
      PROVE  Members(w.link[s]) \subseteq Task
  <2>1. PICK r : r = w.link[s]
    OBVIOUS
  <2>2. \A n \in 1 .. Len(r) : r[n].timer \in Task
    BY <1>1, <2>1, EntryType
  <2> QED BY <2>1, <2>2 DEF Members
<1> QED BY <1>1, <1>2 DEF WheelOK

LEMMA LinkedFacts ==
  ASSUME NEW w, WheelOK(w), NEW t \in Task
  PROVE  /\ Linked(w, t) <=> t \in Waiting(w)
         /\ \A s \in Slot : t \in Members(w.link[s]) => t \in Waiting(w) /\ w.index[t] = s
<1>1. \A s \in Slot : t \in Members(w.link[s]) => w.index[t] = s
  BY DEF WheelOK
<1>2. ASSUME NEW s \in Slot
      PROVE  t \in Members(w.link[s]) <=> \E n \in DOMAIN w.link[s] : w.link[s][n].timer = t
  <2>1. DOMAIN w.link[s] = 1 .. Len(w.link[s])
    BY WheelType
  <2> QED BY <2>1 DEF Members
<1>3. w.index[t] \in Slot
  BY WheelType
<1>4. Linked(w, t) <=> \E s \in Slot : t \in Members(w.link[s])
  BY <1>2 DEF Linked
<1> QED BY <1>1, <1>3, <1>4 DEF Waiting

LEMMA Remainder ==
  ASSUME NEW p \in Nat, NEW z \in Nat, NEW l \in Nat, p < l
  PROVE  (p + z * l) % l = p
<1>1. z * l \in Nat
  OBVIOUS
<1> QED BY <1>1

\* The distance of two slots and the next slot, without the remainder.
LEMMA DistanceFacts ==
  ASSUME NEW w, w.cursor \in Slot, NEW s \in Slot
  PROVE  /\ Distance(w, s) = IF s > w.cursor THEN s - w.cursor ELSE s + SortLinkLen - w.cursor
         /\ Distance(w, s) \in 1 .. SortLinkLen
         /\ (s + 1) % SortLinkLen = IF s + 1 = SortLinkLen THEN 0 ELSE s + 1
<1>1. PICK l, c : l = SortLinkLen /\ c = w.cursor
  OBVIOUS
<1>2. l \in Nat /\ l > 0 /\ c \in Nat /\ c < l /\ s \in Nat /\ s < l
  BY <1>1, SlotType
<1>3. CASE s = c
  BY <1>1, <1>2, <1>3 DEF Distance
<1>4. CASE s > c
  <2>1. (s + l - c) % l = s - c
    BY <1>2, <1>4
  <2> QED BY <1>1, <1>2, <1>4, <2>1 DEF Distance
<1>5. CASE s < c
  <2>1. (s + l - c) % l = s + l - c
    BY <1>2, <1>5
  <2> QED BY <1>1, <1>2, <1>5, <2>1 DEF Distance
<1>6. (s + 1) % l = IF s + 1 = l THEN 0 ELSE s + 1
  BY <1>2
<1> QED BY <1>1, <1>2, <1>3, <1>4, <1>5, <1>6

\* The ticks until the cursor is at the slot of a task, as far as they are not over.
Until(w, s, scanning) == IF scanning /\ s = w.cursor THEN 0 ELSE Distance(w, s)

LEMMA LeftFacts ==
  ASSUME NEW w, WheelOK(w), NEW t \in Task, NEW scanning \in BOOLEAN
  PROVE  /\ t \notin Waiting(w) => TicksLeft(w, t, scanning) = 0
         /\ t \in Waiting(w) =>
              /\ TicksLeft(w, t, scanning) = Until(w, w.index[t], scanning)
                                             + EndOf(w.link[w.index[t]], t) * SortLinkLen
              /\ Until(w, w.index[t], scanning) \in Nat
              /\ EndOf(w.link[w.index[t]], t) \in Nat
              /\ EndOf(w.link[w.index[t]], t) * SortLinkLen \in Nat
         /\ TicksLeft(w, t, scanning) \in Nat
         /\ t \in Waiting(w) /\ ~scanning => TicksLeft(w, t, scanning) > 0
<1>1. PICK s, e, n : s = w.index[t] /\ e = EndOf(w.link[s], t) /\ n = e * SortLinkLen
  OBVIOUS
<1>2. s \in Slot /\ w.cursor \in Slot /\ Listed(Task, w.link[s])
  BY <1>1, WheelType
<1>3. Distance(w, s) \in Nat /\ Distance(w, s) > 0 /\ Until(w, s, scanning) \in Nat
      /\ (~scanning => Until(w, s, scanning) = Distance(w, s))
  <2>1. Distance(w, s) \in 1 .. SortLinkLen
    BY <1>2, DistanceFacts
  <2> QED BY <2>1, SlotType DEF Until
<1>4. t \notin Waiting(w) => TicksLeft(w, t, scanning) = 0
  BY LinkedFacts DEF TicksLeft
<1>5. ASSUME t \in Waiting(w)
      PROVE  /\ TicksLeft(w, t, scanning) = Until(w, s, scanning) + n
             /\ e \in Nat /\ n \in Nat
  <2>1. t \in Members(w.link[s])
    BY <1>1, <1>5 DEF Waiting
  <2>2. e \in Nat
    BY <1>1, <1>2, <2>1, EndFacts
  <2>3. n \in Nat
    BY <1>1, <2>2, SlotType
  <2>4. Linked(w, t)
    BY <1>5, LinkedFacts
  <2>5. TicksLeft(w, t, scanning) = IF scanning /\ s = w.cursor THEN n ELSE Distance(w, s) + n
    BY <1>1, <2>4 DEF TicksLeft, EndOf
  <2> QED BY <1>3, <2>2, <2>3, <2>5 DEF Until
<1> QED BY <1>1, <1>3, <1>4, <1>5

\* Only the list of slot s, and the indices.
Relinked(v, w, s, r, x) ==
  v = [cursor |-> w.cursor, link |-> [w.link EXCEPT ![s] = r], index |-> x]

\* What the tasks of the other lists have left stays, and those of the list have what is
\* left in the list.
LEMMA RelinkFacts ==
  ASSUME NEW w, WheelOK(w), NEW s \in Slot, NEW r, Listed(Task, r),
         \A t \in Members(r) : t \in Task,
         NEW x \in [Task -> Slot],
         \A t \in Members(r) : x[t] = s,
         \A t \in Task : t \notin Members(r) => x[t] = w.index[t],
         \A t \in Members(r) : t \in Waiting(w) => w.index[t] = s,
         NEW v, Relinked(v, w, s, r, x)
  PROVE  /\ WheelOK(v) /\ v.cursor = w.cursor
         /\ Waiting(v) = (Waiting(w) \ Members(w.link[s])) \cup Members(r)
         /\ \A t \in Task : \A scanning \in BOOLEAN :
              /\ t \in Members(r) =>
                   TicksLeft(v, t, scanning) = Until(w, s, scanning) + EndOf(r, t) * SortLinkLen
              /\ t \notin Members(r) /\ t \notin Members(w.link[s]) =>
                   TicksLeft(v, t, scanning) = TicksLeft(w, t, scanning)
<1>1. /\ v.cursor = w.cursor /\ v.link = [w.link EXCEPT ![s] = r] /\ v.index = x
      /\ v \in [cursor : Slot, link : [Slot -> Seq(Entries(Task))], index : [Task -> Slot]]
  BY DEF Relinked, WheelOK, Listed
<1>2. \A q \in Slot : v.link[q] = IF q = s THEN r ELSE w.link[q]
  BY <1>1 DEF WheelOK
<1>3. ASSUME NEW q \in Slot, NEW t \in Members(v.link[q])
      PROVE  v.index[t] = q
  <2>1. CASE q = s
    BY <1>1, <1>2, <1>3, <2>1
  <2>2. CASE q # s
    <3>1. t \in Members(w.link[q]) /\ t \in Task
      BY <1>2, <1>3, <2>2, WheelType
    <3>2. t \in Waiting(w) /\ w.index[t] = q
      BY <3>1, LinkedFacts
    <3>3. t \notin Members(r)
      BY <2>2, <3>2
    <3> QED BY <1>1, <3>1, <3>2, <3>3
  <2> QED BY <2>1, <2>2
<1>4. WheelOK(v)
  <2>1. \A q \in Slot : Listed(Task, v.link[q])
    BY <1>2, WheelType
  <2> QED BY <1>1, <1>3, <2>1 DEF WheelOK
<1>5. ASSUME NEW t \in Task, t \in Members(r)
      PROVE  t \in Waiting(v)
  BY <1>1, <1>2, <1>5 DEF Waiting
<1>6. ASSUME NEW t \in Task, t \notin Members(r)
      PROVE  /\ v.index[t] = w.index[t]
             /\ t \in Waiting(v) <=> t \in Waiting(w) /\ t \notin Members(w.link[s])
  <2>1. v.index[t] = w.index[t] /\ w.index[t] \in Slot
    BY <1>1, <1>6, WheelType
  <2>2. CASE w.index[t] = s
    <3>1. v.link[v.index[t]] = r
      BY <1>2, <2>1, <2>2
    <3> QED BY <1>6, <2>1, <2>2, <3>1 DEF Waiting
  <2>3. CASE w.index[t] # s
    <3>1. v.link[v.index[t]] = w.link[w.index[t]]
      BY <1>2, <2>1, <2>3
    <3>2. t \notin Members(w.link[s])
      BY <2>3, LinkedFacts
    <3> QED BY <2>1, <3>1, <3>2 DEF Waiting
  <2> QED BY <2>2, <2>3
<1>7. Waiting(v) = (Waiting(w) \ Members(w.link[s])) \cup Members(r)
  <2>1. Waiting(v) \subseteq Task /\ Waiting(w) \subseteq Task /\ Members(r) \subseteq Task
    BY DEF Waiting
  <2> QED BY <1>5, <1>6, <2>1
<1>8. ASSUME NEW t \in Task, NEW scanning \in BOOLEAN, t \in Members(r)
      PROVE  TicksLeft(v, t, scanning) = Until(w, s, scanning) + EndOf(r, t) * SortLinkLen
  <2>1. t \in Waiting(v) /\ v.index[t] = s /\ v.link[s] = r
    BY <1>1, <1>2, <1>5, <1>8
  <2>2. Until(v, s, scanning) = Until(w, s, scanning)
    BY <1>1 DEF Until, Distance
  <2>3. TicksLeft(v, t, scanning) =
          Until(v, v.index[t], scanning) + EndOf(v.link[v.index[t]], t) * SortLinkLen
    BY <1>4, <2>1, LeftFacts
  <2> QED BY ONLY <2>1, <2>2, <2>3
<1>9. ASSUME NEW t \in Task, NEW scanning \in BOOLEAN,
             t \notin Members(r), t \notin Members(w.link[s])
      PROVE  TicksLeft(v, t, scanning) = TicksLeft(w, t, scanning)
  <2>1. v.index[t] = w.index[t] /\ (t \in Waiting(v) <=> t \in Waiting(w))
    BY <1>6, <1>9
  <2>2. CASE t \notin Waiting(w)
    BY <1>4, <2>1, <2>2, LeftFacts
  <2>3. CASE t \in Waiting(w)
    <3>1. PICK q : q = w.index[t]
      OBVIOUS
    <3>2. q \in Slot /\ q # s
      BY <1>9, <2>3, <3>1, WheelType DEF Waiting
    <3>3. v.link[q] = w.link[q] /\ Until(v, q, scanning) = Until(w, q, scanning)
      BY <1>1, <1>2, <3>2 DEF Until, Distance
    <3>4. TicksLeft(v, t, scanning) =
            Until(v, v.index[t], scanning) + EndOf(v.link[v.index[t]], t) * SortLinkLen
      BY <1>4, <2>1, <2>3, LeftFacts
    <3>5. TicksLeft(w, t, scanning) =
            Until(w, w.index[t], scanning) + EndOf(w.link[w.index[t]], t) * SortLinkLen
      BY <2>3, LeftFacts
    <3> QED BY ONLY <2>1, <3>1, <3>3, <3>4, <3>5
  <2> QED BY <2>2, <2>3
<1> QED BY <1>1, <1>4, <1>7, <1>8, <1>9

\* What a task has left between two scans, and while its list may be being scanned.
Rest(w, t) == TicksLeft(w, t, FALSE)
RestInScan(w, t) == TicksLeft(w, t, TRUE)

\* osTaskAdd2TimerList gives the task its timeout and leaves the others theirs.
LEMMA AddFacts ==
  ASSUME NEW w, WheelOK(w), NEW t \in Task, t \notin Waiting(w), NEW n \in Nat \ {0},
         NEW v, v = osTaskAdd2TimerList(w, t, n)
  PROVE  /\ WheelOK(v) /\ Waiting(v) = Waiting(w) \cup {t} /\ Rest(v, t) = n
         /\ \A u \in Task \ {t} : Rest(v, u) = Rest(w, u)
<1> USE DEF Rest, RestInScan
<1>1. PICK l, c, q, m : l = SortLinkLen /\ c = w.cursor /\ q = n \div l /\ m = n % l
  OBVIOUS
<1>2. /\ l \in Nat /\ l > 0 /\ c \in Slot /\ c \in Nat /\ c < l
      /\ q \in Nat /\ m \in 0 .. l - 1 /\ m \in Nat /\ m < l /\ n = q * l + m
  <2>1. l \in Nat /\ l > 0 /\ c \in Slot /\ c \in Nat /\ c < l
    BY <1>1, SlotType, WheelType
  <2>2. q \in Nat /\ m \in 0 .. l - 1 /\ n = q * l + m
    BY ONLY <1>1, <2>1, n \in Nat
  <2> QED BY ONLY <2>1, <2>2
<1>3. PICK s : s = (n + c) % l
  OBVIOUS
<1>4. s = IF c + m < l THEN c + m ELSE c + m - l
  <2>1. CASE c + m < l
    <3>1. PICK p \in Nat : p = c + m
      BY <1>2
    <3>2. (p + q * l) % l = p /\ n + c = p + q * l
      BY <1>2, <2>1, <3>1
    <3> QED BY <1>3, <2>1, <3>1, <3>2
  <2>2. CASE ~(c + m < l)
    <3>1. PICK p \in Nat : p = c + m - l
      BY <1>2, <2>2
    <3>2. q + 1 \in Nat /\ (q + 1) * l = q * l + l /\ q * l \in Nat
      BY ONLY <1>2
    <3>3. p < l /\ n + c = p + (q + 1) * l
      BY <1>2, <2>2, <3>1, <3>2
    <3>4. PICK z \in Nat : z = q + 1
      BY <3>2
    <3>5. l \in Nat /\ p \in Nat /\ p < l
      BY <1>2, <3>1, <3>3
    <3>6. (p + z * l) % l = p
      BY ONLY <3>4, <3>5, Remainder
    <3>7. n + c = p + z * l
      BY ONLY <3>3, <3>4
    <3> QED BY ONLY <1>3, <2>2, <3>1, <3>6, <3>7
  <2> QED BY <2>1, <2>2
<1>5. s \in Slot
  BY <1>1, <1>2, <1>4 DEF Slot
<1>6. PICK x \in Nat : x = RollNum(n) /\ Distance(w, s) + x * l = n
  <2>1. Distance(w, s) = IF m = 0 THEN l ELSE m
    BY <1>1, <1>2, <1>4, <1>5, DistanceFacts
  <2>2. CASE m = 0
    <3>1. q > 0 /\ q - 1 \in Nat
      BY <1>2, <2>2
    <3>2. l + (q - 1) * l = n
      BY <1>2, <2>2, <3>1
    <3>3. RollNum(n) = q - 1
      BY <1>1, <1>2, <2>2 DEF RollNum
    <3> QED BY <2>1, <2>2, <3>1, <3>2, <3>3
  <2>3. CASE m # 0
    <3>1. RollNum(n) = q
      BY <1>1, <1>2, <2>3 DEF RollNum
    <3>2. m + q * l = n
      BY <1>2
    <3> QED BY <1>2, <2>1, <2>3, <3>1, <3>2
  <2> QED BY <2>2, <2>3
<1>7. PICK old : old = w.link[s]
  OBVIOUS
<1>8. Listed(Task, old) /\ t \notin Members(old) /\ Members(old) \subseteq Waiting(w)
      /\ \A u \in Members(old) : w.index[u] = s
  BY <1>5, <1>7, WheelType, LinkedFacts
<1>9. PICK r : r = Insert(old, t, x)
  OBVIOUS
<1>10. /\ Listed(Task, r) /\ Members(r) = Members(old) \cup {t} /\ EndOf(r, t) = x
       /\ \A u \in Members(old) : EndOf(r, u) = EndOf(old, u)
  BY <1>8, <1>9, InsertFacts
<1>11. PICK y : y = [w.index EXCEPT ![t] = s]
  OBVIOUS
<1>12. /\ y \in [Task -> Slot] /\ Members(r) \subseteq Task
       /\ \A u \in Members(r) : y[u] = s
       /\ \A u \in Task : u \notin Members(r) => y[u] = w.index[u]
       /\ \A u \in Members(r) : u \in Waiting(w) => w.index[u] = s
  <2>1. w.index \in [Task -> Slot]
    BY DEF WheelOK
  <2>2. y \in [Task -> Slot] /\ \A u \in Task : y[u] = IF u = t THEN s ELSE w.index[u]
    BY <1>5, <1>11, <2>1
  <2>3. Members(old) \subseteq Task
    BY <1>5, <1>7, WheelType
  <2> QED BY <1>8, <1>10, <2>2, <2>3
<1>13. Relinked(v, w, s, r, y)
  <2>1. PICK cu, li, ix : w = [cursor |-> cu, link |-> li, index |-> ix]
    BY DEF WheelOK
  <2>2. v = [w EXCEPT !.index[t] = s, !.link[s] = Insert(@, t, x)]
    BY <1>1, <1>3, <1>6 DEF osTaskAdd2TimerList
  <2>3. v = [cursor |-> cu, link |-> [li EXCEPT ![s] = Insert(@, t, x)],
             index |-> [ix EXCEPT ![t] = s]]
    BY ONLY <2>1, <2>2
  <2>4. [li EXCEPT ![s] = Insert(@, t, x)] = [li EXCEPT ![s] = r] /\ [ix EXCEPT ![t] = s] = y
    <3>1. w.link = li /\ w.index = ix
      BY ONLY <2>1
    <3>2. Insert(li[s], t, x) = r
      BY ONLY <1>7, <1>9, <3>1
    <3>3. [ix EXCEPT ![t] = s] = y
      BY ONLY <1>11, <3>1
    <3>4. [li EXCEPT ![s] = Insert(@, t, x)] = [li EXCEPT ![s] = r]
      BY ONLY <3>2
    <3> QED BY ONLY <3>3, <3>4
  <2>5. w.cursor = cu /\ w.link = li
    BY ONLY <2>1
  <2> QED BY ONLY <2>3, <2>4, <2>5 DEF Relinked
<1>14. /\ WheelOK(v) /\ Waiting(v) = (Waiting(w) \ Members(old)) \cup Members(r)
       /\ \A u \in Task :
            /\ u \in Members(r) =>
                 TicksLeft(v, u, FALSE) = Until(w, s, FALSE) + EndOf(r, u) * SortLinkLen
            /\ u \notin Members(r) /\ u \notin Members(old) =>
                 TicksLeft(v, u, FALSE) = TicksLeft(w, u, FALSE)
  <2>1. \A u \in Members(r) : u \in Task
    BY <1>12
  <2>2. /\ WheelOK(v) /\ Waiting(v) = (Waiting(w) \ Members(w.link[s])) \cup Members(r)
        /\ \A u \in Task : \A scanning \in BOOLEAN :
             /\ u \in Members(r) =>
                  TicksLeft(v, u, scanning) = Until(w, s, scanning) + EndOf(r, u) * SortLinkLen
             /\ u \notin Members(r) /\ u \notin Members(w.link[s]) =>
                  TicksLeft(v, u, scanning) = TicksLeft(w, u, scanning)
    BY ONLY <1>5, <1>10, <1>12, <1>13, <2>1, WheelOK(w), RelinkFacts
  <2> QED BY ONLY <1>7, <2>2
<1>15. TicksLeft(v, t, FALSE) = n
  BY <1>1, <1>6, <1>10, <1>14 DEF Until
<1>16. ASSUME NEW u \in Task \ {t}
       PROVE  TicksLeft(v, u, FALSE) = TicksLeft(w, u, FALSE)
  <2>1. CASE u \in Members(old)
    <3>1. u \in Waiting(w) /\ w.index[u] = s
      BY <1>8, <2>1
    <3>2. TicksLeft(w, u, FALSE) = Until(w, s, FALSE) + EndOf(old, u) * SortLinkLen
      BY <1>7, <3>1, LeftFacts
    <3> QED BY <1>10, <1>14, <2>1, <3>2
  <2>2. CASE u \notin Members(old)
    BY <1>10, <1>14, <2>2
  <2> QED BY <2>1, <2>2
<1> QED BY <1>8, <1>10, <1>14, <1>15, <1>16

\* One list gets shorter or is counted down.
LEMMA ShrinkFacts ==
  ASSUME NEW w, WheelOK(w), NEW s \in Slot, NEW r, Listed(Task, r),
         Members(r) \subseteq Members(w.link[s]),
         NEW v, v = [w EXCEPT !.link[s] = r]
  PROVE  /\ WheelOK(v) /\ v.cursor = w.cursor
         /\ Waiting(v) = (Waiting(w) \ Members(w.link[s])) \cup Members(r)
         /\ \A t \in Task : \A scanning \in BOOLEAN :
              /\ t \in Members(r) =>
                   TicksLeft(v, t, scanning) = Until(w, s, scanning) + EndOf(r, t) * SortLinkLen
              /\ t \in Members(w.link[s]) =>
                   TicksLeft(w, t, scanning) =
                     Until(w, s, scanning) + EndOf(w.link[s], t) * SortLinkLen
              /\ t \notin Members(w.link[s]) =>
                   TicksLeft(v, t, scanning) = TicksLeft(w, t, scanning)
<1>1. /\ w.index \in [Task -> Slot]
      /\ \A t \in Members(w.link[s]) : t \in Task /\ t \in Waiting(w) /\ w.index[t] = s
  <2>1. Members(w.link[s]) \subseteq Task
    BY WheelType
  <2> QED BY <2>1, LinkedFacts DEF WheelOK
<1>2. Relinked(v, w, s, r, w.index)
  BY DEF Relinked, WheelOK
<1>3. PICK x : x = w.index
  OBVIOUS
<1>4. /\ \A t \in Members(r) : t \in Task /\ x[t] = s /\ w.index[t] = s
      /\ x \in [Task -> Slot] /\ \A t \in Task : x[t] = w.index[t]
      /\ Relinked(v, w, s, r, x)
  BY <1>1, <1>2, <1>3
<1>5. /\ WheelOK(v) /\ v.cursor = w.cursor
      /\ Waiting(v) = (Waiting(w) \ Members(w.link[s])) \cup Members(r)
      /\ \A t \in Task : \A scanning \in BOOLEAN :
           /\ t \in Members(r) =>
                TicksLeft(v, t, scanning) = Until(w, s, scanning) + EndOf(r, t) * SortLinkLen
           /\ t \notin Members(r) /\ t \notin Members(w.link[s]) =>
                TicksLeft(v, t, scanning) = TicksLeft(w, t, scanning)
  BY ONLY <1>4, WheelOK(w), s \in Slot, Listed(Task, r), RelinkFacts
<1>6. ASSUME NEW t \in Task, NEW scanning \in BOOLEAN, t \in Members(w.link[s])
      PROVE  TicksLeft(w, t, scanning) = Until(w, s, scanning) + EndOf(w.link[s], t) * SortLinkLen
  <2>1. t \in Waiting(w) /\ w.index[t] = s
    BY <1>1, <1>6
  <2>2. TicksLeft(w, t, scanning) =
          Until(w, w.index[t], scanning) + EndOf(w.link[w.index[t]], t) * SortLinkLen
    BY <2>1, LeftFacts
  <2> QED BY ONLY <2>1, <2>2
<1> QED BY <1>5, <1>6

\* A task taken out of the wheel leaves the others what they have left.
LEMMA WheelDeleteFacts ==
  ASSUME NEW w, WheelOK(w), NEW t \in Waiting(w), NEW v, v = osTimerListDelete(w, t)
  PROVE  /\ WheelOK(v) /\ v.cursor = w.cursor /\ Waiting(v) = Waiting(w) \ {t}
         /\ \A u \in Task \ {t} : \A scanning \in BOOLEAN :
              TicksLeft(v, u, scanning) = TicksLeft(w, u, scanning)
<1>1. PICK s, old, r : s = w.index[t] /\ old = w.link[s] /\ r = Delete(old, t)
  OBVIOUS
<1>2. /\ t \in Task /\ s \in Slot /\ t \in Members(old) /\ Listed(Task, old)
      /\ Members(old) \subseteq Waiting(w)
  <2>1. t \in Task /\ t \in Members(old)
    BY <1>1 DEF Waiting
  <2>2. s \in Slot
    BY <1>1, <2>1, WheelType
  <2>3. Listed(Task, old) /\ Members(old) \subseteq Task
    BY <1>1, <2>2, WheelType
  <2> QED BY <1>1, <2>1, <2>2, <2>3, LinkedFacts
<1>3. /\ Listed(Task, r) /\ Members(r) = Members(old) \ {t}
      /\ \A u \in Members(r) : EndOf(r, u) = EndOf(old, u)
  BY ONLY <1>1, <1>2, DeleteFacts
<1>4. v = [w EXCEPT !.link[s] = r]
  <2>1. v = [w EXCEPT !.link[s] = Delete(w.link[s], t)]
    BY <1>1 DEF osTimerListDelete
  <2> QED BY <1>1, <2>1
<1>5. Members(r) \subseteq Members(w.link[s])
  BY <1>1, <1>3
<1>6. /\ WheelOK(v) /\ v.cursor = w.cursor
      /\ Waiting(v) = (Waiting(w) \ Members(w.link[s])) \cup Members(r)
      /\ \A u \in Task : \A scanning \in BOOLEAN :
           /\ u \in Members(r) =>
                TicksLeft(v, u, scanning) = Until(w, s, scanning) + EndOf(r, u) * SortLinkLen
           /\ u \in Members(w.link[s]) =>
                TicksLeft(w, u, scanning) =
                  Until(w, s, scanning) + EndOf(w.link[s], u) * SortLinkLen
           /\ u \notin Members(w.link[s]) =>
                TicksLeft(v, u, scanning) = TicksLeft(w, u, scanning)
  BY ONLY <1>2, <1>3, <1>4, <1>5, WheelOK(w), ShrinkFacts
<1>7. Waiting(v) = Waiting(w) \ {t}
  BY <1>1, <1>2, <1>3, <1>6
<1>8. ASSUME NEW u \in Task \ {t}, NEW scanning \in BOOLEAN
      PROVE  TicksLeft(v, u, scanning) = TicksLeft(w, u, scanning)
  <2>1. CASE u \in Members(old)
    <3>1. u \in Members(r) /\ EndOf(r, u) = EndOf(old, u)
      BY <1>3, <2>1
    <3> QED BY <1>1, <1>6, <2>1, <3>1
  <2>2. CASE u \notin Members(old)
    BY <1>1, <1>6, <2>2
  <2> QED BY <2>1, <2>2
<1> QED BY <1>6, <1>7, <1>8

\* The next tick: with the list of the new cursor being scanned, everyone has one less.
LEMMA AdvanceFacts ==
  ASSUME NEW w, WheelOK(w), NEW v, v = Advance(w)
  PROVE  /\ WheelOK(v) /\ Waiting(v) = Waiting(w)
         /\ \A t \in Waiting(w) : RestInScan(v, t) = Rest(w, t) - 1
<1> USE DEF Rest, RestInScan
<1>1. PICK l, c, d : l = SortLinkLen /\ c = w.cursor /\ d = (c + 1) % l
  OBVIOUS
<1>2. /\ l \in Nat /\ l > 0 /\ c \in Slot /\ c \in Nat /\ c < l
      /\ d = IF c + 1 = l THEN 0 ELSE c + 1
  <2>1. l \in Nat /\ l > 0 /\ c \in Slot /\ c \in Nat /\ c < l
    BY <1>1, SlotType, WheelType
  <2> QED BY ONLY <1>1, <2>1, DistanceFacts
<1>3. d \in Slot
  BY <1>1, <1>2 DEF Slot
<1>4. v.cursor = d /\ v.link = w.link /\ v.index = w.index
      /\ v \in [cursor : Slot, link : [Slot -> Seq(Entries(Task))], index : [Task -> Slot]]
  <2>1. v = [w EXCEPT !.cursor = d]
    BY <1>1 DEF Advance
  <2> QED BY <1>3, <2>1 DEF WheelOK
<1>5. WheelOK(v) /\ Waiting(v) = Waiting(w)
  BY <1>4 DEF WheelOK, Waiting
<1>6. ASSUME NEW s \in Slot
      PROVE  Until(v, s, TRUE) = Until(w, s, FALSE) - 1
  <2>1. s \in Nat /\ s < l
    BY <1>1, SlotType
  <2>2. Distance(w, s) = IF s > c THEN s - c ELSE s + l - c
    BY <1>1, <1>2, DistanceFacts
  <2>3. Distance(v, s) = IF s > d THEN s - d ELSE s + l - d
    BY <1>1, <1>3, <1>4, DistanceFacts
  <2>4. Until(v, s, TRUE) = IF s = d THEN 0 ELSE Distance(v, s)
    BY <1>4 DEF Until
  <2>5. Until(w, s, FALSE) = Distance(w, s)
    BY DEF Until
  <2>6. PICK a, b, x, y : /\ a = Distance(w, s) /\ b = Distance(v, s)
                          /\ x = Until(v, s, TRUE) /\ y = Until(w, s, FALSE)
    OBVIOUS
  <2>7. /\ a = (IF s > c THEN s - c ELSE s + l - c) /\ y = a
        /\ b = (IF s > d THEN s - d ELSE s + l - d)
        /\ x = IF s = d THEN 0 ELSE b
    BY <2>2, <2>3, <2>4, <2>5, <2>6
  <2>8. x = y - 1
    BY ONLY <1>2, <2>1, <2>7
  <2> QED BY <2>6, <2>8
<1>7. ASSUME NEW t \in Waiting(w)
      PROVE  TicksLeft(v, t, TRUE) = TicksLeft(w, t, FALSE) - 1
  <2>1. PICK s, m : s = w.index[t] /\ m = EndOf(w.link[s], t) * SortLinkLen
    OBVIOUS
  <2>2. t \in Task /\ s \in Slot
    BY <2>1, WheelType DEF Waiting
  <2>3. TicksLeft(w, t, FALSE) = Until(w, s, FALSE) + m
        /\ m \in Nat /\ Until(w, s, FALSE) \in Nat
    BY <2>1, <2>2, LeftFacts
  <2>4. TicksLeft(v, t, TRUE) = Until(v, s, TRUE) + m
    BY <1>4, <1>5, <2>1, <2>2, LeftFacts
  <2>5. Until(v, s, TRUE) = Until(w, s, FALSE) - 1
    BY <1>6, <2>2
  <2>6. PICK a, b : a = Until(w, s, FALSE) /\ b = Until(v, s, TRUE)
    OBVIOUS
  <2>7. a \in Nat /\ m \in Nat /\ b = a - 1
    BY <2>3, <2>5, <2>6
  <2>8. b + m = (a + m) - 1
    BY ONLY SMTT(60), <2>7
  <2> QED BY <2>3, <2>4, <2>6, <2>8
<1> QED BY <1>5, <1>7

\* The task whose round it is leaves the list with nothing left, and nobody else is touched.
LEMMA ExpireFacts ==
  ASSUME NEW w, WheelOK(w), Due(w), NEW v, v = Expire(w),
         NEW t, t = Head(w.link[w.cursor]).timer
  PROVE  /\ WheelOK(v) /\ t \in Waiting(w) /\ Waiting(v) = Waiting(w) \ {t}
         /\ RestInScan(w, t) = 0
         /\ \A u \in Task \ {t} : RestInScan(v, u) = RestInScan(w, u)
<1> USE DEF Rest, RestInScan
<1>1. PICK s, old, r : s = w.cursor /\ old = w.link[s] /\ r = Tail(old)
  OBVIOUS
<1>2. s \in Slot /\ Listed(Task, old) /\ Members(old) \subseteq Task
      /\ Members(old) \subseteq Waiting(w)
  <2>1. s \in Slot
    BY <1>1, WheelType
  <2>2. Listed(Task, old) /\ Members(old) \subseteq Task
    BY <1>1, <2>1, WheelType
  <2> QED BY <1>1, <2>1, <2>2, LinkedFacts
<1>3. old # <<>> /\ Head(old).count = 0
  BY <1>1 DEF Due
<1>4. /\ Head(old).timer = t /\ t \in Members(old) /\ EndOf(old, t) = 0
      /\ Listed(Task, r) /\ Members(r) = Members(old) \ {t}
      /\ \A u \in Members(r) : EndOf(r, u) = EndOf(old, u)
  <2>1. Head(old).timer = t
    BY <1>1
  <2> QED BY ONLY ZenonT(60), <1>1, <1>2, <1>3, <2>1, PopFacts
<1>5. v = [w EXCEPT !.link[s] = r]
  <2>1. v = [w EXCEPT !.link[s] = Tail(w.link[s])]
    BY <1>1 DEF Expire
  <2> QED BY <1>1, <2>1
<1>6. Members(r) \subseteq Members(w.link[s])
  BY <1>1, <1>4
<1>7. /\ WheelOK(v)
      /\ Waiting(v) = (Waiting(w) \ Members(w.link[s])) \cup Members(r)
      /\ \A u \in Task : \A scanning \in BOOLEAN :
           /\ u \in Members(r) =>
                TicksLeft(v, u, scanning) = Until(w, s, scanning) + EndOf(r, u) * SortLinkLen
           /\ u \in Members(w.link[s]) =>
                TicksLeft(w, u, scanning) =
                  Until(w, s, scanning) + EndOf(w.link[s], u) * SortLinkLen
           /\ u \notin Members(w.link[s]) =>
                TicksLeft(v, u, scanning) = TicksLeft(w, u, scanning)
  BY ONLY SMTT(60), <1>2, <1>4, <1>5, <1>6, WheelOK(w), ShrinkFacts
<1>8. Waiting(v) = Waiting(w) \ {t}
  BY <1>1, <1>2, <1>4, <1>7
<1>9. TicksLeft(w, t, TRUE) = 0
  <2>1. TicksLeft(w, t, TRUE) = Until(w, s, TRUE) + EndOf(old, t) * SortLinkLen
    BY <1>1, <1>2, <1>4, <1>7
  <2>2. Until(w, s, TRUE) = 0
    BY <1>1 DEF Until
  <2>3. EndOf(old, t) * SortLinkLen = 0
    BY <1>4, SlotType
  <2>4. TicksLeft(w, t, TRUE) = 0 + 0
    BY <2>1, <2>2, <2>3, Zenon
  <2>5. 0 + 0 = 0
    OBVIOUS
  <2> QED BY <2>4, <2>5, Zenon
<1>10. ASSUME NEW u \in Task \ {t}
       PROVE  TicksLeft(v, u, TRUE) = TicksLeft(w, u, TRUE)
  <2>1. CASE u \in Members(old)
    <3>1. u \in Members(r) /\ EndOf(r, u) = EndOf(old, u)
      BY <1>4, <2>1
    <3>2. TicksLeft(v, u, TRUE) = Until(w, s, TRUE) + EndOf(r, u) * SortLinkLen
      BY ONLY <1>7, <3>1, u \in Task \ {t}
    <3>3. TicksLeft(w, u, TRUE) = Until(w, s, TRUE) + EndOf(old, u) * SortLinkLen
      BY ONLY <1>1, <1>7, <2>1, u \in Task \ {t}
    <3> QED BY ONLY <3>1, <3>2, <3>3, Zenon
  <2>2. CASE u \notin Members(old)
    BY ONLY <1>1, <1>7, <2>2, u \in Task \ {t}
  <2> QED BY <2>1, <2>2
<1> QED BY <1>2, <1>4, <1>7, <1>8, <1>9, <1>10

\* What the scan leaves in the list loses a round, which is the way of the cursor back to it.
LEMMA LastRoundFacts ==
  ASSUME NEW w, WheelOK(w), ~Due(w), NEW v, v = LastRound(w)
  PROVE  /\ WheelOK(v) /\ Waiting(v) = Waiting(w)
         /\ \A t \in Task : Rest(v, t) = RestInScan(w, t)
<1> USE DEF Rest, RestInScan
<1>1. PICK s, old, l : s = w.cursor /\ old = w.link[s] /\ l = SortLinkLen
  OBVIOUS
<1>2. /\ s \in Slot /\ Listed(Task, old) /\ Members(old) \subseteq Task
      /\ Members(old) \subseteq Waiting(w) /\ l \in Nat
  <2>1. s \in Slot
    BY <1>1, WheelType
  <2>2. Listed(Task, old) /\ Members(old) \subseteq Task
    BY <1>1, <2>1, WheelType
  <2> QED BY <1>1, <2>1, <2>2, LinkedFacts, SlotType
<1>3. Until(w, s, TRUE) = 0 /\ Until(w, s, FALSE) = l
  BY <1>1 DEF Until, Distance
<1>4. ASSUME NEW t \in Task, t \notin Members(old)
      PROVE  TicksLeft(w, t, FALSE) = TicksLeft(w, t, TRUE)
  <2>1. CASE t \notin Waiting(w)
    BY <2>1, LeftFacts
  <2>2. CASE t \in Waiting(w)
    <3>1. w.index[t] # w.cursor
      BY <1>1, <1>4, <2>2 DEF Waiting
    <3>2. Until(w, w.index[t], FALSE) = Until(w, w.index[t], TRUE)
      BY <3>1 DEF Until
    <3>3. /\ TicksLeft(w, t, FALSE) =
               Until(w, w.index[t], FALSE) + EndOf(w.link[w.index[t]], t) * SortLinkLen
          /\ TicksLeft(w, t, TRUE) =
               Until(w, w.index[t], TRUE) + EndOf(w.link[w.index[t]], t) * SortLinkLen
      BY <2>2, LeftFacts
    <3> QED BY ONLY <3>2, <3>3
  <2> QED BY <2>1, <2>2
<1>5. CASE old = <<>>
  <2>1. v = w
    BY <1>1, <1>5 DEF LastRound
  <2>2. Members(old) = {}
    BY <1>5 DEF Members
  <2> QED BY <1>4, <2>1, <2>2
<1>6. CASE old # <<>>
  <2>1. PICK r : r = [old EXCEPT ![1].count = @ - 1]
    OBVIOUS
  <2>2. /\ Head(old) = old[1] /\ Head(old).count \in Nat
        /\ \A j \in Members(old) : Head(old).count <= EndOf(old, j) /\ EndOf(old, j) \in Nat
    <3>1. /\ Head(old) = old[1] /\ Head(old) \in Entries(Task)
          /\ \A j \in Members(old) : Head(old).count <= EndOf(old, j)
      BY ONLY <1>2, <1>6, PopFacts
    <3>2. \A j \in Members(old) : EndOf(old, j) \in Nat
      BY ONLY <1>2, EndFacts
    <3> QED BY <3>1, <3>2 DEF Entries
  <2>3. Head(old).count > 0
    BY <1>1, <1>6, <2>2 DEF Due
  <2>4. /\ Listed(Task, r) /\ Members(r) = Members(old)
        /\ \A j \in Members(old) : EndOf(r, j) = EndOf(old, j) - 1
    BY ONLY <1>2, <1>6, <2>1, <2>3, CountDownFacts
  <2>5. v = [w EXCEPT !.link[s] = r]
    <3>1. v = [w EXCEPT !.link[w.cursor][1].count = @ - 1]
      BY <1>1, <1>6 DEF LastRound
    <3>2. v = [w EXCEPT !.link[s] = [w.link[s] EXCEPT ![1].count = @ - 1]]
      BY <1>1, <3>1
    <3> QED BY <1>1, <2>1, <3>2
  <2>6. Members(r) \subseteq Members(w.link[s])
    BY <1>1, <2>4
  <2>7. /\ WheelOK(v)
        /\ Waiting(v) = (Waiting(w) \ Members(w.link[s])) \cup Members(r)
        /\ \A u \in Task : \A scanning \in BOOLEAN :
             /\ u \in Members(r) =>
                  TicksLeft(v, u, scanning) = Until(w, s, scanning) + EndOf(r, u) * SortLinkLen
             /\ u \in Members(w.link[s]) =>
                  TicksLeft(w, u, scanning) =
                    Until(w, s, scanning) + EndOf(w.link[s], u) * SortLinkLen
             /\ u \notin Members(w.link[s]) =>
                  TicksLeft(v, u, scanning) = TicksLeft(w, u, scanning)
    BY ONLY <1>2, <2>4, <2>5, <2>6, WheelOK(w), ShrinkFacts
  <2>8. Waiting(v) = Waiting(w)
    BY <1>1, <1>2, <2>4, <2>7
  <2>9. ASSUME NEW u \in Task
        PROVE  TicksLeft(v, u, FALSE) = TicksLeft(w, u, TRUE)
    <3>1. CASE u \in Members(old)
      <4>1. PICK e \in Nat : e = EndOf(old, u) /\ e > 0
        BY <2>2, <2>3, <3>1
      <4>2. TicksLeft(v, u, FALSE) = l + (e - 1) * l
        BY <1>1, <1>3, <2>4, <2>7, <3>1, <4>1
      <4>3. TicksLeft(w, u, TRUE) = 0 + e * l
        BY <1>1, <1>3, <2>7, <3>1, <4>1
      <4>4. l + (e - 1) * l = e * l /\ e * l \in Nat
        BY ONLY <1>2, <4>1
      <4>5. PICK z \in Nat : z = e * l
        BY <4>4
      <4>6. TicksLeft(v, u, FALSE) = z
        BY <4>2, <4>4, <4>5
      <4>7. TicksLeft(w, u, TRUE) = z
        <5>1. TicksLeft(w, u, TRUE) = 0 + z
          BY <4>3, <4>5, Zenon
        <5>2. 0 + z = z
          BY <4>5
        <5> QED BY <5>1, <5>2, Zenon
      <4> QED BY <4>6, <4>7
    <3>2. CASE u \notin Members(old)
      BY <1>1, <1>4, <2>7, <3>2
    <3> QED BY <3>1, <3>2
  <2> QED BY <2>7, <2>8, <2>9
<1> QED BY <1>5, <1>6

\* No task has less left than the ticks to the next switch.
LEMMA NextSwitchFacts ==
  ASSUME NEW w, WheelOK(w)
  PROVE  /\ osTaskNextSwitchTimeGet(w) \in Nat
         /\ \A t \in Waiting(w) : osTaskNextSwitchTimeGet(w) <= Rest(w, t)
<1> USE DEF Rest, RestInScan
<1> DEFINE used == {r \in Slot : w.link[r] # <<>>}
           ends(s) == Distance(w, s) + Head(w.link[s]).count * SortLinkLen
           next == {ends(s) : s \in used}
<1>1. osTaskNextSwitchTimeGet(w) = IF next = {} THEN 0 ELSE Min(next)
  BY DEF osTaskNextSwitchTimeGet
<1>2. ASSUME NEW s \in used
      PROVE  ends(s) \in Nat
  <2>1. PICK e : e = Head(w.link[s]).count
    OBVIOUS
  <2>2. s \in Slot /\ w.link[s] # <<>> /\ w.cursor \in Slot /\ Listed(Task, w.link[s])
    BY WheelType
  <2>3. Head(w.link[s]) \in Entries(Task)
    BY ONLY <2>2, PopFacts
  <2>4. e \in Nat /\ Distance(w, s) \in Nat
    BY SMTT(60), <2>1, <2>2, <2>3, DistanceFacts, SlotType DEF Entries
  <2>5. e * SortLinkLen \in Nat
    BY <2>4, SlotType
  <2> QED BY SMTT(60), <2>1, <2>4, <2>5
<1>3. next \subseteq Nat
  BY <1>2
<1>4. next # {} => Min(next) \in next /\ \A y \in next : Min(next) <= y
  <2> HIDE DEF next
  <2>1. SUFFICES ASSUME next # {}
                 PROVE  Min(next) \in next /\ \A y \in next : Min(next) <= y
    OBVIOUS
  <2>2. PICK x \in next : \A y \in Nat : <<y, x>> \in OpToRel(<, Nat) => y \notin next
    <3>1. IsWellFoundedOn(OpToRel(<, Nat), Nat)
      BY NatLessThanWellFounded
    <3> QED BY <1>3, <2>1, <3>1, WFMin
  <2>3. x \in Nat /\ \A y \in next : y \in Nat
    BY <1>3
  <2>4. ASSUME NEW y \in next, y < x
        PROVE  FALSE
    BY <2>2, <2>3, <2>4 DEF OpToRel
  <2>5. \A y \in next : x <= y
    BY <2>3, <2>4
  <2> QED BY <2>2, <2>5 DEF Min
<1>5. ASSUME NEW t \in Waiting(w)
      PROVE  next # {} /\ Min(next) <= TicksLeft(w, t, FALSE)
  <2>1. PICK s, e, a, b : /\ s = w.index[t] /\ e = Head(w.link[s]).count
                          /\ a = e * SortLinkLen /\ b = EndOf(w.link[s], t) * SortLinkLen
    OBVIOUS
  <2>2. t \in Task /\ s \in Slot /\ t \in Members(w.link[s]) /\ Listed(Task, w.link[s])
        /\ w.cursor \in Slot
    <3>1. t \in Task /\ t \in Members(w.link[s])
      BY <2>1 DEF Waiting
    <3> QED BY <2>1, <3>1, WheelType
  <2>3. w.link[s] # <<>>
    BY <2>2 DEF Members
  <2>4. e \in Nat /\ e <= EndOf(w.link[s], t) /\ EndOf(w.link[s], t) \in Nat
    <3>1. Head(w.link[s]) \in Entries(Task) /\ Head(w.link[s]).count <= EndOf(w.link[s], t)
      BY ONLY <2>2, <2>3, PopFacts
    <3>2. EndOf(w.link[s], t) \in Nat
      BY ONLY <2>2, EndFacts
    <3> QED BY <2>1, <3>1, <3>2 DEF Entries
  <2>5. a <= b /\ a \in Nat /\ b \in Nat
    <3>1. PICK x, y, l : x = e /\ y = EndOf(w.link[s], t) /\ l = SortLinkLen
      OBVIOUS
    <3>2. x \in Nat /\ y \in Nat /\ l \in Nat /\ x <= y
      BY <2>4, <3>1, SlotType
    <3>3. x * l \in Nat /\ y * l \in Nat
      BY ONLY SMTT(60), <3>2
    <3>4. CASE x = y
      BY SMTT(60), <2>1, <3>1, <3>3, <3>4
    <3>5. CASE x < y
      <4>1. x * l + l <= y * l
        BY ONLY <3>2, <3>5, ProductGrows
      <4> QED BY <2>1, <3>1, <3>2, <3>3, <4>1
    <3> QED BY <3>2, <3>4, <3>5
  <2>6. ends(s) \in next /\ s \in used /\ ends(s) = Distance(w, s) + a
    BY <2>1, <2>2, <2>3
  <2>7. TicksLeft(w, t, FALSE) = Distance(w, s) + b /\ Distance(w, s) \in Nat
    <3>1. Distance(w, s) \in Nat
      BY <2>2, DistanceFacts, SlotType
    <3> QED BY <2>1, <2>2, <3>1, LeftFacts DEF Until
  <2>8. Min(next) <= ends(s) /\ Min(next) \in Nat
    BY <1>3, <1>4, <2>6
  <2>9. PICK n, d : n = Min(next) /\ d = Distance(w, s)
    OBVIOUS
  <2>10. n \in Nat /\ d \in Nat /\ n <= d + a
    BY <2>6, <2>7, <2>8, <2>9
  <2>11. n <= d + b
    BY ONLY <2>5, <2>10
  <2>12. Min(next) <= TicksLeft(w, t, FALSE)
    BY <2>7, <2>9, <2>11
  <2>13. next # {}
    BY <2>6
  <2> QED BY <2>12, <2>13
<1> HIDE DEF next
<1>6. osTaskNextSwitchTimeGet(w) \in Nat
  <2>1. CASE next = {}
    <3>1. osTaskNextSwitchTimeGet(w) = 0
      BY <1>1, <2>1, Zenon
    <3> QED BY <3>1
  <2>2. CASE next # {}
    <3>1. osTaskNextSwitchTimeGet(w) = Min(next)
      BY <1>1, <2>2, Zenon
    <3> QED BY <1>3, <1>4, <2>2, <3>1, Zenon
  <2> QED BY <2>1, <2>2
<1>7. ASSUME NEW t \in Waiting(w)
      PROVE  osTaskNextSwitchTimeGet(w) <= TicksLeft(w, t, FALSE)
  <2>1. osTaskNextSwitchTimeGet(w) = Min(next)
    BY <1>1, <1>5, Zenon
  <2> QED BY <1>5, <2>1, Zenon
<1> QED BY <1>6, <1>7

LEMMA EmptyFacts == WheelOK(EmptyWheel) /\ Waiting(EmptyWheel) = {}
<1>1. 0 \in Slot
  BY SlotType DEF Slot
<1>2. Listed(Task, <<>>) /\ Members(<<>>) = {}
  BY DEF Listed, Members
<1>3. /\ EmptyWheel.cursor = 0 /\ \A s \in Slot : EmptyWheel.link[s] = <<>>
      /\ \A t \in Task : EmptyWheel.index[t] = 0
      /\ EmptyWheel \in [cursor : Slot, link : [Slot -> Seq(Entries(Task))], index : [Task -> Slot]]
  BY <1>1 DEF EmptyWheel
<1> QED BY <1>1, <1>2, <1>3 DEF WheelOK, Waiting

-----------------------------------------------------------------------------
(* The interrupts.  q stands for isr: what the outermost interrupt does      *)
(* decides, as those on top of it neither count ticks nor touch SysTick.     *)

Interrupt == [irq : {"tick", "other"}, todo : Nat, stage : {"update", "scan", "handler", "lastScan"}]

Upper == [irq |-> "other", todo |-> 0, stage |-> "handler"]

CatchesUp(q) == q # <<>> /\ q[1].stage \in {"update", "scan"}
Scans(q) == q # <<>> /\ q[1].stage \in {"scan", "lastScan"}
Serves(q) == q # <<>> /\ q[1].irq = "tick" /\ q[1].stage # "lastScan"

\* The ticks the interrupt still has to count.
Owed(q) ==
  (IF CatchesUp(q) THEN q[1].todo - (IF q[1].stage = "scan" THEN 1 ELSE 0) ELSE 0)
  + (IF Serves(q) THEN 1 ELSE 0)

Nesting(q, sl) ==
  /\ q \in Seq(Interrupt)
  /\ \A i \in 2 .. Len(q) : q[i] = Upper
  /\ q # <<>> => /\ q[1].stage = "lastScan" => q[1].irq = "tick"
                 /\ q[1].stage = "scan" => q[1].todo > 0
  /\ CatchesUp(q) <=> q # <<>> /\ sl > 1
  /\ CatchesUp(q) => Len(q) = 1

LEMMA NestFacts ==
  ASSUME NEW q, NEW sl, Nesting(q, sl)
  PROVE  /\ Len(q) \in Nat /\ (q = <<>> <=> Len(q) = 0)
         /\ \A i \in 1 .. Len(q) : q[i] \in Interrupt
         /\ Owed(q) \in Nat /\ (Serves(q) => Owed(q) > 0)
         /\ CatchesUp(q) /\ q[1].todo > 0 => Owed(q) > 0 \/ q[1].stage = "scan"
<1>1. /\ Len(q) \in Nat /\ (q = <<>> <=> Len(q) = 0)
      /\ \A i \in 1 .. Len(q) : q[i] \in Interrupt
  BY DEF Nesting
<1>2. CASE q = <<>>
  <2>1. ~CatchesUp(q) /\ ~Serves(q)
    BY <1>2 DEF CatchesUp, Serves
  <2> QED BY <1>1, <2>1 DEF Owed
<1>3. CASE q # <<>>
  <2>1. PICK n : n = q[1].todo
    OBVIOUS
  <2>2. n \in Nat /\ (q[1].stage = "scan" => n > 0)
    BY <1>1, <1>3, <2>1 DEF Nesting, Interrupt
  <2> QED BY <1>1, <2>1, <2>2 DEF Owed
<1> QED BY <1>2, <1>3

LEMMA NoneFacts ==
  /\ \A sl : Nesting(<<>>, sl)
  /\ ~CatchesUp(<<>>) /\ ~Scans(<<>>) /\ ~Serves(<<>>) /\ Owed(<<>>) = 0
BY DEF Nesting, CatchesUp, Scans, Serves, Owed

LEMMA OneFacts ==
  ASSUME NEW f \in Interrupt, NEW q, q = <<f>>
  PROVE  /\ q \in Seq(Interrupt) /\ Len(q) = 1 /\ q # <<>> /\ q[1] = f
         /\ CatchesUp(q) <=> f.stage \in {"update", "scan"}
         /\ Scans(q) <=> f.stage \in {"scan", "lastScan"}
         /\ Serves(q) <=> f.irq = "tick" /\ f.stage # "lastScan"
         /\ f.stage = "update" => Owed(q) = f.todo + (IF f.irq = "tick" THEN 1 ELSE 0)
         /\ f.stage = "scan" => Owed(q) = f.todo - 1 + (IF f.irq = "tick" THEN 1 ELSE 0)
         /\ f.stage = "handler" => Owed(q) = (IF f.irq = "tick" THEN 1 ELSE 0)
         /\ f.stage = "lastScan" => Owed(q) = 0
         /\ \A sl : /\ f.stage = "lastScan" => f.irq = "tick"
                    /\ f.stage = "scan" => f.todo > 0
                    /\ f.stage \in {"update", "scan"} <=> sl > 1
                    => Nesting(q, sl)
<1>1. q \in Seq(Interrupt) /\ Len(q) = 1 /\ q # <<>> /\ q[1] = f /\ f.todo \in Nat
  BY DEF Interrupt
<1>2. /\ CatchesUp(q) <=> f.stage \in {"update", "scan"}
      /\ Scans(q) <=> f.stage \in {"scan", "lastScan"}
      /\ Serves(q) <=> f.irq = "tick" /\ f.stage # "lastScan"
  BY <1>1 DEF CatchesUp, Scans, Serves
<1>3. /\ f.stage = "update" => Owed(q) = f.todo + (IF f.irq = "tick" THEN 1 ELSE 0)
      /\ f.stage = "scan" => Owed(q) = f.todo - 1 + (IF f.irq = "tick" THEN 1 ELSE 0)
      /\ f.stage = "handler" => Owed(q) = (IF f.irq = "tick" THEN 1 ELSE 0)
      /\ f.stage = "lastScan" => Owed(q) = 0
  BY <1>1, <1>2 DEF Owed
<1>4. ASSUME NEW sl, f.stage = "lastScan" => f.irq = "tick", f.stage = "scan" => f.todo > 0,
             f.stage \in {"update", "scan"} <=> sl > 1
      PROVE  Nesting(q, sl)
  BY <1>1, <1>2, <1>4 DEF Nesting
<1> QED BY <1>1, <1>2, <1>3, <1>4

\* Only the outermost interrupt counts ticks or serves the tick.
LEMMA TopFacts ==
  ASSUME NEW sl, Nesting(isr, sl), InIsr, Top.stage # "handler" \/ Top.irq = "tick"
  PROVE  /\ isr = <<Top>> /\ Top = isr[1] /\ Top \in Interrupt /\ Len(isr) = 1
         /\ Front(isr) = <<>> /\ \A f : SetTop(f) = <<f>>
<1>1. isr \in Seq(Interrupt) /\ isr # <<>> /\ Len(isr) \in Nat /\ Len(isr) > 0
      /\ \A i \in 2 .. Len(isr) : isr[i] = Upper
  BY DEF Nesting, InIsr
<1>2. Top = isr[Len(isr)]
  BY DEF Top, Last
<1>3. Len(isr) = 1
  <2>1. ASSUME Len(isr) > 1
        PROVE  FALSE
    <3>1. Top = Upper
      BY <1>1, <1>2, <2>1
    <3> QED BY <3>1 DEF Upper
  <2>2. PICK n : n = Len(isr)
    OBVIOUS
  <2>3. n \in Nat /\ n > 0
    BY <1>1, <2>2
  <2>4. n = 1 \/ n > 1
    BY ONLY <2>3
  <2> QED BY <2>1, <2>2, <2>4, Zenon
<1>4. isr = <<Top>> /\ Top = isr[1] /\ Top \in Interrupt
  BY <1>1, <1>2, <1>3
<1>5. Front(isr) = <<>>
  BY <1>3 DEF Front
<1>6. \A f : SetTop(f) = <<f>>
  BY <1>5 DEF SetTop
<1> QED BY <1>3, <1>4, <1>5, <1>6

\* An interrupt on top changes nothing.
LEMMA PushFacts ==
  ASSUME NEW q, NEW sl, Nesting(q, sl), ~(sl > 1), q # <<>>, NEW p, p = Append(q, Upper)
  PROVE  /\ Nesting(p, sl) /\ p # <<>> /\ Owed(p) = Owed(q)
         /\ (Scans(p) <=> Scans(q)) /\ (Serves(p) <=> Serves(q))
<1>1. q \in Seq(Interrupt) /\ Len(q) \in Nat /\ Len(q) > 0 /\ ~CatchesUp(q) /\ Upper \in Interrupt
  BY DEF Nesting, Upper, Interrupt
<1>2. /\ p \in Seq(Interrupt) /\ p # <<>> /\ p[1] = q[1]
      /\ \A i \in 2 .. Len(p) : p[i] = Upper
  BY <1>1 DEF Nesting
<1>3. (CatchesUp(p) <=> CatchesUp(q)) /\ (Scans(p) <=> Scans(q)) /\ (Serves(p) <=> Serves(q))
  BY <1>2 DEF CatchesUp, Scans, Serves
<1>4. Owed(p) = Owed(q)
  BY <1>2, <1>3 DEF Owed
<1>5. Nesting(p, sl)
  BY <1>1, <1>2, <1>3 DEF Nesting
<1> QED BY <1>2, <1>3, <1>4, <1>5

\* Nor does its end, or that of the outermost one when it is not the tick.
LEMMA PopIsrFacts ==
  ASSUME NEW sl, Nesting(isr, sl), InIsr, Top.stage = "handler", Top.irq = "other",
         NEW p, p = Front(isr)
  PROVE  /\ Nesting(p, sl) /\ ~(sl > 1) /\ Owed(p) = Owed(isr)
         /\ (Scans(p) <=> Scans(isr)) /\ (Serves(p) <=> Serves(isr))
<1>1. isr \in Seq(Interrupt) /\ isr # <<>> /\ Len(isr) \in Nat /\ Len(isr) > 0
  BY DEF Nesting, InIsr
<1>2. Top = isr[Len(isr)]
  BY DEF Top, Last
<1>3. ~CatchesUp(isr)
  BY <1>1, <1>2 DEF Nesting, CatchesUp
<1>4. ~(sl > 1)
  BY <1>1, <1>3 DEF Nesting
<1>5. CASE Len(isr) = 1
  <2>1. p = <<>> /\ isr[1].stage = "handler" /\ isr[1].irq = "other"
    BY <1>2, <1>5 DEF Front
  <2>2. ~Scans(isr) /\ ~Serves(isr) /\ Owed(isr) = 0
    BY <1>3, <2>1 DEF Scans, Serves, Owed
  <2> QED BY <1>4, <2>1, <2>2, NoneFacts
<1>6. CASE Len(isr) > 1
  <2>1. /\ p \in Seq(Interrupt) /\ Len(p) = Len(isr) - 1 /\ \A i \in 1 .. Len(p) : p[i] = isr[i]
    BY <1>1, <1>6 DEF Front
  <2>2. p # <<>> /\ p[1] = isr[1] /\ \A i \in 2 .. Len(p) : p[i] = Upper
    BY <1>1, <1>6, <2>1 DEF Nesting
  <2>3. ~CatchesUp(p) /\ (Scans(p) <=> Scans(isr)) /\ (Serves(p) <=> Serves(isr))
    BY <1>1, <1>3, <2>2 DEF CatchesUp, Scans, Serves
  <2>4. Owed(p) = Owed(isr)
    BY <1>3, <2>2, <2>3 DEF Owed
  <2>5. Nesting(p, sl)
    BY <1>1, <1>4, <2>1, <2>2, <2>3 DEF Nesting
  <2> QED BY <1>4, <2>3, <2>4, <2>5
<1>7. Len(isr) = 1 \/ Len(isr) > 1
  <2>1. PICK n : n = Len(isr)
    OBVIOUS
  <2>2. n \in Nat /\ n > 0
    BY <1>1, <2>1
  <2>3. n = 1 \/ n > 1
    BY ONLY <2>2
  <2> QED BY <2>1, <2>3, Zenon
<1> QED BY <1>5, <1>6, <1>7

LEMMA ScanningFacts ==
  ASSUME NEW sl, Nesting(isr, sl)
  PROVE  Scanning <=> Scans(isr)
<1>1. isr \in Seq(Interrupt) /\ DOMAIN isr = 1 .. Len(isr) /\ Len(isr) \in Nat
      /\ (isr = <<>> <=> Len(isr) = 0)
  BY DEF Nesting
<1>2. \A i \in DOMAIN isr : i # 1 => isr[i].stage = "handler"
  BY <1>1 DEF Nesting, Upper
<1> QED BY <1>1, <1>2 DEF Scanning, Scans

LEMMA CountingFacts ==
  ASSUME NEW sl, Nesting(isr, sl), Owed(isr) > 0
  PROVE  Counting
<1>1. isr # <<>>
  BY NoneFacts
<1>2. 1 \in DOMAIN isr /\ isr[1] \in Interrupt
  BY <1>1, NestFacts DEF Nesting
<1>3. Serves(isr) \/ isr[1].todo > (IF isr[1].stage = "scan" THEN 1 ELSE 0)
  BY <1>2 DEF Owed, Interrupt
<1> QED BY <1>2, <1>3 DEF Counting, Serves

-----------------------------------------------------------------------------
(* The clock *)

Asleep(sl, q) == sl > 1 /\ q = <<>>

SysTick == [val : Nat, load : Nat, pend : BOOLEAN]

\* In a sleep of sl ticks SysTick counts down to its end, and no tick is counted.  Otherwise it
\* counts down a tick, or what is left of one, and the ticks not counted are those that the
\* interrupt being served still has to count and the one pending.
Clock(sl, ph, la, fl, s, q) ==
  /\ sl = 0 \/ sl \in 2 .. MaxSleep
  /\ ph \in 0 .. CyclesPerTick - 1 /\ la \in Nat
  /\ fl \subseteq {"irq", "reload"} /\ ("irq" \in fl => "reload" \notin fl)
  /\ s \in SysTick /\ 1 <= s.val /\ s.val <= s.load
  /\ Asleep(sl, q) =>
       /\ fl = {} /\ s.load <= sl * CyclesPerTick
       /\ s.pend => la = sl /\ ph = s.load - s.val
       /\ ~s.pend => la < sl /\ s.val = sl * CyclesPerTick - (la * CyclesPerTick + ph)
  /\ ~Asleep(sl, q) =>
       /\ s.load <= CyclesPerTick /\ ("reload" \in fl \/ s.load = CyclesPerTick)
       /\ la = Owed(q) + (IF s.pend THEN 1 ELSE 0)
       /\ s.pend => Owed(q) = 0
       /\ s.val = (IF "reload" \in fl /\ (s.pend \/ Serves(q)) THEN s.load ELSE CyclesPerTick) - ph

\* n ticks are left, and not too few.
InTime(n, sl, la, q) == n > 0 => IF Asleep(sl, q) THEN sl <= n ELSE la <= n

LEMMA TickLength ==
  CyclesPerTick \in Nat /\ CyclesPerTick > 0 /\ CyclesPerTick > 2 /\ MaxSleep \in Nat /\ Word \in Nat
BY TicklessAssumption

LEMMA ClockCycle ==
  ASSUME NEW sl, NEW ph, NEW la, NEW fl, NEW s, NEW q, Nesting(q, sl), Clock(sl, ph, la, fl, s, q),
         s.pend \/ Owed(q) > 0 => s.val > 1 /\ s.load - s.val < CyclesPerTick - 1,
         NEW z, z = IF s.val = 1 THEN [s EXCEPT !.val = s.load, !.pend = TRUE]
                    ELSE [s EXCEPT !.val = @ - 1],
         NEW ph1, ph1 = (ph + 1) % CyclesPerTick,
         NEW la1, la1 = IF ph1 = 0 THEN la + 1 ELSE la
  PROVE  /\ Clock(sl, ph1, la1, fl, z, q)
         /\ \A n \in Nat : InTime(n, sl, la, q) => InTime(n, sl, la1, q)
<1>1. PICK c, v, l : c = CyclesPerTick /\ v = s.val /\ l = s.load
  OBVIOUS
<1>2. /\ c \in Nat /\ c > 0 /\ v \in Nat /\ l \in Nat /\ 1 <= v /\ v <= l
      /\ ph \in Nat /\ ph < c /\ la \in Nat
  BY <1>1, TickLength DEF Clock, SysTick
<1>3. ph1 = IF ph + 1 = c THEN 0 ELSE ph + 1
  BY SMTT(60), <1>1, <1>2
<1>4. /\ z \in SysTick /\ z.load = l
      /\ v = 1 => z.val = l /\ z.pend
      /\ v # 1 => z.val = v - 1 /\ (z.pend <=> s.pend)
  <2>1. s \in [val : Nat, load : Nat, pend : BOOLEAN] /\ z = IF v = 1
          THEN [s EXCEPT !.val = s.load, !.pend = TRUE] ELSE [s EXCEPT !.val = s.val - 1]
    BY <1>1 DEF Clock, SysTick
  <2>2. v = 1 => z.val = l /\ z.pend /\ z.load = l /\ z \in SysTick
    BY <1>1, <1>2, <2>1 DEF SysTick
  <2>3. v # 1 => z.val = v - 1 /\ (z.pend <=> s.pend) /\ z.load = l /\ z \in SysTick
    <3>1. ASSUME v # 1
          PROVE  z = [s EXCEPT !.val = v - 1] /\ v - 1 \in Nat
      BY <1>1, <1>2, <2>1, <3>1
    <3> QED BY <1>1, <2>1, <3>1 DEF SysTick
  <2> QED BY <2>2, <2>3
<1>5. ph1 \in 0 .. c - 1 /\ la1 \in Nat /\ 1 <= z.val /\ z.val <= l
  <2>1. ph1 \in 0 .. c - 1 /\ la1 \in Nat
    BY <1>2, <1>3
  <2> QED BY <1>2, <1>4, <2>1
<1>8. CASE s.pend
  <2>1. v > 1 /\ l - v < c - 1 /\ z.val = v - 1 /\ z.pend
    BY <1>1, <1>2, <1>4, <1>8
  <2>2. CASE Asleep(sl, q)
    <3>1. fl = {} /\ l <= sl * c /\ la = sl /\ ph = l - v
      BY <1>1, <1>8, <2>2 DEF Clock
    <3>2. ph1 = l - z.val /\ la1 = la
      BY <1>2, <1>3, <2>1, <3>1
    <3>3. Clock(sl, ph1, la1, fl, z, q)
      BY <1>1, <1>4, <1>5, <2>1, <2>2, <3>1, <3>2 DEF Clock
    <3> QED BY <2>2, <3>3 DEF InTime
  <2>3. CASE ~Asleep(sl, q)
    <3>1. /\ l <= c /\ ("reload" \in fl \/ l = c) /\ la = Owed(q) + 1 /\ Owed(q) = 0
          /\ v = (IF "reload" \in fl THEN l ELSE c) - ph
      BY <1>1, <1>8, <2>3 DEF Clock
    <3>2. ph1 = ph + 1 /\ la1 = la
      BY <1>2, <1>3, <2>1, <3>1
    <3>3. z.val = (IF "reload" \in fl THEN l ELSE c) - ph1
      BY <1>2, <2>1, <3>1, <3>2
    <3>4. Clock(sl, ph1, la1, fl, z, q)
      BY <1>1, <1>4, <1>5, <2>1, <2>3, <3>1, <3>2, <3>3 DEF Clock
    <3> QED BY <2>3, <3>2, <3>4 DEF InTime
  <2> QED BY <2>2, <2>3
<1>6. CASE ~s.pend /\ Asleep(sl, q)
  <2>1. /\ sl \in Nat /\ sl >= 2 /\ fl = {} /\ l <= sl * c /\ la < sl
        /\ v = sl * c - (la * c + ph)
    BY <1>1, <1>6 DEF Clock, Asleep
  <2>2. PICK a, b, d : a = la * c /\ b = sl * c /\ d = (la + 1) * c
    OBVIOUS
  <2>3. a \in Nat /\ b \in Nat /\ d = a + c /\ v = b - (a + ph)
    <3>1. a \in Nat /\ b \in Nat
      <4>1. la \in Nat /\ c \in Nat /\ sl \in Nat
        BY <1>2, <2>1
      <4> QED BY ONLY <2>2, <4>1
    <3>2. (la + 1) * c = la * c + c
      BY ONLY <1>2
    <3> QED BY <2>1, <2>2, <3>1, <3>2
  <2>4. la + 1 < sl => d + c <= b
    <3>1. PICK x \in Nat : x = la + 1
      BY <1>2
    <3> QED BY <1>2, <2>1, <2>2, <3>1, ProductGrows
  <2>5. la + 1 >= sl => la + 1 = sl /\ d = b
    BY SMTT(60), <1>2, <2>1, <2>2
  <2>6. CASE v = 1
    <3>1. ph + 1 = c /\ la + 1 = sl
      <4>1. CASE la + 1 < sl
        BY SMTT(60), <1>2, <2>3, <2>4, <2>6, <4>1
      <4>2. CASE la + 1 >= sl
        BY SMTT(60), <1>2, <2>3, <2>5, <2>6, <4>2
      <4> QED BY <1>2, <2>1, <4>1, <4>2
    <3>2. ph1 = 0 /\ la1 = sl /\ ph1 = z.load - z.val
      BY <1>2, <1>3, <1>4, <2>6, <3>1
    <3>3. Clock(sl, ph1, la1, fl, z, q)
      BY <1>1, <1>4, <1>5, <1>6, <2>1, <2>6, <3>2 DEF Clock
    <3> QED BY <1>6, <3>3 DEF InTime
  <2>7. CASE v # 1
    <3>1. CASE ph + 1 = c
      <4>1. ph1 = 0 /\ la1 = la + 1
        BY <1>3, <3>1
      <4>2. la + 1 < sl
        <5>1. la + 1 >= sl => v = 1
          BY ONLY <1>2, <2>3, <2>5, <3>1
        <5> QED BY ONLY <1>2, <2>1, <2>7, <5>1
      <4>3. z.val = b - (d + 0)
        BY <1>2, <1>4, <2>3, <2>7, <3>1
      <4>4. Clock(sl, ph1, la1, fl, z, q)
        BY <1>1, <1>4, <1>5, <1>6, <2>1, <2>2, <2>7, <4>1, <4>2, <4>3 DEF Clock
      <4> QED BY <1>6, <4>4 DEF InTime
    <3>2. CASE ph + 1 # c
      <4>1. ph1 = ph + 1 /\ la1 = la
        BY <1>2, <1>3, <3>2
      <4>2. z.val = b - (a + (ph + 1))
        BY <1>2, <1>4, <2>3, <2>7
      <4>3. Clock(sl, ph1, la1, fl, z, q)
        BY <1>1, <1>4, <1>5, <1>6, <2>1, <2>2, <2>7, <4>1, <4>2 DEF Clock
      <4> QED BY <1>6, <4>3 DEF InTime
    <3> QED BY <3>1, <3>2
  <2> QED BY <2>6, <2>7
<1>7. CASE ~s.pend /\ ~Asleep(sl, q)
  <2>1. Owed(q) \in Nat /\ (Serves(q) => Owed(q) > 0) /\ (q = <<>> => Owed(q) = 0)
    BY NestFacts, NoneFacts
  <2>2. /\ l <= c /\ ("reload" \in fl \/ l = c) /\ la = Owed(q)
        /\ v = (IF "reload" \in fl /\ Serves(q) THEN l ELSE c) - ph
        /\ sl = 0 \/ sl \in 2 .. MaxSleep
    <3>1. la = Owed(q) + 0
      BY <1>7 DEF Clock
    <3> QED BY <1>1, <1>7, <2>1, <3>1 DEF Clock
  <2>3. CASE v = 1
    <3>1. Owed(q) = 0 /\ ~Serves(q)
      BY <1>1, <2>2, <2>1, <2>3
    <3>2. ph + 1 = c /\ la1 = 1 /\ ph1 = 0
      BY <1>2, <1>3, <2>2, <2>3, <3>1
    <3>3. z.val = (IF "reload" \in fl THEN l ELSE c) - 0 /\ z.pend
      BY <1>2, <1>4, <2>2, <2>3
    <3>4. Clock(sl, ph1, la1, fl, z, q)
      BY <1>1, <1>4, <1>5, <1>7, <2>2, <3>1, <3>2, <3>3 DEF Clock
    <3> QED BY <1>7, <3>2, <3>4 DEF InTime
  <2>4. CASE v # 1
    <3>1. ph + 1 < c
      BY <1>2, <2>2, <2>4
    <3>2. ph1 = ph + 1 /\ la1 = la
      BY <1>2, <1>3, <3>1
    <3>3. z.val = (IF "reload" \in fl /\ Serves(q) THEN l ELSE c) - (ph + 1) /\ ~z.pend
      BY SMTT(60), <1>2, <1>4, <1>7, <2>2, <2>4
    <3>4. Clock(sl, ph1, la1, fl, z, q)
      BY <1>1, <1>4, <1>5, <1>7, <2>2, <3>2, <3>3 DEF Clock
    <3> QED BY <1>7, <3>2, <3>4 DEF InTime
  <2> QED BY <2>3, <2>4
<1> QED BY <1>6, <1>7, <1>8

\* Awake, the clock depends on what the outermost interrupt owes.
LEMMA ClockKept ==
  ASSUME NEW sl, NEW ph, NEW la, NEW fl, NEW s, NEW q, Clock(sl, ph, la, fl, s, q), ~Asleep(sl, q),
         NEW sl1, NEW q1, sl1 = sl \/ sl1 = 0, ~Asleep(sl1, q1),
         Owed(q1) = Owed(q), Serves(q1) <=> Serves(q)
  PROVE  /\ Clock(sl1, ph, la, fl, s, q1)
         /\ \A n \in Nat : InTime(n, sl, la, q) => InTime(n, sl1, la, q1)
BY DEF Clock, InTime

\* A tick counted by the loop of osTickHandlerLoop.
LEMMA ClockCounted ==
  ASSUME NEW sl, NEW ph, NEW la, NEW fl, NEW s, NEW q, Clock(sl, ph, la, fl, s, q), ~Asleep(sl, q),
         NEW q1, ~Asleep(sl, q1), Nesting(q1, sl),
         Owed(q) = Owed(q1) + 1, Serves(q1) <=> Serves(q)
  PROVE  /\ la > 0 /\ Clock(sl, ph, la - 1, fl, s, q1)
<1>1. Owed(q1) \in Nat
  BY NestFacts
<1>2. ~s.pend
  BY <1>1 DEF Clock
<1>3. la = Owed(q) + 0
  BY <1>2 DEF Clock
<1>4. la - 1 = Owed(q1) + 0 /\ la - 1 \in Nat /\ la > 0
  BY <1>1, <1>3
<1> QED BY <1>2, <1>4 DEF Clock

LEMMA CountedInTime ==
  ASSUME NEW sl, NEW la \in Nat, NEW q, ~Asleep(sl, q), NEW q1, ~Asleep(sl, q1),
         NEW n \in Nat, InTime(n, sl, la, q)
  PROVE  /\ n > 1 => InTime(n - 1, sl, la - 1, q1)
         /\ n = 1 => \A x \in Nat : InTime(x, sl, la - 1, q1)
         /\ InTime(0, sl, la - 1, q1)
BY DEF InTime

\* The tick handler is done with SysTick: the next tick takes as long as any.
LEMMA ClockServed ==
  ASSUME NEW sl, NEW ph, NEW la, NEW fl, NEW s, NEW q, Nesting(q, sl), Clock(sl, ph, la, fl, s, q),
         ~Asleep(sl, q), Serves(q), Owed(q) = 1,
         NEW q1, ~Asleep(sl, q1), Owed(q1) = 0, ~Serves(q1),
         NEW z, z = IF "reload" \in fl THEN LOS_SysTickReload(s, CyclesPerTick) ELSE s,
         NEW ph1, ph1 = IF "reload" \in fl THEN 0 ELSE ph
  PROVE  la = 1 /\ Clock(sl, ph1, 0, {"irq"}, z, q1)
<1>1. ~s.pend /\ s \in [val : Nat, load : Nat, pend : BOOLEAN]
  BY DEF Clock, SysTick
<1>2. la = 1
  <2>1. la = Owed(q) + 0
    BY <1>1 DEF Clock
  <2> QED BY <2>1
<1>3. CASE "reload" \in fl
  <2>1. z = [s EXCEPT !.load = CyclesPerTick, !.val = CyclesPerTick]
    BY <1>3 DEF LOS_SysTickReload
  <2>2. z \in SysTick /\ z.val = CyclesPerTick /\ z.load = CyclesPerTick /\ ~z.pend
    BY <1>1, <2>1, TickLength DEF SysTick
  <2> QED BY <1>2, <1>3, <2>2, TickLength DEF Clock
<1>4. CASE "reload" \notin fl
  <2>1. s.load = CyclesPerTick /\ s.val = CyclesPerTick - ph
    BY <1>4 DEF Clock
  <2> QED BY <1>1, <1>2, <1>4, <2>1 DEF Clock
<1> QED BY <1>3, <1>4

\* The tick is taken, no sleep being over.
LEMMA ClockTick ==
  ASSUME NEW sl, NEW ph, NEW la, NEW fl, NEW s, Clock(sl, ph, la, fl, s, <<>>),
         ~(sl > 1), s.pend,
         NEW q1, q1 # <<>>, Owed(q1) = 1, Serves(q1),
         NEW z, z = [s EXCEPT !.pend = FALSE]
  PROVE  /\ Clock(sl, ph, la, fl, z, q1)
         /\ \A n \in Nat : InTime(n, sl, la, <<>>) => InTime(n, sl, la, q1)
<1>1. ~Asleep(sl, <<>>) /\ ~Asleep(sl, q1)
  BY DEF Asleep
<1>2. s \in [val : Nat, load : Nat, pend : BOOLEAN] /\ la = 0 + 1
      /\ s.val = (IF "reload" \in fl THEN s.load ELSE CyclesPerTick) - ph
  BY <1>1, NoneFacts DEF Clock, SysTick
<1>3. z \in SysTick /\ z.val = s.val /\ z.load = s.load /\ ~z.pend
  BY <1>2 DEF SysTick
<1>4. Clock(sl, ph, la, fl, z, q1)
  BY <1>1, <1>2, <1>3 DEF Clock
<1> QED BY <1>1, <1>4 DEF InTime

\* The tick ends a sleep: it owes the ticks slept through but the last, and that one.
LEMMA ClockWakeTick ==
  ASSUME NEW sl, NEW ph, NEW la, NEW fl, NEW s, Clock(sl, ph, la, fl, s, <<>>),
         sl > 1, s.pend,
         NEW q1, q1 # <<>>, Owed(q1) = sl - 1 + 1, Serves(q1),
         NEW z, z = LOS_SysTickReload([s EXCEPT !.pend = FALSE], CyclesPerTick)
  PROVE  /\ Clock(sl, 0, la, fl \ {"reload"}, z, q1)
         /\ \A n \in Nat : InTime(n, sl, la, <<>>) => InTime(n, sl, la, q1)
<1>1. Asleep(sl, <<>>) /\ ~Asleep(sl, q1)
  BY DEF Asleep
<1>2. s \in [val : Nat, load : Nat, pend : BOOLEAN] /\ la = sl /\ fl = {}
      /\ sl \in 2 .. MaxSleep /\ sl \in Nat
  BY <1>1, TickLength DEF Clock, SysTick
<1>3. z \in SysTick /\ z.val = CyclesPerTick /\ z.load = CyclesPerTick /\ ~z.pend
  <2>1. z = [s EXCEPT !.pend = FALSE, !.load = CyclesPerTick, !.val = CyclesPerTick]
    BY DEF LOS_SysTickReload
  <2> QED BY <1>2, <2>1, TickLength DEF SysTick
<1>4. Clock(sl, 0, la, fl \ {"reload"}, z, q1)
  <2>1. fl \ {"reload"} = {} /\ la = Owed(q1) + 0
    BY <1>2
  <2> QED BY <1>1, <1>2, <1>3, <2>1, TickLength DEF Clock
<1> QED BY <1>1, <1>2, <1>4 DEF InTime

\* The cycles counted when another interrupt ends a sleep are those of SysTick's ticks that fell
\* due and of the part of the next.
LEMMA WakeFacts ==
  ASSUME NEW sl, NEW ph, NEW la, NEW fl, NEW s, Clock(sl, ph, la, fl, s, <<>>),
         sl > 1, ~s.pend,
         NEW e, e = (sl * CyclesPerTick + Word - (s.val + 0)) % Word
  PROVE  e % CyclesPerTick = ph /\ e \div CyclesPerTick = la
<1>1. Asleep(sl, <<>>)
  BY DEF Asleep
<1>2. PICK c, v, w : c = CyclesPerTick /\ v = s.val /\ w = Word
  OBVIOUS
<1>3. /\ c \in Nat /\ c > 0 /\ v \in Nat /\ 1 <= v /\ w \in Nat /\ sl \in Nat /\ sl <= MaxSleep
      /\ sl >= 2 /\ la \in Nat /\ la < sl /\ ph \in Nat /\ ph < c /\ fl = {}
      /\ v = sl * c - (la * c + ph)
      /\ s \in [val : Nat, load : Nat, pend : BOOLEAN]
  <2>1. /\ sl \in 2 .. MaxSleep /\ la \in Nat /\ la < sl /\ ph \in 0 .. c - 1 /\ fl = {}
        /\ v = sl * c - (la * c + ph) /\ 1 <= v
        /\ s \in [val : Nat, load : Nat, pend : BOOLEAN]
    <3>1. sl \in 2 .. MaxSleep
      BY DEF Clock
    <3> QED BY <1>1, <1>2, <3>1 DEF Clock, SysTick
  <2>2. c \in Nat /\ c > 0 /\ w \in Nat /\ v \in Nat /\ MaxSleep \in Nat
    BY <1>2, <2>1, TickLength
  <2>3. sl \in Nat /\ sl <= MaxSleep /\ sl >= 2 /\ ph \in Nat /\ ph < c
    BY ONLY <2>1, <2>2
  <2> QED BY <2>1, <2>2, <2>3
<1>4. PICK a, b : a = la * c /\ b = sl * c
  OBVIOUS
<1>5. a \in Nat /\ b \in Nat /\ v = b - (a + ph) /\ b <= w
  <2>1. a \in Nat /\ b \in Nat
    <3>1. la \in Nat /\ c \in Nat /\ sl \in Nat
      BY <1>3
    <3> QED BY ONLY <1>4, <3>1
  <2>2. b <= w
    <3>1. PICK m : m = MaxSleep
      OBVIOUS
    <3>2. m \in Nat /\ m * c <= w /\ sl <= m
      BY <1>2, <1>3, <3>1, TicklessAssumption
    <3>3. CASE sl = m
      BY <1>4, <3>2, <3>3
    <3>4. CASE sl < m
      <4>1. b + c <= m * c /\ m * c \in Nat
        BY <1>3, <1>4, <3>2, <3>4, ProductGrows, TickLength
      <4> QED BY <1>3, <2>1, <3>2, <4>1
    <3> QED BY <1>3, <3>2, <3>3, <3>4
  <2> QED BY <1>3, <1>4, <2>1, <2>2
<1>6. e = a + ph
  <2>1. e = (b + w - (v + 0)) % w
    BY <1>2, <1>4
  <2>2. b + w - (v + 0) = (a + ph) + w /\ a + ph \in Nat /\ a + ph < w
    BY <1>3, <1>5
  <2>3. PICK x \in Nat : x = a + ph
    BY <2>2
  <2>4. (x + w) % w = x
    BY ONLY <1>3, <2>2, <2>3
  <2> QED BY <2>1, <2>2, <2>3, <2>4
<1>7. e % c = ph /\ e \div c = la
  <2>1. e = ph + la * c
    BY <1>3, <1>4, <1>5, <1>6
  <2>2. (ph + la * c) % c = ph
    BY <1>3, Remainder
  <2>3. (ph + la * c) \div c = la
    BY ONLY <1>3
  <2> QED BY <1>2, <2>1, <2>2, <2>3
<1> QED BY <1>2, <1>7

\* Another interrupt ends a sleep: the cycles counted are the ticks that fell due and a part of
\* the next, which SysTick is loaded with.
LEMMA ClockWakeOther ==
  ASSUME NEW sl, NEW ph, NEW la, NEW fl, NEW s, Clock(sl, ph, la, fl, s, <<>>),
         sl > 1, ~s.pend,
         NEW e, e = (sl * CyclesPerTick + Word - (s.val + 0)) % Word,
         NEW rest, rest = e % CyclesPerTick,
         NEW q1, q1 # <<>>, Owed(q1) = e \div CyclesPerTick + 0, ~Serves(q1),
         NEW z, z = LOS_SysTickReload(s, IF rest > 0 THEN rest ELSE CyclesPerTick)
  PROVE  /\ e \div CyclesPerTick \in Nat
         /\ Clock(sl, IF rest > 0 THEN CyclesPerTick - rest ELSE 0, la,
                  IF rest > 0 THEN fl \cup {"reload"} ELSE fl \ {"reload"}, z, q1)
         /\ \A n \in Nat : InTime(n, sl, la, <<>>) => InTime(n, sl, la, q1)
<1>1. Asleep(sl, <<>>) /\ ~Asleep(sl, q1)
  BY DEF Asleep
<1>2. PICK c, v, w : c = CyclesPerTick /\ v = s.val /\ w = Word
  OBVIOUS
<1>3. /\ c \in Nat /\ c > 0 /\ v \in Nat /\ 1 <= v /\ w \in Nat /\ sl \in Nat /\ sl <= MaxSleep
      /\ sl >= 2 /\ la \in Nat /\ la < sl /\ ph \in Nat /\ ph < c /\ fl = {}
      /\ v = sl * c - (la * c + ph)
      /\ s \in [val : Nat, load : Nat, pend : BOOLEAN]
  <2>1. /\ sl \in 2 .. MaxSleep /\ la \in Nat /\ la < sl /\ ph \in 0 .. c - 1 /\ fl = {}
        /\ v = sl * c - (la * c + ph) /\ 1 <= v
        /\ s \in [val : Nat, load : Nat, pend : BOOLEAN]
    <3>1. sl \in 2 .. MaxSleep
      BY DEF Clock
    <3> QED BY <1>1, <1>2, <3>1 DEF Clock, SysTick
  <2>2. c \in Nat /\ c > 0 /\ w \in Nat /\ v \in Nat /\ MaxSleep \in Nat
    BY <1>2, <2>1, TickLength
  <2>3. sl \in Nat /\ sl <= MaxSleep /\ sl >= 2 /\ ph \in Nat /\ ph < c
    BY ONLY <2>1, <2>2
  <2> QED BY <2>1, <2>2, <2>3
<1>7. rest = ph /\ e \div c = la
  BY <1>2, WakeFacts, sl > 1
<1>8. PICK l : l = IF rest > 0 THEN rest ELSE c
  OBVIOUS
<1>9. z \in SysTick /\ z.val = l /\ z.load = l /\ ~z.pend /\ l \in Nat /\ 1 <= l /\ l <= c
  <2>1. z = [s EXCEPT !.load = l, !.val = l]
    BY <1>2, <1>8 DEF LOS_SysTickReload
  <2>2. l \in Nat /\ 1 <= l /\ l <= c
    BY <1>3, <1>7, <1>8
  <2> QED BY <1>3, <2>1, <2>2 DEF SysTick
<1>10. la = Owed(q1) + 0
  BY <1>2, <1>3, <1>7
<1>11. CASE rest > 0
  <2>1. PICK y : y = c - rest
    OBVIOUS
  <2>2. y \in 0 .. c - 1 /\ l = c - y /\ fl \cup {"reload"} = {"reload"}
    BY <1>3, <1>7, <1>8, <1>11, <2>1
  <2>3. sl \in 2 .. MaxSleep
    BY <1>1 DEF Clock, Asleep
  <2>4. Clock(sl, y, la, {"reload"}, z, q1)
    <3>1. z.val = CyclesPerTick - y /\ y \in 0 .. CyclesPerTick - 1
          /\ la \in Nat /\ z.load <= CyclesPerTick /\ 1 <= z.val /\ z.val <= z.load
      BY <1>2, <1>3, <1>9, <2>2
    <3>2. "reload" \in {"reload"} /\ "irq" \notin {"reload"} /\ {"reload"} \subseteq {"irq", "reload"}
      OBVIOUS
    <3> QED BY ONLY <1>1, <1>9, <1>10, <2>3, <3>1, <3>2, ~Serves(q1) DEF Clock
  <2> QED BY <1>1, <1>2, <1>3, <1>7, <1>11, <2>1, <2>2, <2>4 DEF InTime
<1>12. CASE ~(rest > 0)
  <2>1. 0 \in 0 .. c - 1 /\ l = c - 0 /\ l = c /\ fl \ {"reload"} = {}
    BY <1>3, <1>7, <1>8, <1>12
  <2>2. Clock(sl, 0, la, fl \ {"reload"}, z, q1)
    <3>1. sl \in 2 .. MaxSleep
      BY <1>1 DEF Clock, Asleep
    <3>2. z.val = CyclesPerTick - 0 /\ 0 \in 0 .. CyclesPerTick - 1 /\ la \in Nat
          /\ z.load = CyclesPerTick /\ z.load <= CyclesPerTick /\ 1 <= z.val /\ z.val <= z.load
      BY <1>2, <1>3, <1>9, <2>1
    <3>3. Clock(sl, 0, la, {}, z, q1)
      BY ONLY <1>1, <1>9, <1>10, <3>1, <3>2 DEF Clock
    <3> QED BY <2>1, <3>3
  <2>3. \A n \in Nat : InTime(n, sl, la, <<>>) => InTime(n, sl, la, q1)
    BY <1>1, <1>3 DEF InTime
  <2> QED BY <1>2, <1>3, <1>7, <1>12, <2>2, <2>3
<1> QED BY <1>11, <1>12

\* The idle task sleeps: SysTick is loaded with n ticks less the part of this one that is over.
LEMMA ClockSleep ==
  ASSUME NEW sl, NEW ph, NEW la, NEW fl, NEW s, Clock(sl, ph, la, fl, s, <<>>),
         "irq" \in fl, ~s.pend, NEW n \in 2 .. MaxSleep,
         NEW z, z = LOS_SysTickReload(s, n * CyclesPerTick - CyclesPerTick + (s.val + 0))
  PROVE  Clock(n, ph, la, fl \ {"irq"}, z, <<>>)
<1>1. ~Asleep(sl, <<>>) /\ Asleep(n, <<>>)
  BY TickLength DEF Clock, Asleep
<1>2. PICK c, v, b, x : c = CyclesPerTick /\ v = s.val /\ b = n * c /\ x = b - c + (v + 0)
  OBVIOUS
<1>3. /\ c \in Nat /\ c > 0 /\ v = c - ph /\ ph \in Nat /\ ph < c /\ la = 0
      /\ fl \ {"irq"} = {} /\ n \in Nat /\ n >= 2
      /\ s \in [val : Nat, load : Nat, pend : BOOLEAN]
  BY <1>1, <1>2, TickLength, NoneFacts DEF Clock, SysTick
<1>4. b \in Nat /\ b >= c + c
  <2>1. n - 2 \in Nat
    BY <1>3
  <2>2. n * c = (n - 2) * c + (c + c) /\ (n - 2) * c \in Nat
    BY ONLY <1>3, <2>1
  <2> QED BY <1>2, <1>3, <2>2
<1>5. x = b - ph /\ x \in Nat /\ 1 <= x /\ x <= b
  BY <1>2, <1>3, <1>4
<1>6. z \in SysTick /\ z.val = x /\ z.load = x /\ ~z.pend
  <2>1. z = [s EXCEPT !.load = x, !.val = x]
    BY <1>2 DEF LOS_SysTickReload
  <2> QED BY <1>3, <1>5, <2>1 DEF SysTick
<1>7. x = b - (0 * c + ph)
  BY <1>3, <1>5
<1> QED BY <1>1, <1>2, <1>3, <1>5, <1>6, <1>7 DEF Clock

-----------------------------------------------------------------------------
(* The invariant *)

LeftIn(w, t, q) == TicksLeft(w, t, Scans(q))

LEMMA LeftInFacts ==
  ASSUME NEW w, NEW t, NEW q
  PROVE  /\ Scans(q) => LeftIn(w, t, q) = RestInScan(w, t)
         /\ ~Scans(q) => LeftIn(w, t, q) = Rest(w, t)
<1> USE DEF Rest, RestInScan
<1>1. Scans(q) \in BOOLEAN
  BY DEF Scans
<1> QED BY <1>1, Zenon DEF LeftIn

LEMMA LeftKept ==
  ASSUME NEW w, NEW t, NEW q, NEW q1, Scans(q1) <=> Scans(q)
  PROVE  LeftIn(w, t, q1) = LeftIn(w, t, q)
BY LeftInFacts, Zenon

LEMMA LeftInNat ==
  ASSUME NEW w, WheelOK(w), NEW t \in Task, NEW q
  PROVE  /\ LeftIn(w, t, q) \in Nat
         /\ t \notin Waiting(w) => LeftIn(w, t, q) = 0
         /\ t \in Waiting(w) /\ ~Scans(q) => LeftIn(w, t, q) > 0
<1> USE DEF Rest, RestInScan
<1>1. /\ RestInScan(w, t) \in Nat /\ Rest(w, t) \in Nat
      /\ t \notin Waiting(w) => RestInScan(w, t) = 0 /\ Rest(w, t) = 0
      /\ t \in Waiting(w) => Rest(w, t) > 0
  BY LeftFacts
<1> QED BY <1>1, LeftInFacts, Zenon

State == {"ready", "timed", "blocked"}

\* A task is in the wheel while it waits with a limit.
Waits(w, st) ==
  /\ WheelOK(w) /\ st \in [Task -> State]
  /\ \A t \in Task : st[t] = "timed" <=> t \in Waiting(w)

NoneLate(w, tm, sl, la, q) ==
  /\ tm \in Nat /\ InTime(tm, sl, la, q)
  /\ \A t \in Task : InTime(LeftIn(w, t, q), sl, la, q)

\* Nobody runs in a sleep, and it is over before anybody's time is.
IInv ==
  /\ Waits(wheel, state) /\ tick \in {0, 1}
  /\ Nesting(isr, sleep)
  /\ Clock(sleep, phase, lag, flags, systick, isr)
  /\ Asleep(sleep, isr) => \A t \in Task : state[t] # "ready"
  /\ NoneLate(wheel, timer, sleep, lag, isr)

\* What a step does to the times: nothing ...
Kept ==
  /\ timer' = timer /\ tick' = tick
  /\ \A t \in Task : LeftIn(wheel', t, isr') = LeftIn(wheel, t, isr)

\* ... to one task, which waits for n ticks, or no more if n is 0 ...
Set(t, n) ==
  /\ timer' = timer /\ tick' = tick
  /\ \A u \in Task : LeftIn(wheel', u, isr') = IF u = t THEN n ELSE LeftIn(wheel, u, isr)

\* ... or a tick.
Counted ==
  /\ tick' = 1 - tick
  /\ IF timer = 1 THEN timer' \in Intervals \cup {0}
     ELSE timer' = IF timer = 0 THEN 0 ELSE timer - 1
  /\ \A t \in Task : LeftIn(wheel', t, isr') =
       IF LeftIn(wheel, t, isr) = 0 THEN 0 ELSE LeftIn(wheel, t, isr) - 1

LEMMA InitInv == TicklessInit => IInv /\ timer = 0 /\ tick = 0 /\ \A t \in Task : LeftIn(wheel, t, isr) = 0
<1> SUFFICES ASSUME TicklessInit
             PROVE  IInv /\ timer = 0 /\ tick = 0 /\ \A t \in Task : LeftIn(wheel, t, isr) = 0
  OBVIOUS
<1>1. wheel = EmptyWheel /\ isr = <<>> /\ timer = 0 /\ tick = 0 /\ sleep = 0 /\ lag = 0
  BY DEF TicklessInit
<1>2. WheelOK(wheel) /\ Waiting(wheel) = {}
  BY <1>1, EmptyFacts
<1>3. \A t \in Task : LeftIn(wheel, t, isr) = 0
  BY <1>2, LeftInNat
<1>4. Waits(wheel, state)
  BY <1>2 DEF TicklessInit, Waits, State
<1>5. ~Asleep(sleep, isr)
  BY <1>1 DEF Asleep
<1>6. Clock(sleep, phase, lag, flags, systick, isr)
  <2>1. lag = Owed(isr) + 0
    BY <1>1, NoneFacts
  <2>2. systick \in SysTick /\ systick.val = CyclesPerTick /\ systick.load = CyclesPerTick /\ ~systick.pend
    BY TickLength DEF TicklessInit, SysTick
  <2> QED BY <1>1, <1>5, <2>1, <2>2, TickLength DEF Clock, TicklessInit
<1>7. NoneLate(wheel, timer, sleep, lag, isr)
  BY <1>1, <1>3 DEF NoneLate, InTime
<1> QED BY <1>1, <1>3, <1>4, <1>5, <1>6, <1>7, NoneFacts DEF IInv

\* Nothing but the clock moves.
LEMMA CycleInv ==
  ASSUME IInv, Cycle
  PROVE  IInv' /\ Kept
<1>1. /\ wheel' = wheel /\ state' = state /\ timer' = timer /\ sleep' = sleep /\ flags' = flags
      /\ isr' = isr /\ tick' = tick
  BY DEF Cycle
<1>2. /\ Clock(sleep, phase', lag', flags, systick', isr)
      /\ \A n \in Nat : InTime(n, sleep, lag, isr) => InTime(n, sleep, lag', isr)
  <2>1. PICK s, ph, la : s = systick' /\ ph = phase' /\ la = lag'
    OBVIOUS
  <2>2. /\ systick.pend \/ Owed(isr) > 0 =>
             systick.val > 1 /\ systick.load - systick.val < CyclesPerTick - 1
        /\ s = IF systick.val = 1 THEN [systick EXCEPT !.val = systick.load, !.pend = TRUE]
               ELSE [systick EXCEPT !.val = @ - 1]
        /\ ph = (phase + 1) % CyclesPerTick
        /\ la = IF ph = 0 THEN lag + 1 ELSE lag
    BY <2>1, CountingFacts DEF Cycle, IInv
  <2>3. Nesting(isr, sleep) /\ Clock(sleep, phase, lag, flags, systick, isr)
    BY DEF IInv
  <2>4. /\ Clock(sleep, ph, la, flags, s, isr)
        /\ \A n \in Nat : InTime(n, sleep, lag, isr) => InTime(n, sleep, la, isr)
    BY ONLY ZenonT(60), <2>2, <2>3, ClockCycle
  <2> QED BY ONLY <2>1, <2>4
<1>3. \A t \in Task : LeftIn(wheel, t, isr) \in Nat
  BY LeftInNat DEF IInv, Waits
<1>4. NoneLate(wheel, timer, sleep, lag', isr)
  BY <1>2, <1>3 DEF IInv, NoneLate
<1> QED BY <1>1, <1>2, <1>4 DEF IInv, Kept

\* Of what a running task does: no interrupt and no sleep.
LEMMA RunningFacts ==
  ASSUME IInv, isr = <<>>, ~Asleep(sleep, isr)
  PROVE  lag \in {0, 1} /\ ~Scans(isr)
<1>1. lag = 0 + (IF systick.pend THEN 1 ELSE 0)
  BY NoneFacts DEF IInv, Clock
<1> QED BY <1>1, NoneFacts

LEMMA TaskWaitInv ==
  ASSUME IInv, NEW t \in Task, TaskWait(t)
  PROVE  IInv' /\ (Kept \/ \E n \in Timeouts : Set(t, n))
<1>1. /\ timer' = timer /\ sleep' = sleep /\ flags' = flags /\ systick' = systick
      /\ isr' = isr /\ tick' = tick /\ phase' = phase /\ lag' = lag
      /\ isr = <<>> /\ state[t] = "ready"
  BY DEF TaskWait, Calm, InIsr
<1>2. ~Asleep(sleep, isr) /\ lag \in {0, 1} /\ ~Scans(isr)
  BY <1>1, RunningFacts DEF IInv
<1>3. t \notin Waiting(wheel) /\ WheelOK(wheel) /\ state \in [Task -> State]
  BY <1>1 DEF IInv, Waits
<1>4. ASSUME wheel' = wheel, state' = [state EXCEPT ![t] = "blocked"]
      PROVE  IInv' /\ Kept
  <2>1. Waits(wheel', state')
    BY <1>1, <1>4 DEF IInv, Waits, State
  <2> QED BY <1>1, <1>2, <1>4, <2>1 DEF IInv, Kept
<1>5. ASSUME NEW n \in Timeouts, wheel' = osTaskAdd2TimerList(wheel, t, n),
             state' = [state EXCEPT ![t] = "timed"]
      PROVE  IInv' /\ Set(t, n)
  <2>1. PICK w : w = wheel'
    OBVIOUS
  <2>2. n \in Nat \ {0} /\ w = osTaskAdd2TimerList(wheel, t, n)
    BY <1>5, <2>1, TicklessAssumption
  <2>3. /\ WheelOK(w) /\ Waiting(w) = Waiting(wheel) \cup {t} /\ Rest(w, t) = n
        /\ \A u \in Task \ {t} : Rest(w, u) = Rest(wheel, u)
    <3>1. WheelOK(wheel) /\ t \in Task /\ t \notin Waiting(wheel) /\ n \in Nat \ {0}
      BY <1>3, <2>2
    <3>2. PICK m \in Nat \ {0} : m = n
      BY <2>2
    <3>3. w = osTaskAdd2TimerList(wheel, t, m)
      BY ONLY <2>2, <3>2
    <3>4. /\ WheelOK(w) /\ Waiting(w) = Waiting(wheel) \cup {t} /\ Rest(w, t) = m
          /\ \A u \in Task \ {t} : Rest(w, u) = Rest(wheel, u)
      BY ONLY <3>1, <3>3, m \in Nat \ {0}, AddFacts
    <3> QED BY <3>2, <3>4
  <2>4. \A u \in Task : LeftIn(w, u, isr) = IF u = t THEN n ELSE LeftIn(wheel, u, isr)
    <3>1. LeftIn(w, t, isr) = Rest(w, t) /\ Rest(w, t) = n
      BY <1>2, <2>3, LeftInFacts
    <3>2. ASSUME NEW u \in Task, u # t
          PROVE  LeftIn(w, u, isr) = LeftIn(wheel, u, isr)
      <4>1. LeftIn(w, u, isr) = Rest(w, u) /\ LeftIn(wheel, u, isr) = Rest(wheel, u)
        BY <1>2, LeftInFacts
      <4> QED BY <2>3, <3>2, <4>1
    <3> QED BY <3>1, <3>2
  <2>5. Waits(w, state')
    BY <1>3, <1>5, <2>3 DEF IInv, Waits, State
  <2>6. NoneLate(w, timer, sleep, lag, isr)
    <3>1. InTime(n, sleep, lag, isr)
      BY <1>2, <2>2 DEF InTime
    <3> QED BY <2>4, <3>1 DEF IInv, NoneLate
  <2> QED BY <1>1, <1>2, <2>1, <2>4, <2>5, <2>6 DEF IInv, Set
<1> QED BY <1>4, <1>5 DEF TaskWait

LEMMA SetTimerInv ==
  ASSUME IInv, SetTimer
  PROVE  /\ IInv' /\ tick' = tick /\ timer' \in Intervals \cup {0} /\ timer' # timer
         /\ \A t \in Task : LeftIn(wheel', t, isr') = LeftIn(wheel, t, isr)
<1>1. /\ wheel' = wheel /\ state' = state /\ sleep' = sleep /\ flags' = flags /\ systick' = systick
      /\ isr' = isr /\ tick' = tick /\ phase' = phase /\ lag' = lag
      /\ isr = <<>> /\ timer' \in Intervals \cup {0} /\ timer' # timer
      /\ \E t \in Task : state[t] = "ready"
  BY DEF SetTimer, Calm, InIsr
<1>2. ~Asleep(sleep, isr) /\ lag \in {0, 1}
  BY <1>1, RunningFacts DEF IInv
<1>3. timer' \in Nat /\ InTime(timer', sleep, lag, isr)
  BY <1>1, <1>2, TicklessAssumption DEF InTime
<1>4. NoneLate(wheel, timer', sleep, lag, isr)
  BY <1>3 DEF IInv, NoneLate
<1> QED BY <1>1, <1>4 DEF IInv

\* The idle task sleeps for no longer than anybody has left.
LEMMA HandlerInv ==
  ASSUME IInv, MaxSleep > 1, osTicklessHandler
  PROVE  IInv' /\ Kept
<1>1. /\ wheel' = wheel /\ state' = state /\ timer' = timer /\ isr' = isr /\ tick' = tick
      /\ phase' = phase /\ lag' = lag /\ flags' = flags \ {"irq"} /\ "irq" \in flags
      /\ isr = <<>> /\ \A t \in Task : state[t] # "ready"
  BY DEF osTicklessHandler, Calm, InIsr
<1>2. /\ Clock(sleep, phase, lag, flags, systick, <<>>) /\ Nesting(<<>>, sleep) /\ WheelOK(wheel)
      /\ timer \in Nat /\ NoneLate(wheel, timer, sleep, lag, <<>>)
  BY <1>1 DEF IInv, Waits, NoneLate
<1>3. ~Asleep(sleep, <<>>)
  BY <1>1, <1>2 DEF Clock
<1>4. Kept
  BY <1>1 DEF Kept
<1>5. CASE systick.pend \/ osSleepTicksGet <= 1
  <2>1. systick' = systick /\ sleep' = sleep
    BY <1>5 DEF osTicklessHandler, osTicklessStart
  <2>2. Clock(sleep, phase, lag, flags \ {"irq"}, systick, <<>>)
    BY <1>1, <1>2, <1>3 DEF Clock
  <2> QED BY <1>1, <1>4, <2>1, <2>2 DEF IInv
<1>6. CASE ~(systick.pend \/ osSleepTicksGet <= 1)
  <2>1. PICK g, next, n : /\ g = osSleepTicksGet /\ next = osTaskNextSwitchTimeGet(wheel)
                          /\ n = IF g >= MaxSleep THEN MaxSleep ELSE g
    OBVIOUS
  <2>2. next \in Nat /\ \A t \in Waiting(wheel) : next <= Rest(wheel, t)
    BY <1>2, <2>1, NextSwitchFacts
  <2>3. g \in Nat /\ g <= next /\ (timer > 0 => g <= timer)
    <3>1. g = IF next < (IF timer = 0 THEN Infinity ELSE timer) THEN next
              ELSE IF timer = 0 THEN Infinity ELSE timer
      BY <2>1 DEF osSleepTicksGet
    <3>2. Infinity \in Nat
      BY TickLength DEF Infinity
    <3> QED BY <1>2, <2>2, <3>1, <3>2
  <2>4. n \in 2 .. MaxSleep /\ n <= next /\ (timer > 0 => n <= timer)
    BY <1>2, <1>6, <2>1, <2>2, <2>3, MaxSleep > 1, TickLength
  <2>5. /\ ~systick.pend /\ sleep' = n
        /\ systick' = LOS_SysTickReload(systick, n * CyclesPerTick - CyclesPerTick + (systick.val + 0))
    <3>1. LOS_SysTickCurrCycleGet = systick.val + 0
      BY <1>6 DEF LOS_SysTickCurrCycleGet
    <3> QED BY <1>6, <2>1, <3>1 DEF osTicklessHandler, osTicklessStart
  <2>6. Clock(n, phase, lag, flags \ {"irq"}, systick', <<>>)
    <3>1. PICK z : z = systick'
      OBVIOUS
    <3> QED BY <1>1, <1>2, <2>4, <2>5, <3>1, ClockSleep
  <2>7. Asleep(n, <<>>) /\ n \in Nat
    BY <2>4, TickLength DEF Asleep
  <2>8. ASSUME NEW t \in Task
        PROVE  InTime(LeftIn(wheel, t, <<>>), n, lag, <<>>)
    <3>1. PICK x : x = LeftIn(wheel, t, <<>>)
      OBVIOUS
    <3>2. x = Rest(wheel, t) /\ (t \notin Waiting(wheel) => x = 0) /\ x \in Nat
      BY <1>2, <3>1, LeftInFacts, LeftInNat, NoneFacts
    <3>3. x > 0 => n <= x
      BY <2>2, <2>4, <2>7, <3>2
    <3> QED BY <2>7, <3>1, <3>3 DEF InTime
  <2>9. NoneLate(wheel, timer, n, lag, <<>>)
    BY <1>2, <2>4, <2>7, <2>8 DEF NoneLate, InTime
  <2> QED BY <1>1, <1>4, <2>5, <2>6, <2>9, NoneFacts DEF IInv
<1> QED BY <1>5, <1>6

\* An interrupt that finds no sleep to make up for.
LEMMA InterruptAwakeInv ==
  ASSUME IInv, NEW irq \in {"tick", "other"}, osInterrupt(irq), ~(sleep > 1)
  PROVE  IInv' /\ Kept
<1>1. PICK f, q1, z : f = [irq |-> irq, todo |-> 0, stage |-> "handler"] /\ q1 = Append(isr, f)
                      /\ z = [systick EXCEPT !.pend = @ /\ irq # "tick"]
  OBVIOUS
<1>2. sleep = 0
  BY TickLength DEF IInv, Clock
<1>3. /\ wheel' = wheel /\ state' = state /\ timer' = timer /\ tick' = tick /\ sleep' = sleep
      /\ lag' = lag /\ phase' = phase /\ flags' = flags /\ isr' = q1 /\ systick' = z
      /\ irq = "tick" => systick.pend /\ isr = <<>>
  <2>1. sleep <= 1
    BY <1>2
  <2> QED BY <1>1, <2>1 DEF osInterrupt, InIsr
<1>4. /\ Nesting(isr, sleep) /\ Clock(sleep, phase, lag, flags, systick, isr)
      /\ NoneLate(wheel, timer, sleep, lag, isr) /\ isr \in Seq(Interrupt) /\ f \in Interrupt
  BY <1>1 DEF IInv, Nesting, Interrupt
<1>5. ~Asleep(sleep, isr) /\ ~Asleep(sleep, q1) /\ ~(sleep > 1)
  BY <1>2 DEF Asleep
<1>6. /\ Nesting(q1, sleep) /\ (Scans(q1) <=> Scans(isr))
      /\ Clock(sleep, phase, lag, flags, z, q1)
      /\ \A n \in Nat : InTime(n, sleep, lag, isr) => InTime(n, sleep, lag, q1)
  <2>1. CASE isr = <<>>
    <3>1. q1 = <<f>>
      BY <1>1, <1>4, <2>1
    <3>2. /\ q1 # <<>> /\ Nesting(q1, sleep) /\ ~Scans(q1)
          /\ (Serves(q1) <=> irq = "tick") /\ Owed(q1) = IF irq = "tick" THEN 1 ELSE 0
      <4>1. f.stage = "handler" /\ f.irq = irq
        BY <1>1
      <4> QED BY <1>4, <1>5, <3>1, <4>1, OneFacts
    <3>3. CASE irq = "tick"
      <4>1. z = [systick EXCEPT !.pend = FALSE] /\ systick.pend
        BY <1>1, <1>3, <3>3
      <4>2. Clock(sleep, phase, lag, flags, systick, <<>>)
        BY <1>4, <2>1
      <4>3. /\ Clock(sleep, phase, lag, flags, z, q1)
            /\ \A n \in Nat : InTime(n, sleep, lag, <<>>) => InTime(n, sleep, lag, q1)
        BY <1>5, <3>2, <3>3, <4>1, <4>2, ClockTick
      <4> QED BY <2>1, <3>2, <4>3, NoneFacts
    <3>4. CASE irq = "other"
      <4>1. z = systick
        <5>1. systick \in [val : Nat, load : Nat, pend : BOOLEAN]
          BY <1>4 DEF Clock, SysTick
        <5> QED BY <1>1, <3>4, <5>1
      <4>2. Owed(q1) = Owed(isr) /\ (Serves(q1) <=> Serves(isr)) /\ (Scans(q1) <=> Scans(isr))
        BY <2>1, <3>2, <3>4, NoneFacts
      <4> QED BY <1>4, <1>5, <3>2, <4>1, <4>2, ClockKept
    <3> QED BY <3>3, <3>4
  <2>2. CASE isr # <<>>
    <3>1. irq = "other" /\ f = Upper
      BY <1>1, <1>3, <2>2 DEF Upper
    <3>2. z = systick
      <4>1. systick \in [val : Nat, load : Nat, pend : BOOLEAN]
        BY <1>4 DEF Clock, SysTick
      <4> QED BY <1>1, <3>1, <4>1
    <3>3. /\ Nesting(q1, sleep) /\ Owed(q1) = Owed(isr)
          /\ (Scans(q1) <=> Scans(isr)) /\ (Serves(q1) <=> Serves(isr))
      BY <1>1, <1>4, <1>5, <2>2, <3>1, PushFacts
    <3> QED BY <1>4, <1>5, <3>2, <3>3, ClockKept
  <2> QED BY <2>1, <2>2
<1>7. \A t \in Task : LeftIn(wheel, t, q1) = LeftIn(wheel, t, isr) /\ LeftIn(wheel, t, isr) \in Nat
  BY <1>6, LeftKept, LeftInNat DEF IInv, Waits
<1>8. NoneLate(wheel, timer, sleep, lag, q1)
  BY <1>4, <1>6, <1>7 DEF NoneLate
<1> QED BY <1>3, <1>5, <1>6, <1>7, <1>8 DEF IInv, Kept

\* An interrupt that ends a sleep.
LEMMA InterruptAsleepInv ==
  ASSUME IInv, Races = FALSE, NEW irq \in {"tick", "other"}, osInterrupt(irq), sleep > 1
  PROVE  IInv' /\ Kept
<1>1. /\ isr = <<>> /\ (irq = "tick" => systick.pend) /\ (irq = "other" => ~systick.pend)
      /\ wheel' = wheel /\ state' = state /\ timer' = timer /\ tick' = tick /\ sleep' = sleep
      /\ lag' = lag
  BY DEF osInterrupt, InIsr
<1>2. /\ Clock(sleep, phase, lag, flags, systick, <<>>) /\ ~(sleep <= 1) /\ sleep \in 2 .. MaxSleep
      /\ NoneLate(wheel, timer, sleep, lag, <<>>) /\ sleep - 1 \in Nat
  <2>1. Clock(sleep, phase, lag, flags, systick, <<>>) /\ NoneLate(wheel, timer, sleep, lag, <<>>)
    BY <1>1 DEF IInv
  <2>2. sleep \in 2 .. MaxSleep
    BY <2>1 DEF Clock
  <2> QED BY <2>1, <2>2, TickLength
<1>3. /\ Nesting(isr', sleep) /\ isr' # <<>> /\ ~Scans(isr')
      /\ Clock(sleep, phase', lag, flags', systick', isr')
      /\ \A n \in Nat : InTime(n, sleep, lag, <<>>) => InTime(n, sleep, lag, isr')
  <2>1. CASE irq = "tick"
    <3>1. PICK f, q1, z : /\ f = [irq |-> "tick", todo |-> sleep - 1, stage |-> "update"] /\ q1 = <<f>>
                          /\ z = LOS_SysTickReload([systick EXCEPT !.pend = FALSE], CyclesPerTick)
      OBVIOUS
    <3>2. f \in Interrupt /\ f.stage = "update" /\ f.irq = "tick" /\ f.todo = sleep - 1
      BY <1>2, <3>1 DEF Interrupt
    <3>3. /\ Nesting(q1, sleep) /\ q1 # <<>> /\ ~Scans(q1) /\ Serves(q1)
          /\ Owed(q1) = sleep - 1 + 1
      BY <3>1, <3>2, OneFacts, sleep > 1
    <3>4. isr' = q1 /\ systick' = z /\ flags' = flags \ {"reload"} /\ phase' = 0
      <4>1. Append(isr, f) = q1
        BY <1>1, <3>1
      <4>2. [systick EXCEPT !.pend = @ /\ irq # "tick"] = [systick EXCEPT !.pend = FALSE]
        BY <2>1
      <4> QED BY <1>2, <2>1, <3>1, <4>1, <4>2 DEF osInterrupt
    <3>5. /\ Clock(sleep, 0, lag, flags \ {"reload"}, z, q1)
          /\ \A n \in Nat : InTime(n, sleep, lag, <<>>) => InTime(n, sleep, lag, q1)
      BY <1>1, <1>2, <2>1, <3>1, <3>3, ClockWakeTick, sleep > 1
    <3> QED BY <3>3, <3>4, <3>5
  <2>2. CASE irq = "other"
    <3>1. PICK e, rest : e = ElapsedCycles /\ rest = e % CyclesPerTick
      OBVIOUS
    <3>2. PICK f, q1, z : /\ f = [irq |-> "other", todo |-> e \div CyclesPerTick, stage |-> "update"]
                          /\ q1 = <<f>>
                          /\ z = LOS_SysTickReload(systick, IF rest > 0 THEN rest ELSE CyclesPerTick)
      OBVIOUS
    <3>3. e = (sleep * CyclesPerTick + Word - (systick.val + 0)) % Word
      BY <1>1, <2>2, <3>1 DEF ElapsedCycles, LOS_SysTickCurrCycleGet
    <3>4. e \div CyclesPerTick \in Nat
      <4>1. e \in Nat
        <5>1. PICK x : x = sleep * CyclesPerTick + Word - (systick.val + 0)
          OBVIOUS
        <5>2. x \in Int /\ Word \in Nat /\ Word > 0
          <6>1. PICK c, v, w : c = CyclesPerTick /\ v = systick.val /\ w = Word
            OBVIOUS
          <6>2. sleep \in Nat /\ c \in Nat /\ v \in Nat /\ w \in Nat /\ c > 0
            BY <1>2, <6>1, TickLength DEF Clock, SysTick
          <6>3. w > 0
            <7>1. PICK m : m = MaxSleep
              OBVIOUS
            <7>2. m \in Nat /\ m > 0 /\ m * c <= w
              BY <1>2, <6>1, <7>1, TicklessAssumption
            <7>3. m * c > 0
              BY ONLY <6>2, <7>2
            <7> QED BY <6>2, <7>2, <7>3
          <6>4. sleep * c \in Nat
            BY ONLY <6>2
          <6> QED BY <5>1, <6>1, <6>2, <6>3, <6>4
        <5> QED BY <3>3, <5>1, <5>2
      <4> QED BY <4>1, TickLength
    <3>5. f \in Interrupt /\ f.stage = "update" /\ f.irq = "other" /\ f.todo = e \div CyclesPerTick
      BY <3>2, <3>4 DEF Interrupt
    <3>6. /\ Nesting(q1, sleep) /\ q1 # <<>> /\ ~Scans(q1) /\ ~Serves(q1)
          /\ Owed(q1) = e \div CyclesPerTick + 0
      BY <3>2, <3>5, OneFacts, sleep > 1
    <3>7. /\ isr' = q1 /\ systick' = z
          /\ flags' = (IF rest > 0 THEN flags \cup {"reload"} ELSE flags \ {"reload"})
          /\ phase' = IF rest > 0 THEN CyclesPerTick - rest ELSE 0
      <4>1. Append(isr, f) = q1
        BY <1>1, <3>2
      <4>2. [systick EXCEPT !.pend = @ /\ irq # "tick"] = systick
        <5>1. systick \in [val : Nat, load : Nat, pend : BOOLEAN]
          BY <1>2 DEF Clock, SysTick
        <5> QED BY <2>2, <5>1
      <4> QED BY <1>2, <2>2, <3>1, <3>2, <4>1, <4>2 DEF osInterrupt
    <3>8. /\ Clock(sleep, IF rest > 0 THEN CyclesPerTick - rest ELSE 0, lag,
                   IF rest > 0 THEN flags \cup {"reload"} ELSE flags \ {"reload"}, z, q1)
          /\ \A n \in Nat : InTime(n, sleep, lag, <<>>) => InTime(n, sleep, lag, q1)
      BY ONLY <1>1, <1>2, <2>2, <3>1, <3>2, <3>3, <3>6, ClockWakeOther, sleep > 1
    <3> QED BY <3>6, <3>7, <3>8
  <2> QED BY <2>1, <2>2
<1>4. PICK q1 : q1 = isr'
  OBVIOUS
<1>5. \A t \in Task : LeftIn(wheel, t, q1) = LeftIn(wheel, t, isr) /\ LeftIn(wheel, t, isr) \in Nat
  <2>1. Scans(q1) <=> Scans(isr)
    BY <1>1, <1>3, <1>4, NoneFacts
  <2> QED BY <2>1, LeftKept, LeftInNat DEF IInv, Waits
<1>6. NoneLate(wheel, timer, sleep, lag, q1)
  BY <1>1, <1>2, <1>3, <1>4, <1>5 DEF NoneLate
<1>7. ~Asleep(sleep, q1)
  BY <1>3, <1>4 DEF Asleep
<1> QED BY <1>1, <1>3, <1>4, <1>5, <1>6, <1>7 DEF IInv, Kept

\* The wheel, the timer and the count of ticks move together.
LEMMA CountTickFacts ==
  ASSUME IInv, NEW stage \in {"scan", "lastScan"}, CountTick(stage),
         InIsr, Top.stage # "handler" \/ Top.irq = "tick", ~Scans(isr),
         ~Asleep(sleep, isr)
  PROVE  /\ Waits(wheel', state) /\ tick' \in {0, 1} /\ lag' = lag - 1
         /\ isr' = <<[isr[1] EXCEPT !.stage = stage]>> /\ isr[1] \in Interrupt /\ isr = <<isr[1]>>
         /\ NoneLate(wheel', timer', sleep, lag - 1, isr')
         /\ Counted
<1>1. /\ isr = <<Top>> /\ Top = isr[1] /\ Top \in Interrupt /\ \A f : SetTop(f) = <<f>>
  BY TopFacts DEF IInv
<1>2. PICK f, q1, w : f = [Top EXCEPT !.stage = stage] /\ q1 = <<f>> /\ w = Advance(wheel)
  OBVIOUS
<1>3. /\ tick' = 1 - tick /\ lag' = lag - 1 /\ wheel' = w /\ isr' = q1
      /\ IF timer = 1 THEN timer' \in Intervals \cup {0}
         ELSE timer' = IF timer = 0 THEN 0 ELSE timer - 1
  BY <1>1, <1>2 DEF CountTick
<1>4. f \in Interrupt /\ f.stage = stage
  BY <1>1, <1>2 DEF Interrupt
<1>5. Scans(q1) /\ q1 # <<>> /\ ~Asleep(sleep, q1)
  BY <1>2, <1>4, OneFacts DEF Asleep
<1>6. WheelOK(wheel)
  BY DEF IInv, Waits
<1>7. /\ WheelOK(w) /\ Waiting(w) = Waiting(wheel)
      /\ \A t \in Waiting(wheel) : RestInScan(w, t) = Rest(wheel, t) - 1
  BY <1>2, <1>6, AdvanceFacts
<1>8. Waits(w, state)
  BY <1>7 DEF IInv, Waits
<1>9. ASSUME NEW t \in Task
      PROVE  /\ LeftIn(wheel, t, isr) \in Nat
             /\ LeftIn(w, t, q1) =
                  IF LeftIn(wheel, t, isr) = 0 THEN 0 ELSE LeftIn(wheel, t, isr) - 1
  <2>1. /\ LeftIn(wheel, t, isr) = Rest(wheel, t) /\ LeftIn(w, t, q1) = RestInScan(w, t)
    BY <1>5, LeftInFacts
  <2>2. /\ LeftIn(wheel, t, isr) \in Nat /\ (t \notin Waiting(wheel) => LeftIn(wheel, t, isr) = 0)
        /\ (t \in Waiting(wheel) => LeftIn(wheel, t, isr) > 0)
    BY <1>6, LeftInNat
  <2>3. CASE t \in Waiting(wheel)
    BY <1>7, <2>1, <2>2, <2>3
  <2>4. CASE t \notin Waiting(wheel)
    <3>1. LeftIn(w, t, q1) = 0
      BY <1>7, <2>4, LeftInNat
    <3> QED BY <2>2, <2>4, <3>1
  <2> QED BY <2>3, <2>4
<1>10. lag \in Nat /\ timer \in Nat /\ InTime(timer, sleep, lag, isr)
       /\ \A t \in Task : InTime(LeftIn(wheel, t, isr), sleep, lag, isr)
  BY DEF IInv, Clock, NoneLate
<1>11. ASSUME NEW t \in Task
       PROVE  InTime(LeftIn(w, t, q1), sleep, lag - 1, q1)
  <2>1. PICK n \in Nat : n = LeftIn(wheel, t, isr)
    BY <1>9
  <2>2. PICK x : x = LeftIn(w, t, q1)
    OBVIOUS
  <2>3. x = IF n = 0 THEN 0 ELSE n - 1
    BY <1>9, <2>1, <2>2
  <2>4. InTime(n, sleep, lag, isr)
    BY <1>10, <2>1
  <2>5. /\ n > 1 => InTime(n - 1, sleep, lag - 1, q1)
        /\ InTime(0, sleep, lag - 1, q1)
    BY <1>5, <1>10, <2>4, CountedInTime
  <2>6. CASE n > 1
    BY <2>2, <2>3, <2>5, <2>6
  <2>7. CASE ~(n > 1)
    <3>1. x = 0
      BY <2>3, <2>7
    <3> QED BY <2>2, <2>5, <3>1
  <2> QED BY <2>6, <2>7
<1>12. timer' \in Nat /\ InTime(timer', sleep, lag - 1, q1)
  <2>0. PICK n \in Nat : n = timer
    BY <1>10
  <2>1. PICK x : n = timer /\ x = timer'
    BY <2>0
  <2>2. /\ n > 1 => InTime(n - 1, sleep, lag - 1, q1)
        /\ n = 1 => \A y \in Nat : InTime(y, sleep, lag - 1, q1)
        /\ InTime(0, sleep, lag - 1, q1)
    BY <1>5, <1>10, <2>1, CountedInTime
  <2>3. CASE n = 1
    <3>1. x \in Nat
      <4>1. x \in Intervals \cup {0}
        BY <1>3, <2>1, <2>3
      <4>2. Intervals \subseteq Nat
        BY TicklessAssumption
      <4> QED BY <4>1, <4>2
    <3> QED BY <2>1, <2>2, <2>3, <3>1
  <2>4. CASE n # 1
    <3>1. x = IF n = 0 THEN 0 ELSE n - 1
      BY <1>3, <2>1, <2>4
    <3>2. CASE n = 0
      BY <2>1, <2>2, <3>1, <3>2
    <3>3. CASE n # 0
      <4>1. x = n - 1 /\ n > 1 /\ n - 1 \in Nat
        BY <2>4, <3>1, <3>3
      <4> QED BY <2>1, <2>2, <4>1
    <3> QED BY <3>2, <3>3
  <2> QED BY <2>3, <2>4
<1>13. NoneLate(w, timer', sleep, lag - 1, q1)
  BY <1>11, <1>12 DEF NoneLate
<1>14. tick' \in {0, 1}
  BY <1>3 DEF IInv
<1>15. Counted
  BY <1>3, <1>9 DEF Counted
<1> QED BY <1>1, <1>2, <1>3, <1>8, <1>13, <1>14, <1>15

\* A tick of the sleep is made up for.
LEMMA LoopInv ==
  ASSUME IInv, osTickHandlerLoop
  PROVE  IInv' /\ Counted
<1>1. /\ InIsr /\ Top.stage = "update" /\ Top.todo > 0 /\ CountTick("scan")
      /\ state' = state /\ sleep' = sleep /\ flags' = flags /\ systick' = systick /\ phase' = phase
  BY DEF osTickHandlerLoop
<1>2. Nesting(isr, sleep) /\ Clock(sleep, phase, lag, flags, systick, isr)
  BY DEF IInv
<1>3. isr = <<Top>> /\ Top = isr[1] /\ Top \in Interrupt
  BY <1>1, <1>2, TopFacts
<1>4. PICK f : f = Top
  OBVIOUS
<1>5. /\ ~Scans(isr) /\ CatchesUp(isr) /\ (Serves(isr) <=> f.irq = "tick")
      /\ Owed(isr) = f.todo + (IF f.irq = "tick" THEN 1 ELSE 0)
  <2>1. f \in Interrupt /\ isr = <<f>> /\ f.stage = "update"
    BY <1>1, <1>3, <1>4
  <2> QED BY <2>1, OneFacts
<1>6. ~Asleep(sleep, isr) /\ sleep > 1
  BY <1>1, <1>2, <1>5 DEF Asleep, InIsr, Nesting
<1>7. /\ Waits(wheel', state) /\ tick' \in {0, 1} /\ lag' = lag - 1
      /\ isr' = <<[isr[1] EXCEPT !.stage = "scan"]>>
      /\ NoneLate(wheel', timer', sleep, lag - 1, isr') /\ Counted
  BY <1>1, <1>5, <1>6, CountTickFacts
<1>8. PICK g, q1 : g = [f EXCEPT !.stage = "scan"] /\ q1 = <<g>>
  OBVIOUS
<1>9. isr' = q1 /\ g \in Interrupt /\ g.stage = "scan" /\ g.irq = f.irq /\ g.todo = f.todo
      /\ f.todo \in Nat /\ f.todo > 0
  BY <1>1, <1>3, <1>4, <1>7, <1>8 DEF Interrupt
<1>10. /\ Nesting(q1, sleep) /\ q1 # <<>> /\ (Serves(q1) <=> f.irq = "tick")
       /\ Owed(q1) = f.todo - 1 + (IF f.irq = "tick" THEN 1 ELSE 0)
  <2>1. /\ q1 # <<>> /\ (Serves(q1) <=> g.irq = "tick")
        /\ Owed(q1) = g.todo - 1 + (IF g.irq = "tick" THEN 1 ELSE 0)
    <3>1. q1 = <<g>> /\ g \in Interrupt /\ g.stage = "scan"
      BY <1>8, <1>9
    <3> QED BY ONLY <3>1, OneFacts
  <2>2. Nesting(q1, sleep)
    <3>1. q1 = <<g>> /\ g \in Interrupt /\ g.stage = "scan" /\ g.todo > 0
      BY <1>8, <1>9
    <3> QED BY ONLY <1>6, <3>1, OneFacts
  <2> QED BY <1>9, <2>1, <2>2
<1>11. ~Asleep(sleep, q1) /\ Owed(isr) = Owed(q1) + 1
  BY <1>5, <1>9, <1>10 DEF Asleep
<1>12. Clock(sleep, phase, lag - 1, flags, systick, q1)
  BY <1>2, <1>5, <1>6, <1>10, <1>11, ClockCounted
<1> QED BY <1>1, <1>7, <1>9, <1>10, <1>11, <1>12 DEF IInv

\* All of them are.
LEMMA UpdateDoneInv ==
  ASSUME IInv, UpdateDone
  PROVE  IInv' /\ Kept
<1>1. /\ InIsr /\ Top.stage = "update" /\ Top.todo = 0
      /\ isr' = SetTop([Top EXCEPT !.stage = "handler"]) /\ sleep' = 0
      /\ wheel' = wheel /\ state' = state /\ timer' = timer /\ flags' = flags /\ systick' = systick
      /\ tick' = tick /\ phase' = phase /\ lag' = lag
  BY DEF UpdateDone
<1>2. Nesting(isr, sleep) /\ Clock(sleep, phase, lag, flags, systick, isr)
      /\ NoneLate(wheel, timer, sleep, lag, isr)
  BY DEF IInv
<1>3. isr = <<Top>> /\ Top \in Interrupt /\ \A f : SetTop(f) = <<f>>
  BY <1>1, <1>2, TopFacts
<1>4. PICK f, g, q1 : f = Top /\ g = [f EXCEPT !.stage = "handler"] /\ q1 = <<g>>
  OBVIOUS
<1>5. f \in Interrupt /\ isr = <<f>> /\ f.stage = "update" /\ f.todo = 0
  BY <1>1, <1>3, <1>4
<1>6. g \in Interrupt /\ g.stage = "handler" /\ g.irq = f.irq /\ isr' = q1
  BY <1>1, <1>3, <1>4, <1>5 DEF Interrupt
<1>7. /\ isr # <<>> /\ ~Scans(isr) /\ (Serves(isr) <=> f.irq = "tick")
      /\ Owed(isr) = 0 + (IF f.irq = "tick" THEN 1 ELSE 0)
  BY <1>5, OneFacts
<1>8. /\ q1 # <<>> /\ ~Scans(q1) /\ (Serves(q1) <=> f.irq = "tick") /\ Nesting(q1, 0)
      /\ Owed(q1) = IF f.irq = "tick" THEN 1 ELSE 0
  <2>1. q1 = <<g>> /\ g \in Interrupt /\ g.stage = "handler"
    BY <1>4, <1>6
  <2>2. /\ q1 # <<>> /\ ~Scans(q1) /\ (Serves(q1) <=> g.irq = "tick")
        /\ Owed(q1) = IF g.irq = "tick" THEN 1 ELSE 0
    BY ONLY <2>1, OneFacts
  <2>3. Nesting(q1, 0)
    BY ONLY <2>1, OneFacts
  <2> QED BY <1>6, <2>2, <2>3
<1>9. ~Asleep(sleep, isr) /\ ~Asleep(0, q1)
  BY <1>7, <1>8 DEF Asleep
<1>10. /\ Clock(0, phase, lag, flags, systick, q1)
       /\ \A n \in Nat : InTime(n, sleep, lag, isr) => InTime(n, 0, lag, q1)
  BY <1>2, <1>7, <1>8, <1>9, ClockKept
<1>11. \A t \in Task : LeftIn(wheel, t, q1) = LeftIn(wheel, t, isr) /\ LeftIn(wheel, t, isr) \in Nat
  BY <1>7, <1>8, LeftKept, LeftInNat DEF IInv, Waits
<1>12. NoneLate(wheel, timer, 0, lag, q1)
  BY <1>2, <1>10, <1>11 DEF NoneLate
<1> QED BY <1>1, <1>6, <1>8, <1>9, <1>10, <1>11, <1>12 DEF IInv, Kept

\* The tick that has fallen due is counted.
LEMMA TickHandlerInv ==
  ASSUME IInv, osTickHandler
  PROVE  IInv' /\ Counted
<1>1. /\ InIsr /\ Top.stage = "handler" /\ Top.irq = "tick" /\ CountTick("lastScan")
      /\ state' = state /\ sleep' = sleep /\ flags' = {"irq"}
  BY DEF osTickHandler
<1>2. Nesting(isr, sleep) /\ Clock(sleep, phase, lag, flags, systick, isr)
  BY DEF IInv
<1>3. isr = <<Top>> /\ Top = isr[1] /\ Top \in Interrupt
  BY <1>1, <1>2, TopFacts
<1>4. PICK f, g, q1 : f = Top /\ g = [f EXCEPT !.stage = "lastScan"] /\ q1 = <<g>>
  OBVIOUS
<1>5. f \in Interrupt /\ isr = <<f>> /\ f.stage = "handler" /\ f.irq = "tick"
  BY <1>1, <1>3, <1>4
<1>6. isr # <<>> /\ ~Scans(isr) /\ ~CatchesUp(isr) /\ Serves(isr) /\ Owed(isr) = 1
  BY <1>5, OneFacts
<1>7. ~(sleep > 1) /\ ~Asleep(sleep, isr)
  BY <1>2, <1>6 DEF Nesting, Asleep
<1>8. /\ Waits(wheel', state) /\ tick' \in {0, 1} /\ lag' = lag - 1
      /\ isr' = <<[isr[1] EXCEPT !.stage = "lastScan"]>>
      /\ NoneLate(wheel', timer', sleep, lag - 1, isr') /\ Counted
  BY <1>1, <1>6, <1>7, CountTickFacts
<1>9. isr' = q1 /\ g \in Interrupt /\ g.stage = "lastScan" /\ g.irq = "tick"
  BY <1>3, <1>4, <1>5, <1>8 DEF Interrupt
<1>10. q1 # <<>> /\ Nesting(q1, sleep) /\ ~Serves(q1) /\ Owed(q1) = 0
  <2>1. q1 = <<g>> /\ g \in Interrupt /\ g.stage = "lastScan" /\ g.irq = "tick"
    BY <1>4, <1>9
  <2>2. q1 # <<>> /\ ~Serves(q1) /\ Owed(q1) = 0
    BY ONLY <2>1, OneFacts
  <2>3. Nesting(q1, sleep)
    BY ONLY <1>7, <2>1, OneFacts
  <2> QED BY <2>2, <2>3
<1>11. ~Asleep(sleep, q1)
  BY <1>10 DEF Asleep
<1>12. lag = 1 /\ Clock(sleep, phase', 0, {"irq"}, systick', q1)
  <2>1. PICK z, ph : z = systick' /\ ph = phase'
    OBVIOUS
  <2>2. /\ z = (IF "reload" \in flags THEN LOS_SysTickReload(systick, CyclesPerTick) ELSE systick)
        /\ ph = IF "reload" \in flags THEN 0 ELSE phase
    BY <2>1 DEF osTickHandler
  <2>3. lag = 1 /\ Clock(sleep, ph, 0, {"irq"}, z, q1)
    BY <1>2, <1>6, <1>7, <1>10, <1>11, <2>2, ClockServed
  <2> QED BY <2>1, <2>3
<1>13. lag - 1 = 0
  BY <1>12
<1> QED BY <1>1, <1>8, <1>9, <1>10, <1>11, <1>12, <1>13 DEF IInv

\* A task whose time is over leaves the wheel.
LEMMA ScanInv ==
  ASSUME IInv, osTaskScan
  PROVE  IInv' /\ Kept
<1>1. /\ InIsr /\ Top.stage \in {"scan", "lastScan"} /\ Due(wheel)
      /\ timer' = timer /\ sleep' = sleep /\ flags' = flags /\ systick' = systick /\ isr' = isr
      /\ tick' = tick /\ phase' = phase /\ lag' = lag
  BY DEF osTaskScan
<1>2. Nesting(isr, sleep) /\ WheelOK(wheel) /\ NoneLate(wheel, timer, sleep, lag, isr)
      /\ state \in [Task -> State]
  BY DEF IInv, Waits
<1>3. Scans(isr) /\ ~Asleep(sleep, isr)
  <2>1. isr = <<Top>> /\ Top = isr[1]
    BY <1>1, <1>2, TopFacts
  <2> QED BY <1>1, <2>1 DEF Scans, Asleep, InIsr
<1>4. PICK t, w : t = Head(wheel.link[wheel.cursor]).timer /\ w = Expire(wheel)
  OBVIOUS
<1>5. wheel' = w /\ state' = [state EXCEPT ![t] = "ready"]
  BY <1>4 DEF osTaskScan
<1>6. /\ WheelOK(w) /\ t \in Waiting(wheel) /\ Waiting(w) = Waiting(wheel) \ {t}
      /\ RestInScan(wheel, t) = 0
      /\ \A u \in Task \ {t} : RestInScan(w, u) = RestInScan(wheel, u)
  BY <1>1, <1>2, <1>4, ExpireFacts
<1>7. Waits(w, state')
  BY <1>2, <1>5, <1>6 DEF IInv, Waits, State
<1>8. ASSUME NEW u \in Task
      PROVE  LeftIn(w, u, isr) = LeftIn(wheel, u, isr)
  <2>1. CASE u = t
    <3>1. LeftIn(wheel, u, isr) = 0
      BY <1>3, <1>6, <2>1, LeftInFacts
    <3>2. LeftIn(w, u, isr) = 0
      BY <1>6, <2>1, LeftInNat
    <3> QED BY <3>1, <3>2
  <2>2. CASE u # t
    BY <1>3, <1>6, <2>2, LeftInFacts
  <2> QED BY <2>1, <2>2
<1>9. NoneLate(w, timer, sleep, lag, isr)
  BY <1>2, <1>8 DEF NoneLate
<1> QED BY <1>1, <1>3, <1>5, <1>7, <1>8, <1>9 DEF IInv, Kept

\* The scan is over.
LEMMA ScanEndInv ==
  ASSUME IInv, osTaskScanEnd
  PROVE  IInv' /\ Kept
<1>1. /\ InIsr /\ Top.stage \in {"scan", "lastScan"} /\ ~Due(wheel)
      /\ isr' = (IF Top.stage = "lastScan" THEN Front(isr)
                 ELSE SetTop([Top EXCEPT !.stage = "update", !.todo = @ - 1]))
      /\ state' = state /\ timer' = timer /\ sleep' = sleep /\ flags' = flags /\ systick' = systick
      /\ tick' = tick /\ phase' = phase /\ lag' = lag
  BY DEF osTaskScanEnd
<1>2. Nesting(isr, sleep) /\ Clock(sleep, phase, lag, flags, systick, isr)
      /\ NoneLate(wheel, timer, sleep, lag, isr) /\ WheelOK(wheel)
  BY DEF IInv, Waits
<1>3. isr = <<Top>> /\ Top = isr[1] /\ Top \in Interrupt /\ Front(isr) = <<>>
      /\ \A f : SetTop(f) = <<f>>
  BY <1>1, <1>2, TopFacts
<1>4. PICK f, w, q1 : f = Top /\ w = LastRound(wheel) /\ q1 = isr'
  OBVIOUS
<1>5. f \in Interrupt /\ isr = <<f>> /\ f.stage \in {"scan", "lastScan"} /\ wheel' = w
  BY <1>1, <1>3, <1>4 DEF osTaskScanEnd
<1>6. isr # <<>> /\ Scans(isr) /\ ~Asleep(sleep, isr)
  BY <1>5, OneFacts DEF Asleep
<1>7. /\ Nesting(q1, sleep) /\ ~Scans(q1) /\ ~Asleep(sleep, q1)
      /\ Owed(q1) = Owed(isr) /\ (Serves(q1) <=> Serves(isr))
  <2>1. CASE f.stage = "lastScan"
    <3>1. q1 = <<>>
      BY <1>1, <1>3, <1>4, <2>1
    <3>2. ~CatchesUp(isr) /\ ~Serves(isr) /\ Owed(isr) = 0
      BY <1>5, <2>1, OneFacts
    <3>3. ~(sleep > 1)
      BY <1>2, <1>6, <3>2 DEF Nesting
    <3> QED BY <3>1, <3>2, <3>3, NoneFacts DEF Asleep
  <2>2. CASE f.stage = "scan"
    <3>1. PICK g : g = [f EXCEPT !.stage = "update", !.todo = @ - 1]
      OBVIOUS
    <3>2. f.todo > 0 /\ f.todo \in Nat /\ sleep > 1
      <4>1. CatchesUp(isr) /\ isr[1] = f
        BY <1>5, <2>2, OneFacts
      <4>2. sleep > 1
        BY <1>2, <1>6, <4>1 DEF Nesting
      <4>3. f.todo > 0
        BY <1>2, <1>6, <2>2, <4>1 DEF Nesting
      <4> QED BY <1>5, <4>2, <4>3 DEF Interrupt
    <3>3. g \in Interrupt /\ g.stage = "update" /\ g.irq = f.irq /\ g.todo = f.todo - 1
      <4>1. PICK n \in Nat : n = f.todo - 1
        BY <3>2
      <4>2. g = [f EXCEPT !.stage = "update", !.todo = n]
        BY <3>1, <4>1
      <4> QED BY <1>5, <4>1, <4>2 DEF Interrupt
    <3>4. q1 = <<g>>
      BY <1>1, <1>3, <1>4, <2>2, <3>1
    <3>5. /\ Nesting(q1, sleep) /\ ~Scans(q1) /\ q1 # <<>> /\ (Serves(q1) <=> f.irq = "tick")
          /\ Owed(q1) = f.todo - 1 + (IF f.irq = "tick" THEN 1 ELSE 0)
      BY <3>2, <3>3, <3>4, OneFacts
    <3>6. /\ Serves(isr) <=> f.irq = "tick"
          /\ Owed(isr) = f.todo - 1 + (IF f.irq = "tick" THEN 1 ELSE 0)
      BY <1>5, <2>2, OneFacts
    <3> QED BY <3>5, <3>6 DEF Asleep
  <2> QED BY <1>5, <2>1, <2>2
<1>8. /\ Clock(sleep, phase, lag, flags, systick, q1)
      /\ \A n \in Nat : InTime(n, sleep, lag, isr) => InTime(n, sleep, lag, q1)
  BY <1>2, <1>6, <1>7, ClockKept
<1>9. /\ WheelOK(w) /\ Waiting(w) = Waiting(wheel)
      /\ \A t \in Task : Rest(w, t) = RestInScan(wheel, t)
  BY <1>1, <1>2, <1>4, LastRoundFacts
<1>10. \A t \in Task : LeftIn(w, t, q1) = LeftIn(wheel, t, isr) /\ LeftIn(wheel, t, isr) \in Nat
  BY <1>2, <1>6, <1>7, <1>9, LeftInFacts, LeftInNat
<1>11. NoneLate(w, timer, sleep, lag, q1)
  BY <1>2, <1>8, <1>10 DEF NoneLate
<1>12. Waits(w, state)
  BY <1>9 DEF IInv, Waits
<1> QED BY <1>1, <1>4, <1>5, <1>7, <1>8, <1>10, <1>11, <1>12 DEF IInv, Kept

\* Another handler ends, and may take a task out of the wheel.
LEMMA OtherHandlerInv ==
  ASSUME IInv, Handler
  PROVE  IInv' /\ (Kept \/ \E t \in Task : Set(t, 0))
<1>1. /\ InIsr /\ Top.stage = "handler" /\ Top.irq = "other" /\ isr' = Front(isr)
      /\ timer' = timer /\ sleep' = sleep /\ flags' = flags /\ systick' = systick
      /\ tick' = tick /\ phase' = phase /\ lag' = lag
  BY DEF Handler
<1>2. Nesting(isr, sleep) /\ Clock(sleep, phase, lag, flags, systick, isr)
      /\ NoneLate(wheel, timer, sleep, lag, isr) /\ WheelOK(wheel) /\ state \in [Task -> State]
  BY DEF IInv, Waits
<1>3. PICK q1 : q1 = isr'
  OBVIOUS
<1>4. /\ Nesting(q1, sleep) /\ ~(sleep > 1) /\ Owed(q1) = Owed(isr)
      /\ (Scans(q1) <=> Scans(isr)) /\ (Serves(q1) <=> Serves(isr))
  BY <1>1, <1>2, <1>3, PopIsrFacts
<1>5. ~Asleep(sleep, isr) /\ ~Asleep(sleep, q1)
  BY <1>4 DEF Asleep
<1>6. /\ Clock(sleep, phase, lag, flags, systick, q1)
      /\ \A n \in Nat : InTime(n, sleep, lag, isr) => InTime(n, sleep, lag, q1)
  BY <1>2, <1>4, <1>5, ClockKept
<1>7. \A u \in Task : LeftIn(wheel, u, q1) = LeftIn(wheel, u, isr) /\ LeftIn(wheel, u, isr) \in Nat
  BY <1>2, <1>4, LeftKept, LeftInNat
<1>8. NoneLate(wheel, timer, sleep, lag, q1)
  BY <1>2, <1>6, <1>7 DEF NoneLate
<1>9. ASSUME wheel' = wheel, Waits(wheel, state')
      PROVE  IInv' /\ Kept
  BY <1>1, <1>3, <1>4, <1>5, <1>6, <1>7, <1>8, <1>9 DEF IInv, Kept
<1>10. CASE wheel' = wheel /\ state' = state
  <2>1. Waits(wheel, state')
    BY <1>10 DEF IInv
  <2> QED BY <1>9, <1>10, <2>1
<1>11. ASSUME NEW t \in Task, state[t] # "ready", state' = [state EXCEPT ![t] = "ready"],
              wheel' = IF state[t] = "timed" THEN osTimerListDelete(wheel, t) ELSE wheel
       PROVE  IInv' /\ (Kept \/ Set(t, 0))
  <2>1. CASE state[t] # "timed"
    <3>1. wheel' = wheel /\ Waits(wheel, state')
      BY <1>2, <1>11, <2>1 DEF IInv, Waits, State
    <3> QED BY <1>9, <3>1
  <2>2. CASE state[t] = "timed"
    <3>1. PICK w : w = osTimerListDelete(wheel, t)
      OBVIOUS
    <3>2. wheel' = w /\ t \in Waiting(wheel)
      BY <1>11, <2>2, <3>1 DEF IInv, Waits
    <3>3. /\ WheelOK(w) /\ Waiting(w) = Waiting(wheel) \ {t}
          /\ \A u \in Task \ {t} : \A scanning \in BOOLEAN :
               TicksLeft(w, u, scanning) = TicksLeft(wheel, u, scanning)
      BY <1>2, <3>1, <3>2, WheelDeleteFacts
    <3>4. Waits(w, state')
      BY <1>2, <1>11, <3>3 DEF IInv, Waits, State
    <3>5. \A u \in Task : LeftIn(w, u, q1) = IF u = t THEN 0 ELSE LeftIn(wheel, u, isr)
      <4>1. Scans(q1) \in BOOLEAN
        BY DEF Scans
      <4>2. \A u \in Task \ {t} : LeftIn(w, u, q1) = LeftIn(wheel, u, q1)
        BY <3>3, <4>1 DEF LeftIn
      <4>3. LeftIn(w, t, q1) = 0
        BY <3>3, LeftInNat
      <4> QED BY <1>7, <4>2, <4>3
    <3>6. NoneLate(w, timer, sleep, lag, q1)
      <4>1. InTime(0, sleep, lag, q1)
        BY DEF InTime
      <4>2. timer \in Nat /\ InTime(timer, sleep, lag, q1)
            /\ \A u \in Task : InTime(LeftIn(wheel, u, isr), sleep, lag, q1)
        BY <1>2, <1>6, <1>7 DEF NoneLate
      <4> QED BY <3>5, <4>1, <4>2 DEF NoneLate
    <3> QED BY <1>1, <1>3, <1>4, <1>5, <1>6, <3>2, <3>4, <3>5, <3>6 DEF IInv, Set
  <2> QED BY <2>1, <2>2
<1> QED BY <1>10, <1>11 DEF Handler

LEMMA StepInv ==
  ASSUME IInv, Races = FALSE, MaxSleep > 1, [Next]_vars
  PROVE  IInv'
<1>1. CASE Cycle
  BY <1>1, CycleInv
<1>2. CASE SetTimer
  BY <1>2, SetTimerInv
<1>3. CASE osTicklessHandler
  BY <1>3, HandlerInv
<1>4. CASE IsrStep
  BY <1>4, LoopInv, UpdateDoneInv, TickHandlerInv, ScanInv, ScanEndInv, OtherHandlerInv DEF IsrStep
<1>5. ASSUME NEW t \in Task, TaskWait(t)
      PROVE  IInv'
  BY <1>5, TaskWaitInv
<1>6. ASSUME NEW irq \in {"tick", "other"}, osInterrupt(irq)
      PROVE  IInv'
  BY <1>6, InterruptAwakeInv, InterruptAsleepInv
<1>7. CASE UNCHANGED vars
  BY <1>7 DEF vars, IInv
<1> QED BY <1>1, <1>2, <1>3, <1>4, <1>5, <1>6, <1>7 DEF Next

LEMMA Invariance == Races = FALSE /\ MaxSleep > 1 => (Spec => []IInv)
<1> SUFFICES ASSUME Races = FALSE, MaxSleep > 1
             PROVE  Spec => []IInv
  OBVIOUS
<1>1. TicklessInit => IInv
  BY InitInv
<1>2. IInv /\ [Next]_vars => IInv'
  BY StepInv
<1> QED BY <1>1, <1>2, PTL DEF Spec

-----------------------------------------------------------------------------
(* The time.  The ticks of SysTick are off it by what the reloads of one     *)
(* sleep have moved, Slip.                                                   *)

Slip(bh, la, ph) == bh - (la * CyclesPerTick + ph)

Drift(sl, ph, la, fl, s, q, bh) ==
  /\ bh \in Int
  /\ Slip(bh, la, ph) >= 2 - CyclesPerTick /\ Slip(bh, la, ph) <= 2 * CyclesPerTick - 4
  /\ Asleep(sl, q) => Slip(bh, la, ph) = 0
  /\ "reload" \in fl => s.load < CyclesPerTick /\ Slip(bh, la, ph) = 2 * s.load - CyclesPerTick

InStep == Drift(sleep, phase, lag, flags, systick, isr, behind)

\* A cycle, and a tick counted, move SysTick and the time alike.
LEMMA SlipFacts ==
  ASSUME NEW bh \in Int, NEW la \in Nat, NEW ph \in 0 .. CyclesPerTick - 1
  PROVE  /\ Slip(bh, la, ph) \in Int
         /\ Slip(bh + 1, la, ph + 1) = Slip(bh, la, ph)
         /\ ph + 1 = CyclesPerTick => Slip(bh + 1, la + 1, 0) = Slip(bh, la, ph)
         /\ la > 0 => Slip(bh - CyclesPerTick, la - 1, ph) = Slip(bh, la, ph)
         /\ \A x \in Int : Slip(bh, la, x) = Slip(bh, la, ph) + ph - x
<1>1. PICK c, a : c = CyclesPerTick /\ a = la * c
  OBVIOUS
<1>2. c \in Nat /\ ph \in Nat
  BY <1>1, TickLength
<1>3. a \in Nat /\ (la + 1) * c = a + c
  BY ONLY <1>1, <1>2, la \in Nat
<1>4. la > 0 => (la - 1) * c = a - c
  BY ONLY <1>1, <1>2, la \in Nat
<1> QED BY <1>1, <1>2, <1>3, <1>4 DEF Slip

\* An interrupt that is served, or has just been, finds or leaves no sleep.
LEMMA StaysAwake ==
  ASSUME IInv, IsrStep
  PROVE  ~Asleep(sleep', isr')
<1>1. Nesting(isr, sleep) /\ InIsr
  BY DEF IInv, IsrStep, osTickHandlerLoop, UpdateDone, osTickHandler, osTaskScan, osTaskScanEnd,
     Handler
<1>2. CASE osTickHandlerLoop \/ osTickHandler
  <2>1. PICK stage : isr' = SetTop([Top EXCEPT !.stage = stage])
    BY <1>2 DEF osTickHandlerLoop, osTickHandler, CountTick
  <2>2. \A f : SetTop(f) = <<f>>
    BY <1>1, <1>2, TopFacts DEF osTickHandlerLoop, osTickHandler
  <2>3. isr' # <<>>
    BY <2>1, <2>2
  <2> QED BY <2>3 DEF Asleep
<1>3. CASE UpdateDone
  BY <1>3 DEF UpdateDone, Asleep
<1>4. CASE osTaskScan
  BY <1>1, <1>4 DEF osTaskScan, Asleep, InIsr
<1>5. CASE osTaskScanEnd
  <2>1. /\ Top.stage \in {"scan", "lastScan"} /\ sleep' = sleep
        /\ Top.stage # "lastScan" =>
             isr' = SetTop([Top EXCEPT !.stage = "update", !.todo = @ - 1])
    BY <1>5 DEF osTaskScanEnd
  <2>2. isr = <<Top>> /\ Top \in Interrupt /\ \A f : SetTop(f) = <<f>>
    BY <1>1, <2>1, TopFacts
  <2>3. CASE Top.stage = "lastScan"
    <3>1. ~CatchesUp(isr) /\ isr # <<>>
      BY <2>2, <2>3 DEF CatchesUp
    <3> QED BY <1>1, <2>1, <3>1 DEF Nesting, Asleep
  <2>4. CASE Top.stage # "lastScan"
    BY <2>1, <2>2, <2>4 DEF Asleep
  <2> QED BY <2>3, <2>4
<1>6. CASE Handler
  <2>1. PICK p : p = Front(isr)
    OBVIOUS
  <2>2. ~(sleep > 1)
    BY <1>1, <1>6, <2>1, PopIsrFacts DEF Handler
  <2> QED BY <1>6, <2>2 DEF Handler, Asleep
<1> QED BY <1>2, <1>3, <1>4, <1>5, <1>6 DEF IsrStep

\* The clock of the invariant that InStep speaks of.
LEMMA ClockNow ==
  ASSUME IInv, InStep
  PROVE  /\ behind \in Int /\ lag \in Nat /\ phase \in 0 .. CyclesPerTick - 1
         /\ Slip(behind, lag, phase) \in Int /\ systick.load \in Nat
<1>1. behind \in Int /\ lag \in Nat /\ phase \in 0 .. CyclesPerTick - 1 /\ systick.load \in Nat
  BY DEF IInv, InStep, Clock, Drift, SysTick
<1> QED BY <1>1, SlipFacts

\* What moves neither the time nor SysTick.
LEMMA DriftKept ==
  ASSUME InStep, UNCHANGED <<behind, phase, lag>>, systick'.load = systick.load,
         "reload" \in flags' => "reload" \in flags, Asleep(sleep', isr') => Asleep(sleep, isr)
  PROVE  InStep'
BY DEF InStep, Drift

LEMMA CycleInStep ==
  ASSUME IInv, InStep, Cycle
  PROVE  InStep'
<1>1. /\ behind \in Int /\ lag \in Nat /\ phase \in 0 .. CyclesPerTick - 1
      /\ systick \in [val : Nat, load : Nat, pend : BOOLEAN]
  BY ClockNow DEF IInv, Clock, SysTick
<1>2. /\ sleep' = sleep /\ flags' = flags /\ isr' = isr /\ behind' = behind + 1
      /\ phase' = (phase + 1) % CyclesPerTick /\ lag' = IF phase' = 0 THEN lag + 1 ELSE lag
  BY DEF Cycle
<1>3. systick'.load = systick.load
  BY <1>1 DEF Cycle
<1>4. phase' = IF phase + 1 = CyclesPerTick THEN 0 ELSE phase + 1
  <2>1. PICK c, p : c = CyclesPerTick /\ p = phase
    OBVIOUS
  <2>2. c \in Nat /\ c > 0 /\ p \in Nat /\ p < c
    BY <1>1, <2>1, TickLength
  <2>3. (p + 1) % c = IF p + 1 = c THEN 0 ELSE p + 1
    BY ONLY SMTT(60), <2>2
  <2> QED BY <1>2, <2>1, <2>3
<1>5. Slip(behind', lag', phase') = Slip(behind, lag, phase) /\ behind' \in Int
  <2>1. CASE phase + 1 = CyclesPerTick
    BY <1>1, <1>2, <1>4, <2>1, SlipFacts
  <2>2. CASE phase + 1 # CyclesPerTick
    <3>1. phase' = phase + 1 /\ lag' = lag
      BY <1>1, <1>2, <1>4, <2>2
    <3> QED BY <1>1, <1>2, <3>1, SlipFacts
  <2> QED BY <2>1, <2>2
<1> QED BY <1>2, <1>3, <1>5 DEF InStep, Drift

LEMMA SleepInStep ==
  ASSUME IInv, InStep, osTicklessHandler
  PROVE  InStep'
<1>1. /\ isr' = isr /\ phase' = phase /\ lag' = lag /\ flags' = flags \ {"irq"} /\ "irq" \in flags
      /\ isr = <<>>
  BY DEF osTicklessHandler, Calm, InIsr
<1>2. CASE systick.pend \/ osSleepTicksGet <= 1
  <2>1. systick' = systick /\ sleep' = sleep /\ behind' = behind
    BY <1>2 DEF osTicklessHandler, osTicklessStart
  <2> QED BY <1>1, <2>1, DriftKept
<1>3. CASE ~(systick.pend \/ osSleepTicksGet <= 1)
  <2>1. behind' = CyclesPerTick - (systick.val + 0)
    <3>1. LOS_SysTickCurrCycleGet = systick.val + 0
      BY <1>3 DEF LOS_SysTickCurrCycleGet
    <3> QED BY <1>3, <3>1 DEF osTicklessHandler, osTicklessStart
  <2>2. ~Asleep(sleep, <<>>) /\ "reload" \notin flags
    BY <1>1 DEF IInv, Clock
  <2>3. systick.val = CyclesPerTick - phase /\ lag = 0 + 0 /\ phase \in 0 .. CyclesPerTick - 1
    BY <1>1, <1>3, <2>2, NoneFacts DEF IInv, Clock
  <2>4. behind' = phase /\ behind' \in Int
    BY <2>1, <2>3, TickLength
  <2>5. Slip(behind', lag', phase') = 0
    <3>1. 0 * CyclesPerTick = 0
      BY TickLength
    <3> QED BY <1>1, <2>3, <2>4, <3>1, TickLength DEF Slip
  <2> QED BY <1>1, <2>2, <2>4, <2>5, TickLength DEF InStep, Drift
<1> QED BY <1>2, <1>3

LEMMA InterruptInStep ==
  ASSUME IInv, InStep, Races = FALSE, NEW irq \in {"tick", "other"}, osInterrupt(irq)
  PROVE  InStep'
<1>1. behind' = behind /\ lag' = lag /\ sleep' = sleep
  BY DEF osInterrupt
<1>2. /\ behind \in Int /\ lag \in Nat /\ phase \in 0 .. CyclesPerTick - 1
      /\ systick \in [val : Nat, load : Nat, pend : BOOLEAN]
      /\ isr \in Seq(Interrupt) /\ sleep \in Nat
  BY ClockNow, TickLength DEF IInv, Clock, SysTick, Nesting
<1>3. CASE ~(sleep > 1)
  <2>1. sleep <= 1
    BY <1>2, <1>3
  <2>2. phase' = phase /\ flags' = flags
    BY <2>1 DEF osInterrupt
  <2>3. systick' = [systick EXCEPT !.pend = @ /\ irq # "tick"]
    BY <2>1 DEF osInterrupt
  <2>4. systick'.load = systick.load
    BY <1>2, <2>3
  <2>5. ~Asleep(sleep', isr')
    BY <1>1, <1>3 DEF Asleep
  <2> QED BY <1>1, <2>2, <2>4, <2>5, DriftKept
<1>4. CASE sleep > 1
  <2>1. isr = <<>> /\ (irq = "other" => ~systick.pend) /\ ~(sleep <= 1)
    BY <1>2, <1>4 DEF osInterrupt, InIsr
  <2>2. Asleep(sleep, isr) /\ flags = {}
    BY <1>4, <2>1 DEF IInv, Clock, Asleep
  <2>3. Slip(behind, lag, phase) = 0
    BY <2>2 DEF InStep, Drift
  <2>4. PICK c : c = CyclesPerTick
    OBVIOUS
  <2>5. c \in Nat /\ c > 2 /\ phase \in Nat /\ phase <= c - 1
    BY <1>2, <2>4, TickLength
  <2>6. ASSUME NEW x \in Int
        PROVE  Slip(behind, lag, x) = phase - x
    BY <1>2, <2>3, SlipFacts
  <2>7. PICK q1 : q1 = isr'
    OBVIOUS
  <2>8. ~Asleep(sleep', q1)
    <3>1. \E f : isr' = Append(isr, f)
      BY <2>1 DEF osInterrupt
    <3>2. \A f : Append(isr, f) # <<>>
      BY <2>1
    <3> QED BY <2>7, <3>1, <3>2 DEF Asleep
  <2>9. CASE irq = "tick"
    <3>1. phase' = 0 /\ flags' = flags \ {"reload"}
      BY <2>1, <2>9 DEF osInterrupt
    <3>2. Slip(behind', lag', phase') = phase /\ "reload" \notin flags'
      BY <1>1, <2>5, <2>6, <3>1
    <3> QED BY <1>1, <1>2, <2>4, <2>5, <2>7, <2>8, <3>2 DEF InStep, Drift
  <2>10. CASE irq = "other"
    <3>1. PICK e, rest : e = ElapsedCycles /\ rest = e % CyclesPerTick
      OBVIOUS
    <3>2. rest = phase
      <4>1. e = (sleep * CyclesPerTick + Word - (systick.val + 0)) % Word
        BY <2>1, <2>10, <3>1 DEF ElapsedCycles, LOS_SysTickCurrCycleGet
      <4>2. Clock(sleep, phase, lag, flags, systick, <<>>)
        BY <2>1 DEF IInv
      <4> QED BY <1>4, <2>1, <2>10, <3>1, <4>1, <4>2, WakeFacts
    <3>3. /\ flags' = (IF rest > 0 THEN flags \cup {"reload"} ELSE flags \ {"reload"})
          /\ phase' = IF rest > 0 THEN CyclesPerTick - rest ELSE 0
          /\ systick' = LOS_SysTickReload([systick EXCEPT !.pend = @ /\ irq # "tick"],
                                         IF rest > 0 THEN rest ELSE CyclesPerTick)
      BY <2>1, <2>10, <3>1 DEF osInterrupt
    <3>4. systick'.load = IF rest > 0 THEN rest ELSE CyclesPerTick
      BY <1>2, <3>3 DEF LOS_SysTickReload
    <3>5. CASE rest > 0
      <4>1. phase' = c - phase /\ systick'.load = phase /\ phase > 0
        BY <2>4, <3>2, <3>3, <3>4, <3>5
      <4>2. Slip(behind', lag', phase') = 2 * phase - c
        BY <1>1, <2>5, <2>6, <4>1
      <4> QED BY <1>1, <1>2, <2>4, <2>5, <2>7, <2>8, <4>1, <4>2 DEF InStep, Drift
    <3>6. CASE ~(rest > 0)
      <4>1. phase = 0 /\ phase' = 0 /\ "reload" \notin flags'
        BY <2>5, <3>2, <3>3, <3>6
      <4>2. Slip(behind', lag', phase') = 0
        BY <1>1, <2>6, <4>1
      <4> QED BY <1>1, <1>2, <2>4, <2>5, <2>7, <2>8, <4>1, <4>2 DEF InStep, Drift
    <3> QED BY <3>5, <3>6
  <2> QED BY <2>9, <2>10
<1> QED BY <1>3, <1>4

\* A tick is counted; the tick handler drops the cycles since the tick when it reloads SysTick.
LEMMA CountInStep ==
  ASSUME IInv, InStep, osTickHandlerLoop \/ osTickHandler
  PROVE  InStep'
<1>1. /\ behind' = behind - CyclesPerTick /\ lag' = lag - 1 /\ sleep' = sleep
      /\ ~Asleep(sleep', isr')
  BY StaysAwake DEF osTickHandlerLoop, osTickHandler, CountTick, IsrStep
<1>2. /\ behind \in Int /\ lag \in Nat /\ phase \in 0 .. CyclesPerTick - 1
      /\ systick \in [val : Nat, load : Nat, pend : BOOLEAN]
  BY ClockNow DEF IInv, Clock, SysTick
<1>3. lag > 0
  <2>1. IInv'
    BY LoopInv, TickHandlerInv
  <2>2. lag' \in Nat
    BY <2>1 DEF IInv, Clock
  <2> QED BY <1>1, <1>2, <2>2
<1>4. /\ Slip(behind', lag', phase) = Slip(behind, lag, phase) /\ behind' \in Int /\ lag' \in Nat
      /\ Slip(behind, lag, phase) \in Int
  <2>1. Slip(behind - CyclesPerTick, lag - 1, phase) = Slip(behind, lag, phase)
        /\ Slip(behind, lag, phase) \in Int
    BY <1>2, <1>3, SlipFacts
  <2>2. behind' \in Int /\ lag' \in Nat
    BY <1>1, <1>2, <1>3, TickLength
  <2> QED BY <1>1, <2>1, <2>2
<1>5. CASE osTickHandlerLoop
  <2>1. flags' = flags /\ systick' = systick /\ phase' = phase
    BY <1>5 DEF osTickHandlerLoop
  <2> QED BY <1>1, <1>4, <2>1 DEF InStep, Drift
<1>6. CASE osTickHandler
  <2>1. "reload" \notin flags'
    BY <1>6 DEF osTickHandler
  <2>2. CASE "reload" \notin flags
    <3>1. systick' = systick /\ phase' = phase
      BY <1>6, <2>2 DEF osTickHandler
    <3> QED BY <1>1, <1>4, <2>1, <3>1 DEF InStep, Drift
  <2>3. CASE "reload" \in flags
    <3>1. phase' = 0
      BY <1>6, <2>3 DEF osTickHandler
    <3>2. isr = <<Top>> /\ Top.stage = "handler" /\ Top.irq = "tick" /\ Top \in Interrupt
      BY <1>6, TopFacts DEF osTickHandler, IInv
    <3>3. Serves(isr) /\ isr # <<>>
      BY <3>2, OneFacts
    <3>4. systick.val = systick.load - phase /\ 1 <= systick.val
      BY <2>3, <3>3 DEF IInv, Clock, Asleep
    <3>5. PICK c, l, d : c = CyclesPerTick /\ l = systick.load /\ d = Slip(behind, lag, phase)
      OBVIOUS
    <3>6. l < c /\ d = 2 * l - c /\ d >= 2 - c /\ l \in Nat /\ c \in Nat /\ phase \in Nat
          /\ phase <= l - 1
      BY <1>2, <2>3, <3>4, <3>5, TickLength DEF InStep, Drift
    <3>7. Slip(behind', lag', phase') = d + phase
      <4>1. Slip(behind', lag', 0) = Slip(behind', lag', phase) + phase - 0
        BY <1>2, <1>4, SlipFacts
      <4> QED BY <1>4, <3>1, <3>5, <3>6, <4>1
    <3>8. d + phase >= 2 - c /\ d + phase <= 2 * c - 4
      BY ONLY <3>6
    <3> QED BY <1>1, <1>4, <2>1, <3>5, <3>7, <3>8 DEF InStep, Drift
  <2> QED BY <2>2, <2>3
<1> QED BY <1>5, <1>6

LEMMA StepInStep ==
  ASSUME IInv, InStep, Races = FALSE, [Next]_vars
  PROVE  InStep'
<1>1. CASE IsrStep
  <2>1. CASE osTickHandlerLoop \/ osTickHandler
    BY <2>1, CountInStep
  <2>2. CASE UpdateDone \/ osTaskScan \/ osTaskScanEnd \/ Handler
    <3>1. UNCHANGED <<behind, phase, lag, systick, flags>>
      BY <2>2 DEF UpdateDone, osTaskScan, osTaskScanEnd, Handler
    <3> QED BY <1>1, <3>1, StaysAwake, DriftKept
  <2> QED BY <1>1, <2>1, <2>2 DEF IsrStep
<1>2. CASE SetTimer \/ \E t \in Task : TaskWait(t)
  <2>1. UNCHANGED <<behind, phase, lag, systick, flags, sleep, isr>>
    BY <1>2 DEF SetTimer, TaskWait
  <2> QED BY <2>1, DriftKept
<1>3. CASE UNCHANGED vars
  <2>1. UNCHANGED <<behind, phase, lag, systick, flags, sleep, isr>>
    BY <1>3 DEF vars
  <2> QED BY <2>1, DriftKept
<1> QED BY <1>1, <1>2, <1>3, CycleInStep, SleepInStep, InterruptInStep DEF Next

LEMMA TimeInvariance == Races = FALSE /\ MaxSleep > 1 => (Spec => [](IInv /\ InStep))
<1> SUFFICES ASSUME Races = FALSE, MaxSleep > 1
             PROVE  Spec => [](IInv /\ InStep)
  OBVIOUS
<1>1. TicklessInit => InStep
  <2> SUFFICES ASSUME TicklessInit
               PROVE  InStep
    OBVIOUS
  <2>1. behind = 0 /\ phase = 0 /\ lag = 0 /\ flags = {} /\ sleep = 0
    BY DEF TicklessInit
  <2>2. Slip(0, 0, 0) = 0
    BY TickLength DEF Slip
  <2> QED BY <2>1, <2>2, TickLength DEF InStep, Drift
<1>2. TicklessInit => IInv
  BY InitInv
<1>3. IInv /\ InStep /\ [Next]_vars => (IInv /\ InStep)'
  BY StepInv, StepInStep
<1> QED BY <1>1, <1>2, <1>3, PTL DEF Spec

-----------------------------------------------------------------------------
\* The times of the invariant are those of the properties.
LEMMA LeftIs == IInv => \A t \in Task : Left(t) = LeftIn(wheel, t, isr)
<1> SUFFICES ASSUME IInv, NEW t \in Task
             PROVE  Left(t) = LeftIn(wheel, t, isr)
  OBVIOUS
<1>1. Scanning <=> Scans(isr)
  BY ScanningFacts DEF IInv
<1>2. Scanning \in BOOLEAN /\ Scans(isr) \in BOOLEAN
  BY DEF Scanning, Scans
<1>3. Scanning = Scans(isr)
  BY <1>1, <1>2
<1> QED BY <1>3, Zenon DEF Left, LeftIn

-----------------------------------------------------------------------------
(* The theorems.  SysTick can count two ticks, and no other interrupt comes  *)
(* on top of a pending tick at the end of a sleep or of one that makes up    *)
(* for it (Races = FALSE); handlers keep to the two rules of LosTickless.    *)

\* However a sleep ends, and wherever in a tick it does, the count of ticks follows the time to
\* within the cycles that the reloads of SysTick move (osUpdateKernelTickCount, osTickHandler).
THEOREM TicksCountTime == Races = FALSE /\ MaxSleep > 1 => (Spec => []TicksTrackTime)
<1> SUFFICES ASSUME Races = FALSE, MaxSleep > 1
             PROVE  Spec => []TicksTrackTime
  OBVIOUS
<1>1. ASSUME IInv, InStep
      PROVE  TicksTrackTime
  <2>1. PICK c, a, d : c = CyclesPerTick /\ a = lag * c /\ d = behind - (a + phase)
    OBVIOUS
  <2>2. /\ c \in Nat /\ c > 2 /\ phase \in 0 .. c - 1 /\ lag \in Nat /\ behind \in Int
        /\ d >= 2 - c /\ d <= 2 * c - 4 /\ (sleep = 0 \/ sleep \in 2 .. MaxSleep)
    BY <1>1, <2>1, TickLength DEF IInv, Clock, InStep, Drift, Slip
  <2>3. a \in Nat
    BY ONLY <2>1, <2>2
  <2>4. behind = d + a + phase /\ behind >= 2 - c
    BY ONLY <2>1, <2>2, <2>3
  <2>5. ASSUME sleep <= 1, ~InIsr, ~systick.pend
        PROVE  behind <= 3 * c - 5
    <3>1. isr = <<>> /\ ~Asleep(sleep, isr)
      BY <2>2, <2>5, TickLength DEF InIsr, Asleep
    <3>2. lag = 0 + 0
      BY <1>1, <2>5, <3>1, NoneFacts DEF IInv, Clock
    <3>3. a = 0
      BY ONLY <2>1, <2>2, <3>2
    <3>4. phase \in Nat /\ phase <= c - 1 /\ d \in Int
      BY ONLY <2>1, <2>2, <2>3
    <3> QED BY ONLY <2>2, <2>4, <3>3, <3>4
  <2> QED BY <2>1, <2>2, <2>4, <2>5 DEF TicksTrackTime
<1> QED BY <1>1, TimeInvariance, PTL

\* The sleep the idle task programs ends in time for every task and for the software timers
\* (osTicklessStart).
THEOREM SleepDelaysNobody == Races = FALSE /\ MaxSleep > 1 => (Spec => []NobodyOverdue)
<1> SUFFICES ASSUME Races = FALSE, MaxSleep > 1
             PROVE  Spec => []NobodyOverdue
  OBVIOUS
<1>1. ASSUME IInv
      PROVE  NobodyOverdue
  <2>1. ASSUME NEW n \in Nat, InTime(n, sleep, lag, isr), n > 0
        PROVE  IF InIsr \/ systick.pend THEN lag <= n ELSE lag < n
    <3>1. lag \in Nat /\ sleep \in Nat
      BY <1>1, TickLength DEF IInv, Clock
    <3>2. CASE Asleep(sleep, isr)
      <4>1. isr = <<>> /\ sleep <= n
        BY <2>1, <3>2 DEF InTime, Asleep
      <4>2. IF systick.pend THEN lag = sleep ELSE lag < sleep
        BY <1>1, <3>2 DEF IInv, Clock
      <4> QED BY <3>1, <4>1, <4>2 DEF InIsr
    <3>3. CASE ~Asleep(sleep, isr)
      <4>1. lag <= n
        BY <2>1, <3>3 DEF InTime
      <4>2. ASSUME ~InIsr, ~systick.pend
            PROVE  lag = 0
        <5>1. lag = 0 + 0
          BY <1>1, <3>3, <4>2, NoneFacts DEF IInv, Clock, InIsr
        <5> QED BY <5>1
      <4> QED BY <2>1, <4>1, <4>2
    <3> QED BY <3>2, <3>3
  <2>2. timer \in Nat /\ InTime(timer, sleep, lag, isr)
        /\ \A t \in Task : Left(t) \in Nat /\ InTime(Left(t), sleep, lag, isr)
    BY <1>1, LeftIs, LeftInNat DEF IInv, NoneLate, Waits
  <2> QED BY <2>1, <2>2 DEF NobodyOverdue
<1> QED BY <1>1, Invariance, PTL

\* The wheel and the first software timer are a countdown for everyone who waits: the routines
\* that work on them arm and disarm one, and the scans of a tick are a tick.
THEOREM WaitsCountDown == Races = FALSE /\ MaxSleep > 1 => (Spec => ImplementsCountdown)
<1> SUFFICES ASSUME Races = FALSE, MaxSleep > 1
             PROVE  Spec => ImplementsCountdown
  OBVIOUS
<1> DEFINE left == [c \in Clients |-> IF c = "timer" THEN timer ELSE Left(c)]
           at(c) == IF c = "timer" THEN timer ELSE LeftIn(wheel, c, isr)
<1>1. IInv => left = [c \in Clients |-> at(c)]
  BY LeftIs DEF Clients
<1>2. (IInv => left = [c \in Clients |-> at(c)])'
  BY <1>1, PTL
<1>3. TicklessInit => Timed!Init
  <2> SUFFICES ASSUME TicklessInit
               PROVE  Timed!Init
    OBVIOUS
  <2>1. \A c \in Clients : at(c) = 0
    BY InitInv DEF Clients
  <2>2. left = [c \in Clients |-> 0]
    BY <1>1, <2>1, InitInv
  <2> QED BY <2>2, InitInv DEF Timed!Init
<1>4. IInv /\ IInv' /\ [Next]_vars => [Timed!Next]_<<left, tick>>
  <2> SUFFICES ASSUME IInv, IInv', [Next]_vars
               PROVE  [Timed!Next]_<<left, tick>>
    OBVIOUS
  <2>1. left = [c \in Clients |-> at(c)] /\ left' = [c \in Clients |-> at(c)']
    BY <1>1, <1>2
  <2>2. "timer" \in Clients /\ "timer" \notin Task /\ Task \subseteq Clients
        /\ \A c \in Clients : c = "timer" \/ c \in Task
    BY TicklessAssumption DEF Clients
  <2>3. ASSUME Kept
        PROVE  UNCHANGED <<left, tick>>
    <3>1. \A c \in Clients : at(c)' = at(c)
      BY <2>2, <2>3 DEF Kept
    <3> QED BY <2>1, <2>3, <3>1 DEF Kept
  <2>4. ASSUME NEW t \in Task, NEW n, Set(t, n)
        PROVE  left' = [left EXCEPT ![t] = n] /\ tick' = tick
    <3>1. \A c \in Clients : at(c)' = IF c = t THEN n ELSE at(c)
      BY <2>2, <2>4 DEF Set
    <3> QED BY ZenonT(60), <2>1, <2>4, <3>1 DEF Set
  <2>5. ASSUME Counted
        PROVE  Timed!Tick
    <3>1. PICK again : again = [c \in {c \in Clients : left[c] = 1} |-> at(c)']
      OBVIOUS
    <3>2. ASSUME NEW c \in Clients
          PROVE  /\ left[c] = 1 => at(c)' \in Intervals \cup {0}
                 /\ left[c] # 1 => at(c)' = IF left[c] = 0 THEN 0 ELSE left[c] - 1
      <4>1. left[c] = at(c)
        BY <2>1
      <4>2. CASE c = "timer"
        BY <2>5, <4>1, <4>2 DEF Counted
      <4>3. CASE c # "timer"
        <5>1. c \in Task
          BY <2>2, <4>3
        <5> QED BY <2>5, <4>1, <4>3, <5>1 DEF Counted
      <4> QED BY <4>2, <4>3
    <3>3. again \in [{c \in Clients : left[c] = 1} -> (Timeouts \cup Intervals) \cup {0}]
      BY <3>1, <3>2
    <3>4. \A c \in Clients : at(c)' =
            IF left[c] = 1 THEN again[c] ELSE IF left[c] = 0 THEN 0 ELSE left[c] - 1
      BY <3>1, <3>2
    <3>5. left' = [c \in Clients |->
            IF left[c] = 1 THEN again[c] ELSE IF left[c] = 0 THEN 0 ELSE left[c] - 1]
      BY <2>1, <3>4
    <3>6. tick' = 1 - tick
      BY <2>5 DEF Counted
    <3> QED BY <3>3, <3>5, <3>6 DEF Timed!Tick
  <2>6. CASE SetTimer
    <3>1. PICK x : x = timer'
      OBVIOUS
    <3>2. /\ tick' = tick /\ x \in Intervals \cup {0} /\ x # timer
          /\ \A t \in Task : LeftIn(wheel', t, isr') = LeftIn(wheel, t, isr)
      BY <2>6, <3>1, SetTimerInv
    <3>3. \A c \in Clients : at(c)' = IF c = "timer" THEN x ELSE at(c)
      BY <2>2, <3>1, <3>2
    <3>4. left' = [left EXCEPT !["timer"] = x]
      BY ZenonT(60), <2>1, <3>3
    <3>5. CASE x = 0
      <4>1. left["timer"] > 0
        BY <2>1, <2>2, <3>2, <3>5 DEF IInv, NoneLate
      <4> QED BY <2>2, <3>2, <3>4, <3>5, <4>1 DEF Timed!Next, Timed!Disarm
    <3>6. CASE x # 0
      <4>1. x \in Timeouts \cup Intervals
        BY <3>2, <3>6
      <4>2. Timed!Arm("timer", x)
        BY <3>2, <3>4 DEF Timed!Arm
      <4> QED BY <2>2, <4>1, <4>2 DEF Timed!Next
    <3> QED BY <3>5, <3>6
  <2>7. ASSUME NEW t \in Task, NEW n \in Timeouts, Set(t, n)
        PROVE  Timed!Next
    <3>1. Timed!Arm(t, n)
      BY <2>4, <2>7 DEF Timed!Arm
    <3> QED BY <2>2, <3>1 DEF Timed!Next
  <2>8. ASSUME NEW t \in Task, Set(t, 0)
        PROVE  Timed!Next \/ UNCHANGED <<left, tick>>
    <3>1. left' = [left EXCEPT ![t] = 0] /\ tick' = tick
      BY <2>4, <2>8
    <3>2. left[t] \in Nat
      <4>1. left[t] = at(t) /\ at(t) = LeftIn(wheel, t, isr)
        BY <2>1, <2>2
      <4> QED BY <4>1, LeftInNat DEF IInv, Waits
    <3>3. CASE left[t] > 0
      BY <2>2, <3>1, <3>3 DEF Timed!Next, Timed!Disarm
    <3>4. CASE left[t] = 0
      <4>1. left' = left
        BY <2>1, <3>1, <3>4
      <4> QED BY <3>1, <4>1
    <3> QED BY <3>2, <3>3, <3>4
  <2> HIDE DEF left, at
  <2>9. CASE Cycle \/ osTicklessHandler
    BY <2>3, <2>9, CycleInv, HandlerInv
  <2>10. CASE IsrStep
    <3>1. Kept \/ Counted \/ \E t \in Task : Set(t, 0)
      BY <2>10, LoopInv, UpdateDoneInv, TickHandlerInv, ScanInv, ScanEndInv, OtherHandlerInv
         DEF IsrStep
    <3> QED BY <2>3, <2>5, <2>8, <3>1 DEF Timed!Next
  <2>11. ASSUME NEW t \in Task, TaskWait(t)
         PROVE  Timed!Next \/ UNCHANGED <<left, tick>>
    BY <2>3, <2>7, <2>11, TaskWaitInv
  <2>12. ASSUME NEW irq \in {"tick", "other"}, osInterrupt(irq)
         PROVE  UNCHANGED <<left, tick>>
    BY <2>3, <2>12, InterruptAwakeInv, InterruptAsleepInv
  <2>13. CASE UNCHANGED vars
    <3>1. Kept
      BY <2>13 DEF vars, Kept
    <3> QED BY <2>3, <3>1
  <2> QED BY <2>6, <2>9, <2>10, <2>11, <2>12, <2>13 DEF Next
<1> QED BY <1>3, <1>4, Invariance, PTL DEF Spec, ImplementsCountdown, Timed!Spec
=============================================================================
