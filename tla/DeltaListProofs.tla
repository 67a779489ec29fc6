-------------------------- MODULE DeltaListProofs --------------------------
(***************************************************************************)
(* What the lists of timeouts stand for: each timer has what is left of    *)
(* the time it was inserted with, whatever comes and goes before and       *)
(* behind it.  The lemmas hold for timers of any kind T, so that those of  *)
(* los_swtmr.c and the tasks of los_task.c use the same ones.  What is     *)
(* defined by recursion on numbers is reasoned about with sets of numbers. *)
(***************************************************************************)
EXTENDS DeltaList, SequenceTheorems, FiniteSetTheorems, WellFoundedInduction, TLAPS

-----------------------------------------------------------------------------
(* Numbers *)

\* A set of numbers that has 0 and with each number the next has them all.
LEMMA AllNumbers ==
  ASSUME NEW S \in SUBSET Nat, 0 \in S, \A n \in S : n + 1 \in S
  PROVE  S = Nat
<1> DEFINE R == OpToRel(<, Nat)
           Others == Nat \ S
<1>1. IsWellFoundedOn(R, Nat)
  BY NatLessThanWellFounded
<1>2. \A p, q \in Nat : <<q, p>> \in R <=> q < p
  BY DEF OpToRel
<1> HIDE DEF R
<1> SUFFICES ASSUME Others # {} PROVE FALSE
  OBVIOUS
<1>3. Others \subseteq Nat
  OBVIOUS
<1>4. PICK p \in Others : \A q \in Others : <<q, p>> \notin R
  BY <1>1, <1>3, WFMin
<1>5. p \in Nat /\ p # 0 /\ p - 1 \in Nat /\ p - 1 < p
  OBVIOUS
<1>6. p - 1 \notin Others
  BY <1>2, <1>4, <1>5
<1>7. p - 1 \in S
  BY <1>5, <1>6
<1>8. p - 1 + 1 \in S
  BY <1>7
<1> QED BY <1>5, <1>8

\* f is defined on 0 .. m by its value at 0 and a step from each value to the next.
Recursive(f, V, base, next, m) ==
  /\ f \in [0 .. m -> V]
  /\ \A n \in 0 .. m : f[n] = IF n = 0 THEN base ELSE next[<<n, f[n - 1]>>]

\* There is such a function.
LEMMA Recursion ==
  ASSUME NEW V, NEW base \in V, NEW next \in [Nat \X V -> V], NEW m \in Nat
  PROVE  \E f : Recursive(f, V, base, next, m)
<1> DEFINE Solves(f, j) == Recursive(f, V, base, next, j)
           Solved == {j \in Nat : \E f : Solves(f, j)}
<1> USE DEF Recursive
<1>1. 0 \in Solved
  <2> DEFINE f == [n \in 0 .. 0 |-> base]
  <2>1. Solves(f, 0)
    OBVIOUS
  <2> QED BY <2>1
<1>2. ASSUME NEW j \in Solved
      PROVE  j + 1 \in Solved
  <2>1. PICK f : Solves(f, j)
    OBVIOUS
  <2>2. j \in Nat /\ j \in 0 .. j /\ f[j] \in V
    BY <2>1
  <2>3. next[<<j + 1, f[j]>>] \in V
    BY <2>2
  <2> DEFINE g == [n \in 0 .. j + 1 |-> IF n = j + 1 THEN next[<<j + 1, f[j]>>] ELSE f[n]]
  <2>4. \A n \in 0 .. j : n \in 0 .. j + 1 /\ n # j + 1 /\ f[n] \in V
    BY <2>1, <2>2
  <2>5. g \in [0 .. j + 1 -> V]
    <3>1. \A n \in 0 .. j + 1 : n # j + 1 => n \in 0 .. j
      BY <2>2
    <3> QED BY <2>3, <2>4, <3>1
  <2>6. (\A n \in 0 .. j : g[n] = f[n]) /\ g[j + 1] = next[<<j + 1, f[j]>>]
    BY <2>2, <2>4
  <2> HIDE DEF g
  <2>7. ASSUME NEW n \in 0 .. j + 1
        PROVE  g[n] = IF n = 0 THEN base ELSE next[<<n, g[n - 1]>>]
    <3>1. CASE n = j + 1
      <4>1. n # 0 /\ n - 1 = j
        BY <2>2, <3>1
      <4> QED BY <2>2, <2>6, <3>1, <4>1
    <3>2. CASE n # j + 1
      <4>1. n \in 0 .. j /\ (n # 0 => n - 1 \in 0 .. j)
        BY <2>2, <3>2
      <4> QED BY <2>1, <2>6, <4>1
    <3> QED BY <3>1, <3>2
  <2>8. Solves(g, j + 1)
    BY <2>5, <2>7
  <2> QED BY <2>2, <2>8
<1>3. Solved = Nat
  <2>1. Solved \in SUBSET Nat
    OBVIOUS
  <2> HIDE DEF Solved
  <2> QED BY <1>1, <1>2, <2>1, AllNumbers
<1>4. m \in Solved
  BY <1>3
<1>5. PICK f : Solves(f, m)
  BY <1>4
<1> QED BY <1>5

\* A product grows with its first factor.
LEMMA ProductGrows ==
  ASSUME NEW a \in Nat, NEW b \in Nat, NEW l \in Nat, a < b
  PROVE  a * l + l <= b * l /\ a * l \in Nat
<1>1. PICK d \in Nat : b = a + 1 + d
  <2>1. b - a - 1 \in Nat /\ b = a + 1 + (b - a - 1)
    OBVIOUS
  <2> QED BY <2>1
<1>2. b * l = a * l + l + d * l
  BY <1>1
<1>3. d * l \in Nat /\ a * l \in Nat
  OBVIOUS
<1> QED BY <1>2, <1>3

-----------------------------------------------------------------------------
(* What a list stands for *)

Entries(T) == [timer : T, count : Nat]

\* Every timer is in the list once at most.
Listed(T, r) ==
  /\ r \in Seq(Entries(T))
  /\ \A m, n \in 1 .. Len(r) : r[m].timer = r[n].timer => m = n

Members(r) == {r[n].timer : n \in 1 .. Len(r)}

\* What timer i has left.
EndOf(r, i) == CountTo(r, Place(r, i))

LEMMA EntryType ==
  ASSUME NEW T, NEW r \in Seq(Entries(T))
  PROVE  /\ Len(r) \in Nat
         /\ \A n \in 1 .. Len(r) : r[n] \in Entries(T) /\ r[n].timer \in T /\ r[n].count \in Nat
<1>1. Len(r) \in Nat /\ \A n \in 1 .. Len(r) : r[n] \in Entries(T)
  OBVIOUS
<1>2. \A e \in Entries(T) : e.timer \in T /\ e.count \in Nat
  BY DEF Entries
<1> QED BY <1>1, <1>2

\* The counts add up from the front.
LEMMA SumFacts ==
  ASSUME NEW T, NEW r \in Seq(Entries(T))
  PROVE  /\ CountTo(r, 0) = 0
         /\ \A n \in 1 .. Len(r) : CountTo(r, n) = CountTo(r, n - 1) + r[n].count
         /\ \A n \in 0 .. Len(r) : CountTo(r, n) \in Nat
<1> DEFINE L == Len(r)
           next == [q \in Nat \X Nat |-> IF q[1] \in 1 .. L THEN q[2] + r[q[1]].count ELSE 0]
           body(g) == [m \in 0 .. L |-> IF m = 0 THEN 0 ELSE g[m - 1] + r[m].count]
<1>1. L \in Nat /\ 0 \in Nat /\ \A n \in 1 .. L : r[n].count \in Nat
  BY EntryType
<1>2. next \in [Nat \X Nat -> Nat]
  BY <1>1
<1>3. \A n \in 1 .. L : \A x \in Nat : next[<<n, x>>] = x + r[n].count
  BY <1>1
<1> HIDE DEF next
<1>4. PICK f : Recursive(f, Nat, 0, next, L)
  <2> HIDE DEF L
  <2> QED BY <1>1, <1>2, Recursion
<1>5. /\ f \in [0 .. L -> Nat]
      /\ \A n \in 0 .. L : f[n] = IF n = 0 THEN 0 ELSE next[<<n, f[n - 1]>>]
  BY <1>4 DEF Recursive
<1>6. f = body(f)
  <2>1. \A n \in 0 .. L : n # 0 => n \in 1 .. L /\ n - 1 \in 0 .. L /\ f[n - 1] \in Nat
    BY <1>1, <1>5
  <2>2. \A n \in 0 .. L : f[n] = IF n = 0 THEN 0 ELSE f[n - 1] + r[n].count
    BY <1>3, <1>5, <2>1
  <2> QED BY <1>5, <2>2
<1>7. PICK sum : sum = CHOOSE g : g = body(g)
  OBVIOUS
<1>8. sum = body(sum)
  <2> HIDE DEF body
  <2> QED BY <1>6, <1>7
<1>9. \A n : CountTo(r, n) = sum[n]
  BY <1>7 DEF CountTo
<1>10. \A n \in 0 .. L : sum[n] = IF n = 0 THEN 0 ELSE sum[n - 1] + r[n].count
  BY <1>8
<1>11. \A n \in 1 .. L : CountTo(r, n) = CountTo(r, n - 1) + r[n].count
  BY <1>9, <1>10
<1>12. CountTo(r, 0) = 0
  BY <1>1, <1>9, <1>10
<1> DEFINE Fine == {n \in Nat : n <= L => CountTo(r, n) \in Nat}
<1>13. 0 \in Fine
  BY <1>12
<1>14. ASSUME NEW n \in Fine
       PROVE  n + 1 \in Fine
  <2>1. n \in Nat /\ (n + 1 <= L => n + 1 \in 1 .. L /\ n + 1 - 1 = n)
    BY <1>1
  <2> QED BY SMTT(60), <1>1, <1>11, <2>1
<1>15. Fine = Nat
  <2>1. Fine \in SUBSET Nat
    OBVIOUS
  <2> HIDE DEF Fine
  <2> QED BY <1>13, <1>14, <2>1, AllNumbers
<1>16. \A n \in 0 .. L : CountTo(r, n) \in Nat
  <2>1. \A n \in 0 .. L : n \in Fine /\ n <= L
    BY <1>1, <1>15
  <2> QED BY <2>1
<1> QED BY <1>11, <1>12, <1>16

\* What adds up from the front in the same way is the same.
LEMMA SumIs ==
  ASSUME NEW T, NEW r \in Seq(Entries(T)), NEW g,
         g[0] = 0, \A n \in 1 .. Len(r) : g[n] = g[n - 1] + r[n].count
  PROVE  \A n \in 0 .. Len(r) : CountTo(r, n) = g[n]
<1> DEFINE Fine == {n \in Nat : n <= Len(r) => CountTo(r, n) = g[n]}
<1>1. Len(r) \in Nat
  BY EntryType
<1>2. 0 \in Fine
  BY SumFacts
<1>3. ASSUME NEW n \in Fine
      PROVE  n + 1 \in Fine
  <2>1. n \in Nat /\ (n + 1 <= Len(r) => n + 1 \in 1 .. Len(r) /\ n + 1 - 1 = n)
    BY <1>1
  <2> QED BY <1>1, <2>1, SumFacts
<1>4. Fine = Nat
  <2>1. Fine \in SUBSET Nat
    OBVIOUS
  <2> HIDE DEF Fine
  <2> QED BY <1>2, <1>3, <2>1, AllNumbers
<1>5. \A n \in 0 .. Len(r) : n \in Fine /\ n <= Len(r)
  BY <1>1, <1>4
<1> QED BY <1>5

LEMMA SumGrows ==
  ASSUME NEW T, NEW r \in Seq(Entries(T)), NEW m \in 0 .. Len(r), NEW n \in 0 .. Len(r), m <= n
  PROVE  CountTo(r, m) <= CountTo(r, n)
<1> DEFINE Fine == {d \in Nat : m + d <= Len(r) => CountTo(r, m) <= CountTo(r, m + d)}
<1>1. Len(r) \in Nat /\ m \in Nat
  BY EntryType
<1>2. 0 \in Fine
  BY <1>1, SumFacts
<1>3. ASSUME NEW d \in Fine
      PROVE  d + 1 \in Fine
  <2> SUFFICES ASSUME m + (d + 1) <= Len(r) PROVE CountTo(r, m) <= CountTo(r, m + (d + 1))
    OBVIOUS
  <2>1. d \in Nat /\ m + (d + 1) \in 1 .. Len(r) /\ m + (d + 1) - 1 = m + d /\ m + d <= Len(r)
    BY <1>1
  <2>2. CountTo(r, m + (d + 1)) = CountTo(r, m + d) + r[m + (d + 1)].count
    BY <2>1, SumFacts
  <2>3. /\ r[m + (d + 1)].count \in Nat /\ CountTo(r, m) \in Nat /\ CountTo(r, m + d) \in Nat
        /\ CountTo(r, m) <= CountTo(r, m + d)
    BY <1>1, <2>1, EntryType, SumFacts
  <2> QED BY <2>2, <2>3
<1>4. Fine = Nat
  <2>1. Fine \in SUBSET Nat
    OBVIOUS
  <2> HIDE DEF Fine
  <2> QED BY <1>2, <1>3, <2>1, AllNumbers
<1>5. n - m \in Nat /\ m + (n - m) = n /\ n <= Len(r)
  BY <1>1
<1>6. n - m \in Fine
  BY <1>4, <1>5
<1> QED BY <1>5, <1>6

\* A timer is found where it is, and nowhere if it does not run.
LEMMA PlaceFacts ==
  ASSUME NEW T, NEW r, Listed(T, r)
  PROVE  /\ \A n \in 1 .. Len(r) : Place(r, r[n].timer) = n
         /\ \A i : i \notin Members(r) => Place(r, i) = 0
<1>1. ASSUME NEW n \in 1 .. Len(r)
      PROVE  Place(r, r[n].timer) = n
  <2>1. {m \in 1 .. Len(r) : r[m].timer = r[n].timer} = {n}
    BY DEF Listed
  <2>2. Min({n}) = n
    <3>1. n \in Int
      BY EntryType DEF Listed
    <3> QED BY <3>1 DEF Min
  <2> QED BY <2>1, <2>2 DEF Place, SelectInSeq
<1>2. ASSUME NEW i, i \notin Members(r)
      PROVE  Place(r, i) = 0
  <2>1. {m \in 1 .. Len(r) : r[m].timer = i} = {}
    BY <1>2 DEF Members
  <2> QED BY <2>1 DEF Place, SelectInSeq
<1> QED BY <1>1, <1>2

\* RemoveAt drops one element and keeps the others in order.
LEMMA RemoveAtFacts ==
  ASSUME NEW S, NEW s \in Seq(S), NEW i \in 1 .. Len(s)
  PROVE  /\ RemoveAt(s, i) \in Seq(S)
         /\ Len(RemoveAt(s, i)) = Len(s) - 1
         /\ \A j \in 1 .. Len(s) - 1 :
              RemoveAt(s, i)[j] = IF j < i THEN s[j] ELSE s[j + 1]
<1> DEFINE a == SubSeq(s, 1, i - 1)
           b == SubSeq(s, i + 1, Len(s))
<1>1. Len(s) \in Nat
  BY LenProperties
<1>2. /\ a \in Seq(S) /\ Len(a) = i - 1
      /\ \A j \in 1 .. i - 1 : a[j] = s[j]
  <2>1. \A j \in 1 .. i - 1 : s[j] \in S
    BY <1>1, ElementOfSeq
  <2> QED BY <1>1, <2>1, SubSeqProperties
<1>3. /\ b \in Seq(S) /\ Len(b) = Len(s) - i
      /\ \A j \in 1 .. Len(s) - i : b[j] = s[i + j]
  <2>1. \A j \in i + 1 .. Len(s) : s[j] \in S
    BY <1>1, ElementOfSeq
  <2> QED BY <1>1, <2>1, SubSeqProperties
<1> HIDE DEF a, b
<1>4. /\ a \o b \in Seq(S) /\ Len(a \o b) = Len(a) + Len(b)
      /\ \A j \in 1 .. Len(a) + Len(b) :
           (a \o b)[j] = IF j <= Len(a) THEN a[j] ELSE b[j - Len(a)]
  BY <1>2, <1>3, ConcatProperties
<1>5. RemoveAt(s, i) = a \o b
  BY DEF RemoveAt, a, b
<1>6. ASSUME NEW j \in 1 .. Len(s) - 1
      PROVE  (a \o b)[j] = IF j < i THEN s[j] ELSE s[j + 1]
  <2>1. CASE j < i
    BY <1>1, <1>2, <1>3, <1>4, <2>1
  <2>2. CASE ~(j < i)
    <3> DEFINE m == j - Len(a)
    <3>1. /\ m \in 1 .. Len(s) - i /\ i + m = j + 1
          /\ j \in 1 .. Len(a) + Len(b) /\ ~(j <= Len(a))
      BY <1>1, <1>2, <1>3, <2>2
    <3>2. (a \o b)[j] = b[m]
      BY <1>4, <3>1
    <3> HIDE DEF m
    <3>3. b[m] = s[j + 1]
      BY <1>3, <3>1
    <3> QED BY <2>2, <3>2, <3>3
  <2> QED BY <2>1, <2>2
<1>7. Len(a \o b) = Len(s) - 1
  BY <1>1, <1>2, <1>3, <1>4
<1> QED BY <1>4, <1>5, <1>6, <1>7

\* InsertAt puts one element in and keeps the others in order.
LEMMA InsertAtFacts ==
  ASSUME NEW S, NEW s \in Seq(S), NEW i \in 1 .. Len(s) + 1, NEW e \in S
  PROVE  /\ InsertAt(s, i, e) \in Seq(S)
         /\ Len(InsertAt(s, i, e)) = Len(s) + 1
         /\ \A j \in 1 .. Len(s) + 1 :
              InsertAt(s, i, e)[j] = IF j < i THEN s[j] ELSE IF j = i THEN e ELSE s[j - 1]
<1> DEFINE a == SubSeq(s, 1, i - 1)
           b == SubSeq(s, i, Len(s))
           c == a \o <<e>>
<1>1. Len(s) \in Nat
  BY LenProperties
<1>2. /\ a \in Seq(S) /\ Len(a) = i - 1
      /\ \A j \in 1 .. i - 1 : a[j] = s[j]
  <2>1. \A j \in 1 .. i - 1 : s[j] \in S
    BY <1>1, ElementOfSeq
  <2> QED BY <1>1, <2>1, SubSeqProperties
<1>3. /\ b \in Seq(S) /\ Len(b) = Len(s) - i + 1
      /\ \A j \in 1 .. Len(s) - i + 1 : b[j] = s[i + j - 1]
  <2>1. \A j \in i .. Len(s) : s[j] \in S
    BY <1>1, ElementOfSeq
  <2> QED BY <1>1, <2>1, SubSeqProperties
<1> HIDE DEF a, b
<1>4. /\ c \in Seq(S) /\ Len(c) = i
      /\ \A j \in 1 .. i : c[j] = IF j < i THEN s[j] ELSE e
  <2>1. <<e>> \in Seq(S) /\ Len(<<e>>) = 1 /\ <<e>>[1] = e
    OBVIOUS
  <2>2. /\ c \in Seq(S) /\ Len(c) = Len(a) + 1
        /\ \A j \in 1 .. Len(a) + 1 : c[j] = IF j <= Len(a) THEN a[j] ELSE <<e>>[j - Len(a)]
    BY <1>2, <2>1, ConcatProperties
  <2>3. ASSUME NEW j \in 1 .. i
        PROVE  c[j] = IF j < i THEN s[j] ELSE e
    <3>1. CASE j < i
      BY <1>2, <2>2, <3>1
    <3>2. CASE j = i
      <4>1. j \in 1 .. Len(a) + 1 /\ ~(j <= Len(a)) /\ j - Len(a) = 1
        BY <1>1, <1>2, <3>2
      <4>2. ~(j < i)
        BY <1>1, <3>2
      <4> QED BY <2>1, <2>2, <4>1, <4>2
    <3>3. i \in Nat /\ j \in Nat /\ (j < i \/ j = i)
      BY <1>1
    <3> QED BY <3>1, <3>2, <3>3
  <2> QED BY SMTT(60), <1>1, <1>2, <2>2, <2>3
<1> HIDE DEF c
<1>5. /\ c \o b \in Seq(S) /\ Len(c \o b) = Len(c) + Len(b)
      /\ \A j \in 1 .. Len(c) + Len(b) :
           (c \o b)[j] = IF j <= Len(c) THEN c[j] ELSE b[j - Len(c)]
  BY <1>3, <1>4, ConcatProperties
<1>6. InsertAt(s, i, e) = c \o b
  BY DEF InsertAt, a, b, c
<1>7. ASSUME NEW j \in 1 .. Len(s) + 1
      PROVE  (c \o b)[j] = IF j < i THEN s[j] ELSE IF j = i THEN e ELSE s[j - 1]
  <2>1. CASE j <= i
    BY <1>1, <1>3, <1>4, <1>5, <2>1
  <2>2. CASE ~(j <= i)
    <3> DEFINE m == j - i
    <3>1. /\ m \in 1 .. Len(s) - i + 1 /\ i + m - 1 = j - 1
          /\ j \in 1 .. Len(c) + Len(b) /\ ~(j <= Len(c))
      BY <1>1, <1>3, <1>4, <2>2
    <3>2. (c \o b)[j] = b[m]
      BY <1>4, <1>5, <3>1
    <3> HIDE DEF m
    <3>3. b[m] = s[j - 1]
      BY <1>3, <3>1
    <3> QED BY <1>1, <2>2, <3>2, <3>3
  <2> QED BY <1>1, <2>1, <2>2
<1>8. Len(c \o b) = Len(s) + 1
  BY <1>1, <1>3, <1>4, <1>5
<1> QED BY <1>5, <1>6, <1>7, <1>8

\* A set of numbers up to l that is not empty has a largest one.
LEMMA Largest ==
  ASSUME NEW l \in Nat, NEW S \in SUBSET (0 .. l), S # {}
  PROVE  \E a \in S : Max(S) = a /\ \A n \in S : n <= a
<1> DEFINE Bounded == {m \in Nat : \A n \in S : n <= m}
           Short == {m \in Nat : m \notin Bounded}
<1>1. \E a \in S : \A n \in S : n <= a
  <2> SUFFICES ASSUME \A a \in S : \E n \in S : ~(n <= a) PROVE FALSE
    OBVIOUS
  <2>1. 0 \in Short
    <3>1. PICK n \in S : TRUE
      OBVIOUS
    <3>2. PICK m \in S : ~(m <= n)
      OBVIOUS
    <3> QED BY <3>2
  <2>2. ASSUME NEW m \in Short
        PROVE  m + 1 \in Short
    <3>1. PICK n \in S : ~(n <= m)
      OBVIOUS
    <3>2. PICK p \in S : ~(p <= n)
      OBVIOUS
    <3>3. m \in Nat /\ n \in Nat /\ p \in Nat /\ ~(p <= m + 1)
      BY <3>1, <3>2
    <3> QED BY <3>3
  <2>3. Short = Nat
    <3>1. Short \in SUBSET Nat
      OBVIOUS
    <3> HIDE DEF Short
    <3> QED BY <2>1, <2>2, <3>1, AllNumbers
  <2>4. l \in Bounded
    OBVIOUS
  <2> QED BY <2>3, <2>4
<1>2. PICK a \in S : \A n \in S : n <= a
  BY <1>1
<1>3. \A x \in S : (\A n \in S : x >= n) => x = a
  BY <1>2
<1>4. \A n \in S : a >= n
  BY <1>2
<1>5. Max(S) = a
  BY <1>3, <1>4 DEF Max
<1> QED BY <1>2, <1>5

-----------------------------------------------------------------------------
(* What the routines do to the list *)

LEMMA EndFacts ==
  ASSUME NEW T, NEW r, Listed(T, r)
  PROVE  /\ \A n \in 1 .. Len(r) : EndOf(r, r[n].timer) = CountTo(r, n)
         /\ \A i : i \notin Members(r) => EndOf(r, i) = 0
         /\ \A i \in Members(r) : EndOf(r, i) \in Nat
<1>1. r \in Seq(Entries(T))
  BY DEF Listed
<1>2. \A n \in 1 .. Len(r) : n \in 0 .. Len(r)
  BY <1>1, EntryType
<1>3. \A n \in 1 .. Len(r) : EndOf(r, r[n].timer) = CountTo(r, n)
  BY PlaceFacts DEF EndOf
<1>4. \A i : i \notin Members(r) => EndOf(r, i) = 0
  BY <1>1, PlaceFacts, SumFacts DEF EndOf
<1>5. \A i \in Members(r) : EndOf(r, i) \in Nat
  BY <1>1, <1>2, <1>3, SumFacts DEF Members
<1> QED BY <1>3, <1>4, <1>5

\* Insert gives the timer the time it was started with and leaves the others theirs.
LEMMA InsertFacts ==
  ASSUME NEW T, NEW r, Listed(T, r), NEW i \in T, i \notin Members(r), NEW x \in Nat,
         NEW u, u = Insert(r, i, x)
  PROVE  /\ Listed(T, u) /\ Members(u) = Members(r) \cup {i} /\ EndOf(u, i) = x
         /\ \A j \in Members(r) : EndOf(u, j) = EndOf(r, j)
<1>1. /\ r \in Seq(Entries(T)) /\ Len(r) \in Nat
      /\ \A n \in 0 .. Len(r) : CountTo(r, n) \in Nat
      /\ CountTo(r, 0) = 0
      /\ \A n \in 1 .. Len(r) : r[n].count \in Nat /\ r[n].timer \in T
  BY EntryType, SumFacts DEF Listed
<1> DEFINE S == {n \in 0 .. Len(r) : CountTo(r, n) <= x}
<1>2. PICK a \in S : Max(S) = a /\ \A n \in S : n <= a
  <2>1. 0 \in S /\ S \in SUBSET (0 .. Len(r))
    BY <1>1
  <2> HIDE DEF S
  <2> QED BY <1>1, <2>1, Largest
<1>3. a \in 0 .. Len(r) /\ a \in Nat /\ CountTo(r, a) \in Nat /\ CountTo(r, a) <= x
  BY <1>1, <1>2
<1>4. PICK d \in Nat : d = x - CountTo(r, a)
  BY <1>3
<1>5. ASSUME a < Len(r)
      PROVE  r[a + 1].count - d \in Nat
  <2>1. a + 1 \in 1 .. Len(r) /\ a + 1 \in 0 .. Len(r) /\ ~(a + 1 <= a) /\ a + 1 - 1 = a
    BY <1>1, <1>3, <1>5
  <2>2. ~(CountTo(r, a + 1) <= x)
    BY <1>2, <2>1
  <2>3. CountTo(r, a + 1) = CountTo(r, a) + r[a + 1].count /\ CountTo(r, a + 1) \in Nat
    BY <1>1, <2>1, SumFacts
  <2> QED BY <1>1, <1>3, <1>4, <2>1, <2>2, <2>3
<1>6. PICK later : later = IF a = Len(r) THEN r ELSE [r EXCEPT ![a + 1].count = @ - d]
  OBVIOUS
<1>7. PICK e : e = [timer |-> i, count |-> d]
  OBVIOUS
<1>8. e \in Entries(T) /\ e.timer = i /\ e.count = d
  BY <1>7 DEF Entries
<1>9. u = InsertAt(later, a + 1, e)
  BY <1>2, <1>4, <1>6, <1>7 DEF Insert
<1>10. /\ later \in Seq(Entries(T)) /\ Len(later) = Len(r)
       /\ \A n \in 1 .. Len(r) : /\ later[n].timer = r[n].timer
                                /\ later[n].count = IF n = a + 1 THEN r[n].count - d ELSE r[n].count
  <2>1. CASE a = Len(r)
    BY <1>1, <1>6, <2>1
  <2>2. CASE a # Len(r)
    <3>1. a < Len(r) /\ a + 1 \in 1 .. Len(r)
      BY <1>1, <1>3, <2>2
    <3>2. PICK c : c = r[a + 1].count - d
      OBVIOUS
    <3>3. c \in Nat /\ r[a + 1] \in Entries(T)
      BY <1>1, <1>5, <3>1, <3>2
    <3>4. PICK f : f = [r[a + 1] EXCEPT !.count = c]
      OBVIOUS
    <3>5. f \in Entries(T) /\ f.timer = r[a + 1].timer /\ f.count = c
      BY <3>3, <3>4 DEF Entries
    <3>6. later = [r EXCEPT ![a + 1] = f]
      BY <1>6, <2>2, <3>2, <3>4
    <3> QED BY SMTT(60), <1>1, <3>1, <3>2, <3>5, <3>6
  <2> QED BY <2>1, <2>2
<1>11. /\ u \in Seq(Entries(T)) /\ Len(u) = Len(r) + 1
       /\ \A n \in 1 .. Len(r) + 1 :
            u[n] = IF n < a + 1 THEN later[n] ELSE IF n = a + 1 THEN e ELSE later[n - 1]
  <2>1. a + 1 \in 1 .. Len(later) + 1
    BY <1>1, <1>3, <1>10
  <2> QED BY <1>8, <1>9, <1>10, <2>1, InsertAtFacts
\* Where the n-th timer of u was in r.
<1> DEFINE was(n) == IF n <= a THEN n ELSE n - 1
<1>12. \A n \in 1 .. Len(u) : n # a + 1 =>
         /\ was(n) \in 1 .. Len(r) /\ u[n].timer = r[was(n)].timer
         /\ n < a + 1 => u[n].count = r[n].count
         /\ n = a + 2 => u[n].count = r[a + 1].count - d
         /\ n > a + 2 => u[n].count = r[n - 1].count
  <2> SUFFICES ASSUME NEW n \in 1 .. Len(u), n # a + 1
               PROVE  /\ was(n) \in 1 .. Len(r) /\ u[n].timer = r[was(n)].timer
                      /\ n < a + 1 => u[n].count = r[n].count
                      /\ n = a + 2 => u[n].count = r[a + 1].count - d
                      /\ n > a + 2 => u[n].count = r[n - 1].count
    OBVIOUS
  <2>1. n \in Nat /\ n \in 1 .. Len(r) + 1
    BY <1>1, <1>11
  <2>2. was(n) \in 1 .. Len(r) /\ u[n] = later[was(n)]
    <3>1. CASE n < a + 1
      BY <1>1, <1>3, <1>11, <2>1, <3>1
    <3>2. CASE n > a + 1
      BY <1>1, <1>3, <1>11, <2>1, <3>2
    <3> QED BY <1>3, <2>1, <3>1, <3>2
  <2>3. PICK w : w = was(n)
    OBVIOUS
  <2>4. w \in 1 .. Len(r) /\ u[n] = later[w] /\ (n < a + 1 => w = n) /\ (n > a + 1 => w = n - 1)
    BY <1>3, <2>1, <2>2, <2>3
  <2>5. /\ u[n].timer = r[w].timer
        /\ u[n].count = IF w = a + 1 THEN r[w].count - d ELSE r[w].count
    BY <1>10, <2>4
  <2>6. n < a + 1 => u[n].count = r[n].count
    BY <1>3, <2>1, <2>4, <2>5
  <2>7. n = a + 2 => u[n].count = r[a + 1].count - d
    BY <1>3, <2>1, <2>4, <2>5
  <2>8. n > a + 2 => u[n].count = r[n - 1].count
    BY <1>3, <2>1, <2>4, <2>5
  <2> QED BY <2>3, <2>4, <2>5, <2>6, <2>7, <2>8
<1>13. u[a + 1] = e /\ a + 1 \in 1 .. Len(u)
  BY <1>1, <1>3, <1>11
<1>14. \A n \in 1 .. Len(r) : \E m \in 1 .. Len(u) : m # a + 1 /\ was(m) = n
  <2> TAKE n \in 1 .. Len(r)
  <2>1. CASE n <= a
    <3>1. n \in 1 .. Len(u) /\ n # a + 1 /\ was(n) = n
      BY <1>1, <1>3, <1>11, <2>1
    <3> QED BY <3>1
  <2>2. CASE ~(n <= a)
    <3>1. n + 1 \in 1 .. Len(u) /\ n + 1 # a + 1 /\ was(n + 1) = n
      BY <1>1, <1>3, <1>11, <2>2
    <3> QED BY <3>1
  <2> QED BY <2>1, <2>2
<1>15. Members(u) = Members(r) \cup {i}
  <2> HIDE DEF was
  <2>1. ASSUME NEW n \in 1 .. Len(u) PROVE u[n].timer \in Members(r) \cup {i}
    <3>1. CASE n = a + 1
      BY ONLY <1>8, <1>13, <3>1
    <3>2. CASE n # a + 1
      BY ONLY <1>12, <3>2, n \in 1 .. Len(u) DEF Members
    <3> QED BY ONLY <3>1, <3>2
  <2>2. ASSUME NEW n \in 1 .. Len(r) PROVE r[n].timer \in Members(u)
    <3>1. PICK m \in 1 .. Len(u) : m # a + 1 /\ was(m) = n
      BY ONLY <1>14, n \in 1 .. Len(r)
    <3>2. u[m].timer = r[n].timer
      BY ONLY <1>12, <3>1
    <3> QED BY ONLY <3>2, m \in 1 .. Len(u) DEF Members
  <2>3. i \in Members(u)
    BY <1>8, <1>13 DEF Members
  <2> QED BY ZenonT(60), <2>1, <2>2, <2>3 DEF Members
<1>16. Listed(T, u)
  <2>1. ASSUME NEW m \in 1 .. Len(u), NEW n \in 1 .. Len(u), u[m].timer = u[n].timer
        PROVE  m = n
    <3>1. CASE m = a + 1 \/ n = a + 1
      <4>1. ASSUME NEW p \in 1 .. Len(u), p # a + 1
            PROVE  u[p].timer # i
        <5>1. PICK q \in 1 .. Len(r) : u[p].timer = r[q].timer
          BY ONLY <1>12, <4>1, p \in 1 .. Len(u)
        <5>2. r[q].timer \in Members(r)
          BY ONLY q \in 1 .. Len(r) DEF Members
        <5> QED BY <5>1, <5>2
      <4> QED BY <1>8, <1>13, <2>1, <3>1, <4>1
    <3>2. CASE m # a + 1 /\ n # a + 1
      <4>1. r[was(m)].timer = r[was(n)].timer /\ was(m) \in 1 .. Len(r) /\ was(n) \in 1 .. Len(r)
        BY <1>12, <2>1, <3>2
      <4>2. was(m) = was(n)
        BY <4>1 DEF Listed
      <4> QED BY <1>3, <3>2, <4>2
    <3> QED BY <3>1, <3>2
  <2> QED BY <1>11, <2>1 DEF Listed
<1>17. \A n \in 0 .. Len(u) :
         CountTo(u, n) = IF n <= a THEN CountTo(r, n) ELSE IF n = a + 1 THEN x ELSE CountTo(r, n - 1)
  <2> DEFINE g == [n \in 0 .. Len(u) |->
        IF n <= a THEN CountTo(r, n) ELSE IF n = a + 1 THEN x ELSE CountTo(r, n - 1)]
  <2>1. 0 \in 0 .. Len(u) /\ g[0] = 0
    BY <1>1, <1>3, <1>11
  <2>2. ASSUME NEW n \in 1 .. Len(u)
        PROVE  g[n] = g[n - 1] + u[n].count
    <3>1. n \in Nat /\ n \in 0 .. Len(u) /\ n - 1 \in 0 .. Len(u)
      BY <1>1, <1>11
    <3>2. CASE n <= a
      <4>1. n \in 1 .. Len(r) /\ n - 1 <= a /\ n # a + 1 /\ n < a + 1
        BY <1>1, <1>3, <3>1, <3>2
      <4>2. g[n] = CountTo(r, n) /\ g[n - 1] = CountTo(r, n - 1)
        BY <3>1, <3>2, <4>1
      <4>3. CountTo(r, n) = CountTo(r, n - 1) + r[n].count
        BY <1>1, <4>1, SumFacts
      <4> HIDE DEF g
      <4> QED BY <1>12, <4>1, <4>2, <4>3
    <3>3. CASE n = a + 1
      <4>1. n - 1 = a /\ n - 1 <= a /\ ~(n <= a)
        BY <1>3, <3>3
      <4>2. g[n] = x /\ g[n - 1] = CountTo(r, a)
        BY <3>1, <3>3, <4>1
      <4> HIDE DEF g
      <4> QED BY <1>3, <1>4, <1>8, <1>13, <3>3, <4>2
    <3>4. CASE n = a + 2
      <4>1. n - 1 = a + 1 /\ ~(n <= a) /\ n # a + 1 /\ ~(n - 1 <= a) /\ a + 1 \in 1 .. Len(r)
            /\ a + 1 - 1 = a
        BY <1>1, <1>3, <1>11, <3>1, <3>4
      <4>2. g[n] = CountTo(r, a + 1) /\ g[n - 1] = x
        BY <3>1, <3>4, <4>1
      <4>3. CountTo(r, a + 1) = CountTo(r, a) + r[a + 1].count
        BY <1>1, <4>1, SumFacts
      <4>4. u[n].count = r[a + 1].count - d /\ r[a + 1].count \in Nat
        BY <1>1, <1>12, <3>4, <4>1
      <4> HIDE DEF g
      <4> QED BY <1>3, <1>4, <4>2, <4>3, <4>4
    <3>5. CASE n > a + 2
      <4>1. /\ ~(n <= a) /\ n # a + 1 /\ ~(n - 1 <= a) /\ n - 1 # a + 1 /\ n - 1 \in 1 .. Len(r)
            /\ n - 1 - 1 = n - 2
        BY SMTT(60), <1>1, <1>3, <1>11, <3>1, <3>5
      <4>2. g[n] = CountTo(r, n - 1) /\ g[n - 1] = CountTo(r, n - 2)
        BY <3>1, <4>1
      <4>3. CountTo(r, n - 1) = CountTo(r, n - 2) + r[n - 1].count
        BY <1>1, <4>1, SumFacts
      <4> HIDE DEF g
      <4> QED BY <1>12, <3>5, <4>1, <4>2, <4>3
    <3> QED BY <1>3, <3>1, <3>2, <3>3, <3>4, <3>5
  <2>3. \A n \in 0 .. Len(u) : CountTo(u, n) = g[n]
    <3> HIDE DEF g
    <3>1. u \in Seq(Entries(T))
      BY <1>11
    <3> QED BY ONLY ZenonT(60), <2>1, <2>2, <3>1, SumIs
  <2> QED BY <2>3
<1>18. EndOf(u, i) = x
  BY <1>3, <1>8, <1>13, <1>16, <1>17, EndFacts
<1>19. ASSUME NEW j \in Members(r)
       PROVE  EndOf(u, j) = EndOf(r, j)
  <2>1. PICK n \in 1 .. Len(r) : r[n].timer = j
    BY DEF Members
  <2>2. PICK m \in 1 .. Len(u) : m # a + 1 /\ was(m) = n
    BY <1>14
  <2>3. u[m].timer = j
    BY <1>12, <2>1, <2>2
  <2>4. CountTo(u, m) = CountTo(r, n)
    <3>1. m \in 0 .. Len(u) /\ m \in Nat
      BY <1>1, <1>11
    <3> QED BY <1>3, <1>17, <2>2, <3>1
  <2> QED BY <1>16, <2>1, <2>3, <2>4, EndFacts
<1> QED BY <1>15, <1>16, <1>18, <1>19

\* u is r without its p-th entry, whose count the next one has taken over.
Dropped(T, u, r, p) ==
  /\ u \in Seq(Entries(T)) /\ Len(u) = Len(r) - 1 /\ p \in 1 .. Len(r)
  /\ \A n \in 1 .. Len(u) :
       /\ u[n].timer = r[IF n < p THEN n ELSE n + 1].timer
       /\ u[n].count = IF n < p THEN r[n].count
                       ELSE IF n = p THEN r[n + 1].count + r[n].count
                       ELSE r[n + 1].count

\* The others keep their time.
LEMMA DropFacts ==
  ASSUME NEW T, NEW r, Listed(T, r), NEW u, NEW p, Dropped(T, u, r, p)
  PROVE  /\ Listed(T, u) /\ Members(u) = Members(r) \ {r[p].timer}
         /\ \A j \in Members(u) : EndOf(u, j) = EndOf(r, j)
<1> USE DEF Dropped
<1>1. /\ r \in Seq(Entries(T)) /\ Len(r) \in Nat /\ Len(u) \in Nat /\ p \in Nat
      /\ \A n \in 0 .. Len(r) : CountTo(r, n) \in Nat
      /\ CountTo(r, 0) = 0
      /\ \A n \in 1 .. Len(r) : r[n].count \in Nat
  BY EntryType, SumFacts DEF Listed
\* Where the n-th timer of u was in r.
<1> DEFINE was(n) == IF n < p THEN n ELSE n + 1
<1>2. \A n \in 1 .. Len(u) : /\ was(n) \in 1 .. Len(r) /\ was(n) # p
                             /\ u[n].timer = r[was(n)].timer
  BY <1>1
<1>3. \A n \in 1 .. Len(r) : n # p => \E m \in 1 .. Len(u) : was(m) = n
  <2> TAKE n \in 1 .. Len(r)
  <2>1. CASE n < p
    <3>1. n \in 1 .. Len(u) /\ was(n) = n
      BY <1>1, <2>1
    <3> QED BY <3>1
  <2>2. CASE n > p
    <3>1. n - 1 \in 1 .. Len(u) /\ was(n - 1) = n
      BY <1>1, <2>2
    <3> QED BY <3>1
  <2> QED BY <1>1, <2>1, <2>2
<1>4. Members(u) = Members(r) \ {r[p].timer}
  <2>1. \A n \in 1 .. Len(u) : u[n].timer \in Members(r) /\ u[n].timer # r[p].timer
    BY ZenonT(60), <1>2 DEF Members, Listed
  <2>2. \A n \in 1 .. Len(r) : r[n].timer # r[p].timer => r[n].timer \in Members(u)
    <3> SUFFICES ASSUME NEW n \in 1 .. Len(r), n # p PROVE r[n].timer \in Members(u)
      OBVIOUS
    <3>1. PICK m \in 1 .. Len(u) : was(m) = n
      BY <1>3
    <3> QED BY <1>2, <3>1 DEF Members
  <2> QED BY ZenonT(60), <2>1, <2>2 DEF Members
<1>5. Listed(T, u)
  <2>1. ASSUME NEW m \in 1 .. Len(u), NEW n \in 1 .. Len(u), u[m].timer = u[n].timer
        PROVE  m = n
    <3>1. was(m) = was(n)
      BY <1>2, <2>1 DEF Listed
    <3> QED BY <1>1, <3>1
  <2> QED BY <2>1 DEF Listed
<1>6. \A n \in 0 .. Len(u) : CountTo(u, n) = IF n < p THEN CountTo(r, n) ELSE CountTo(r, n + 1)
  <2> DEFINE g == [n \in 0 .. Len(u) |-> IF n < p THEN CountTo(r, n) ELSE CountTo(r, n + 1)]
  <2>1. 0 \in 0 .. Len(u) /\ g[0] = 0
    BY <1>1
  <2>2. ASSUME NEW n \in 1 .. Len(u)
        PROVE  g[n] = g[n - 1] + u[n].count
    <3>1. /\ n \in Nat /\ n \in 0 .. Len(u) /\ n - 1 \in 0 .. Len(u) /\ n \in 1 .. Len(r)
          /\ n + 1 \in 1 .. Len(r) /\ n + 1 - 1 = n /\ n - 1 + 1 = n
      BY <1>1
    <3>2. PICK m : m = n + 1
      OBVIOUS
    <3>3. CountTo(r, m) = CountTo(r, m - 1) + r[m].count
      BY ONLY <1>1, <3>1, <3>2, SumFacts
    <3>4. /\ CountTo(r, n) = CountTo(r, n - 1) + r[n].count
          /\ CountTo(r, n + 1) = CountTo(r, n) + r[n + 1].count
      BY ONLY <1>1, <3>1, <3>2, <3>3, SumFacts
    <3>5. CASE n < p
      <4>1. g[n] = CountTo(r, n) /\ g[n - 1] = CountTo(r, n - 1)
        BY <1>1, <3>1, <3>5
      <4> HIDE DEF g
      <4> QED BY <3>4, <3>5, <4>1
    <3>6. CASE n = p
      <4>1. g[n] = CountTo(r, n + 1) /\ g[n - 1] = CountTo(r, n - 1)
        BY <1>1, <3>1, <3>6
      <4>2. u[n].count = r[n + 1].count + r[n].count
        BY <1>1, <3>6
      <4>3. r[n].count \in Nat /\ r[n + 1].count \in Nat /\ CountTo(r, n - 1) \in Nat
        BY <1>1, <3>1
      <4> HIDE DEF g
      <4> QED BY SMTT(60), <3>4, <4>1, <4>2, <4>3
    <3>7. CASE n > p
      <4>1. g[n] = CountTo(r, n + 1) /\ g[n - 1] = CountTo(r, n)
        BY <1>1, <3>1, <3>7
      <4>2. u[n].count = r[n + 1].count
        BY SMTT(60), <1>1, <3>7
      <4> HIDE DEF g
      <4> QED BY <3>4, <4>1, <4>2
    <3> QED BY <1>1, <3>1, <3>5, <3>6, <3>7
  <2>3. \A n \in 0 .. Len(u) : CountTo(u, n) = g[n]
    <3> HIDE DEF g
    <3> QED BY <2>1, <2>2, SumIs
  <2> QED BY <2>3
<1>7. ASSUME NEW j \in Members(u)
      PROVE  EndOf(u, j) = EndOf(r, j)
  <2>1. PICK m \in 1 .. Len(u) : u[m].timer = j
    BY DEF Members
  <2>2. m \in 0 .. Len(u) /\ CountTo(u, m) = CountTo(r, was(m))
    BY <1>1, <1>6
  <2> QED BY <1>2, <1>5, <2>1, <2>2, EndFacts
<1> QED BY <1>4, <1>5, <1>7

\* Delete takes the timer out and leaves the others their time.
LEMMA DeleteFacts ==
  ASSUME NEW T, NEW r, Listed(T, r), NEW i \in Members(r), NEW u, u = Delete(r, i)
  PROVE  /\ Listed(T, u) /\ Members(u) = Members(r) \ {i}
         /\ \A j \in Members(u) : EndOf(u, j) = EndOf(r, j)
<1>1. /\ r \in Seq(Entries(T)) /\ Len(r) \in Nat
      /\ \A n \in 1 .. Len(r) : r[n] \in Entries(T) /\ r[n].count \in Nat
  BY EntryType DEF Listed
<1>2. PICK p \in 1 .. Len(r) : r[p].timer = i /\ p = Place(r, i)
  BY PlaceFacts DEF Members
<1>3. PICK later :
        later = IF p = Len(r) THEN r ELSE [r EXCEPT ![p + 1].count = @ + r[p].count]
  OBVIOUS
<1>4. u = RemoveAt(later, p)
  BY <1>2, <1>3 DEF Delete
<1>5. /\ later \in Seq(Entries(T)) /\ Len(later) = Len(r)
      /\ \A n \in 1 .. Len(r) :
           /\ later[n].timer = r[n].timer
           /\ later[n].count = IF n = p + 1 THEN r[n].count + r[n - 1].count ELSE r[n].count
  <2>1. CASE p = Len(r)
    BY <1>1, <1>3, <2>1
  <2>2. CASE p # Len(r)
    <3>1. p + 1 \in 1 .. Len(r) /\ p + 1 - 1 = p
      BY <1>1, <2>2
    <3>2. PICK c : c = r[p + 1].count + r[p].count
      OBVIOUS
    <3>3. c \in Nat /\ r[p + 1] \in Entries(T)
      BY <1>1, <3>1, <3>2
    <3>4. PICK f : f = [r[p + 1] EXCEPT !.count = c]
      OBVIOUS
    <3>5. f \in Entries(T) /\ f.timer = r[p + 1].timer /\ f.count = c
      BY <3>3, <3>4 DEF Entries
    <3>6. later = [r EXCEPT ![p + 1] = f]
      BY <1>3, <2>2, <3>2, <3>4
    <3> QED BY <1>1, <3>1, <3>2, <3>5, <3>6
  <2> QED BY <2>1, <2>2
<1>6. /\ u \in Seq(Entries(T)) /\ Len(u) = Len(r) - 1
      /\ \A n \in 1 .. Len(r) - 1 : u[n] = IF n < p THEN later[n] ELSE later[n + 1]
  <2>1. p \in 1 .. Len(later)
    BY <1>5
  <2>2. /\ RemoveAt(later, p) \in Seq(Entries(T)) /\ Len(RemoveAt(later, p)) = Len(later) - 1
        /\ \A n \in 1 .. Len(later) - 1 :
             RemoveAt(later, p)[n] = IF n < p THEN later[n] ELSE later[n + 1]
    BY ONLY <1>5, <2>1, RemoveAtFacts
  <2> QED BY ONLY <1>4, <1>5, <2>2
<1>7. \A n \in 1 .. Len(u) :
        /\ u[n].timer = r[IF n < p THEN n ELSE n + 1].timer
        /\ u[n].count = IF n < p THEN r[n].count
                        ELSE IF n = p THEN r[n + 1].count + r[n].count
                        ELSE r[n + 1].count
  <2> TAKE n \in 1 .. Len(u)
  <2>1. n \in Nat /\ n \in 1 .. Len(r) /\ n + 1 \in 1 .. Len(r) /\ n + 1 - 1 = n /\ p \in Nat
    BY <1>1, <1>6
  <2>2. CASE n < p
    BY <1>5, <1>6, <2>1, <2>2
  <2>3. CASE ~(n < p)
    BY <1>5, <1>6, <2>1, <2>3
  <2> QED BY <2>2, <2>3
<1>8. Dropped(T, u, r, p)
  BY <1>6, <1>7 DEF Dropped
<1> QED BY <1>2, <1>8, DropFacts

\* The first entry of the list, and the list without it when its count is 0.
LEMMA PopFacts ==
  ASSUME NEW T, NEW r, Listed(T, r), r # <<>>
  PROVE  /\ Head(r) = r[1] /\ Head(r) \in Entries(T) /\ Head(r).timer \in Members(r)
         /\ EndOf(r, Head(r).timer) = Head(r).count
         /\ \A j \in Members(r) : Head(r).count <= EndOf(r, j)
         /\ Head(r).count = 0 =>
              /\ Listed(T, Tail(r)) /\ Members(Tail(r)) = Members(r) \ {Head(r).timer}
              /\ \A j \in Members(Tail(r)) : EndOf(Tail(r), j) = EndOf(r, j)
<1>1. /\ r \in Seq(Entries(T)) /\ Len(r) \in Nat /\ Len(r) > 0 /\ 1 \in 1 .. Len(r)
      /\ \A n \in 1 .. Len(r) : r[n] \in Entries(T) /\ r[n].count \in Nat
  BY EntryType DEF Listed
<1>2. /\ Head(r) = r[1] /\ Tail(r) \in Seq(Entries(T)) /\ Len(Tail(r)) = Len(r) - 1
      /\ \A n \in 1 .. Len(Tail(r)) : Tail(r)[n] = r[n + 1]
  BY <1>1
<1>3. /\ Head(r) \in Entries(T) /\ Head(r).timer \in Members(r)
      /\ EndOf(r, Head(r).timer) = Head(r).count
  <2>1. CountTo(r, 1) = r[1].count
    <3>1. 1 - 1 = 0 /\ r[1].count \in Nat
      BY <1>1
    <3> QED BY <1>1, <3>1, SumFacts
  <2> QED BY <1>1, <1>2, <2>1, EndFacts DEF Members
<1>4. ASSUME NEW j \in Members(r)
      PROVE  Head(r).count <= EndOf(r, j)
  <2>1. PICK n \in 1 .. Len(r) : r[n].timer = j
    BY DEF Members
  <2>2. n \in 0 .. Len(r) /\ 1 \in 0 .. Len(r) /\ 1 <= n
    BY <1>1
  <2>3. CountTo(r, 1) <= CountTo(r, n)
    BY <1>1, <2>2, SumGrows
  <2>4. EndOf(r, r[1].timer) = CountTo(r, 1) /\ EndOf(r, j) = CountTo(r, n)
    BY <1>1, <2>1, EndFacts
  <2> QED BY <1>2, <1>3, <2>3, <2>4
<1>5. ASSUME Head(r).count = 0
      PROVE  /\ Listed(T, Tail(r)) /\ Members(Tail(r)) = Members(r) \ {Head(r).timer}
             /\ \A j \in Members(Tail(r)) : EndOf(Tail(r), j) = EndOf(r, j)
  <2>1. PICK u : u = Tail(r)
    OBVIOUS
  <2>2. \A n \in 1 .. Len(u) :
        /\ u[n].timer = r[IF n < 1 THEN n ELSE n + 1].timer
        /\ u[n].count = IF n < 1 THEN r[n].count
                        ELSE IF n = 1 THEN r[n + 1].count + r[n].count
                        ELSE r[n + 1].count
    <3> TAKE n \in 1 .. Len(u)
    <3>1. u[n] = r[n + 1] /\ ~(n < 1) /\ r[n + 1].count \in Nat
      BY <1>1, <1>2, <2>1
    <3>2. CASE n = 1
      <4>1. r[n].count = 0
        BY <1>2, <1>5, <3>2
      <4> QED BY <3>1, <3>2, <4>1
    <3>3. CASE n # 1
      BY <3>1, <3>3
    <3> QED BY <3>2, <3>3
  <2>3. Dropped(T, u, r, 1)
    BY <1>1, <1>2, <2>1, <2>2 DEF Dropped
  <2> QED BY <1>2, <2>1, <2>3, DropFacts
<1> QED BY <1>2, <1>3, <1>4, <1>5

\* Counting the first entry down counts down every timer.
LEMMA CountDownFacts ==
  ASSUME NEW T, NEW r, Listed(T, r), r # <<>>, Head(r).count > 0,
         NEW u, u = [r EXCEPT ![1].count = @ - 1]
  PROVE  /\ Listed(T, u) /\ Members(u) = Members(r)
         /\ \A j \in Members(r) : EndOf(u, j) = EndOf(r, j) - 1
<1>1. /\ r \in Seq(Entries(T)) /\ Len(r) \in Nat /\ 1 \in 1 .. Len(r)
      /\ \A n \in 0 .. Len(r) : CountTo(r, n) \in Nat
      /\ CountTo(r, 0) = 0 /\ Head(r) = r[1]
      /\ \A n \in 1 .. Len(r) : r[n] \in Entries(T) /\ r[n].count \in Nat
  BY EntryType, SumFacts DEF Listed
<1>2. PICK c : c = r[1].count - 1
  OBVIOUS
<1>3. c \in Nat
  BY <1>1, <1>2
<1>4. PICK f : f = [r[1] EXCEPT !.count = c]
  OBVIOUS
<1>5. f \in Entries(T) /\ f.timer = r[1].timer /\ f.count = c
  BY <1>1, <1>3, <1>4 DEF Entries
<1>6. u = [r EXCEPT ![1] = f]
  BY <1>2, <1>4
<1>7. /\ u \in Seq(Entries(T)) /\ Len(u) = Len(r)
      /\ \A n \in 1 .. Len(r) : u[n].timer = r[n].timer
      /\ \A n \in 1 .. Len(r) : u[n].count = IF n = 1 THEN c ELSE r[n].count
  <2>1. /\ u \in Seq(Entries(T)) /\ Len(u) = Len(r)
        /\ \A n \in 1 .. Len(r) : u[n] = IF n = 1 THEN f ELSE r[n]
    BY ONLY <1>1, <1>5, <1>6
  <2> QED BY ONLY <1>5, <2>1
<1>8. Listed(T, u) /\ Members(u) = Members(r)
  BY <1>7 DEF Listed, Members
<1>9. \A n \in 0 .. Len(u) : CountTo(u, n) = IF n = 0 THEN 0 ELSE CountTo(r, n) - 1
  <2> DEFINE g == [n \in 0 .. Len(u) |-> IF n = 0 THEN 0 ELSE CountTo(r, n) - 1]
  <2>1. 0 \in 0 .. Len(u) /\ g[0] = 0
    BY <1>1, <1>7
  <2>2. ASSUME NEW n \in 1 .. Len(u)
        PROVE  g[n] = g[n - 1] + u[n].count
    <3>1. /\ n \in Nat /\ n # 0 /\ n \in 0 .. Len(u) /\ n - 1 \in 0 .. Len(u) /\ n \in 1 .. Len(r)
          /\ n - 1 \in 0 .. Len(r)
      BY <1>1, <1>7
    <3>2. /\ CountTo(r, n) = CountTo(r, n - 1) + r[n].count
          /\ CountTo(r, n - 1) \in Nat /\ r[n].count \in Nat
      BY <1>1, <3>1, SumFacts
    <3>3. /\ g[n] = CountTo(r, n) - 1
          /\ g[n - 1] = IF n = 1 THEN 0 ELSE CountTo(r, n - 1) - 1
          /\ u[n].count = IF n = 1 THEN r[n].count - 1 ELSE r[n].count
          /\ n = 1 => CountTo(r, n - 1) = 0
      BY <1>1, <1>2, <1>7, <3>1
    <3> HIDE DEF g
    <3> QED BY <3>2, <3>3
  <2>3. \A n \in 0 .. Len(u) : CountTo(u, n) = g[n]
    <3> HIDE DEF g
    <3> QED BY ONLY <1>7, <2>1, <2>2, SumIs
  <2> QED BY <2>3
<1>10. ASSUME NEW j \in Members(r)
       PROVE  EndOf(u, j) = EndOf(r, j) - 1
  <2>1. PICK n \in 1 .. Len(r) : r[n].timer = j
    BY DEF Members
  <2>2. n \in 0 .. Len(u) /\ n # 0 /\ n \in 1 .. Len(u) /\ u[n].timer = j
    BY <1>1, <1>7, <2>1
  <2>3. EndOf(u, j) = CountTo(u, n) /\ EndOf(r, j) = CountTo(r, n)
    BY <1>8, <2>1, <2>2, EndFacts
  <2> QED BY <1>9, <2>2, <2>3
<1> QED BY <1>8, <1>10
=============================================================================
