---------------------------- MODULE LosSwtmrProofs ----------------------------
(***************************************************************************)
(* What the software timers guarantee for every number of timers, of       *)
(* generations of their IDs and of clients, and for all intervals.         *)
(***************************************************************************)
EXTENDS LosSwtmr, DeltaListProofs

-----------------------------------------------------------------------------
(* IDs *)

\* The generation g of block i has the ID i + g * Limit.
IDOf(i, g) == i + g * Limit

LEMMA LimitType == Limit \in Nat /\ Limit > 0 /\ Generations \in Nat /\ Generations > 0
BY SwtmrAssumption

LEMMA IDOfFacts ==
  ASSUME NEW i \in Timer, NEW g \in 0 .. Generations - 1
  PROVE  IDOf(i, g) \in ID /\ IDOf(i, g) % Limit = i /\ IDOf(i, g) # Limit * Generations
<1>1. i \in Nat /\ g \in Nat /\ g < Generations /\ i < Limit
  BY LimitType DEF Timer
<1>2. g * Limit + Limit <= Generations * Limit /\ g * Limit \in Nat
  BY <1>1, LimitType, ProductGrows
<1>3. Generations * Limit = Limit * Generations
  BY LimitType
<1>4. IDOf(i, g) \in ID /\ IDOf(i, g) # Limit * Generations
  BY <1>1, <1>2, <1>3, LimitType DEF IDOf, ID
<1>5. (i + g * Limit) % Limit = i
  BY <1>1, <1>2, LimitType
<1> QED BY <1>4, <1>5 DEF IDOf

LEMMA IDOfOne ==
  ASSUME NEW id \in ID
  PROVE  \E g \in 0 .. Generations - 1 : id = IDOf(id % Limit, g) /\ id % Limit \in Timer
<1>1. id \in Nat /\ id < Limit * Generations
  BY LimitType DEF ID
<1>2. PICK q, r : q = id \div Limit /\ r = id % Limit
  OBVIOUS
<1>3. q \in Nat /\ r \in 0 .. Limit - 1 /\ id = q * Limit + r
  BY <1>1, <1>2, LimitType
<1>4. q < Generations
  <2> SUFFICES ASSUME q >= Generations PROVE FALSE
    BY <1>3, LimitType
  <2>1. q * Limit >= Generations * Limit
    <3>1. CASE q = Generations
      BY <3>1, LimitType
    <3>2. CASE Generations < q
      BY <1>3, <3>2, LimitType, ProductGrows
    <3> QED BY <1>3, <3>1, <3>2, LimitType
  <2> QED BY <1>1, <1>3, <2>1, LimitType
<1>5. q * Limit \in Nat /\ r + q * Limit = q * Limit + r /\ r \in Nat
  BY <1>3, LimitType
<1>6. IDOf(r, q) = id /\ r \in Timer /\ q \in 0 .. Generations - 1
  BY <1>3, <1>4, <1>5, LimitType DEF IDOf, Timer
<1> QED BY <1>2, <1>6

\* The generations of a block are told apart by their IDs.
LEMMA IDOfDiffers ==
  ASSUME NEW i \in Timer, NEW g \in 0 .. Generations - 1, NEW h \in 0 .. Generations - 1,
         IDOf(i, g) = IDOf(i, h)
  PROVE  g = h
<1>1. i \in Nat /\ g \in Nat /\ h \in Nat
  BY LimitType DEF Timer
<1>2. g * Limit = h * Limit
  <2>1. g * Limit \in Nat /\ h * Limit \in Nat
    BY <1>1, LimitType
  <2> QED BY <1>1, <2>1 DEF IDOf
<1>3. ~(g < h)
  BY <1>1, <1>2, LimitType, ProductGrows
<1>4. ~(h < g)
  BY <1>1, <1>2, LimitType, ProductGrows
<1> QED BY <1>1, <1>3, <1>4

\* The ID of the next generation, or of the first after the last.
LEMMA NextIDOf ==
  ASSUME NEW i \in Timer, NEW g \in 0 .. Generations - 1
  PROVE  NextID(IDOf(i, g)) = IDOf(i, IF g = Generations - 1 THEN 0 ELSE g + 1)
<1>1. i \in Nat /\ g \in Nat /\ g < Generations /\ i < Limit
  BY LimitType DEF Timer
<1>2. PICK p \in Nat : p = (Generations - 1) * Limit
  BY LimitType
<1>3. Limit * Generations - Limit = p
  <2>1. Limit * Generations = (Generations - 1) * Limit + Limit
    BY LimitType
  <2> QED BY <1>2, <2>1, LimitType
<1>4. CASE g = Generations - 1
  <2>1. ~(IDOf(i, g) < p)
    BY <1>1, <1>2, <1>4, LimitType DEF IDOf
  <2>2. IDOf(i, 0) = i
    BY <1>1, LimitType DEF IDOf
  <2> QED BY <1>3, <1>4, <2>1, <2>2, IDOfFacts DEF NextID
<1>5. CASE g # Generations - 1
  <2>1. g < Generations - 1 /\ Generations - 1 \in Nat
    BY <1>1, <1>5, LimitType
  <2>2. g * Limit + Limit <= p
    BY <1>1, <1>2, <2>1, LimitType, ProductGrows
  <2>3. IDOf(i, g) < p
    BY <1>1, <1>2, <2>2, LimitType DEF IDOf
  <2>4. IDOf(i, g + 1) = IDOf(i, g) + Limit
    <3>1. (g + 1) * Limit = g * Limit + Limit
      BY <1>1, LimitType
    <3> QED BY <1>1, <3>1, LimitType DEF IDOf
  <2> QED BY <1>3, <1>5, <2>3, <2>4 DEF NextID
<1> QED BY <1>4, <1>5

-----------------------------------------------------------------------------
(* The inductive invariant *)

CBType == [Timer -> [id : ID, state : {"UNUSED", "CREATED", "TICKING"}, mode : Mode,
                     interval : Nat]]

HandleType == [Client -> [id : ID, expired : 0 .. Generations - 1] \cup {NoHandle}]

\* b, r, f, h and cr stand for cb, run, free, handle and create.
Typed(b, r, f, h, cr) ==
  /\ b \in CBType /\ Listed(Timer, r) /\ f \in Seq(Timer) /\ h \in HandleType
  /\ cr \in [Client -> Timer \cup {NoTimer}]
  /\ \A i \in Timer : b[i].state # "UNUSED" => b[i].interval \in Intervals

\* A block is in one place.
Located(b, r, f, cr) ==
  /\ IsInjective(f)
  /\ Members(r) = {i \in Timer : b[i].state = "TICKING"}
  /\ \A i \in Timer :
       /\ i \in Range(f) => b[i].state = "UNUSED" /\ \A c \in Client : cr[c] # i
       /\ b[i].state = "UNUSED" => i \in Range(f) \/ \E c \in Client : cr[c] = i
       /\ b[i].state = "TICKING" => \A c \in Client : cr[c] # i
  /\ \A c, d \in Client : cr[c] = cr[d] /\ cr[c] # NoTimer => c = d

InUse(u) == u # NoHandle /\ u.expired = 0

\* The timer of an ID that has not expired is its client's alone.
Owned(b, h, cr) ==
  \A c \in Client : InUse(h[c]) =>
    /\ b[h[c].id % Limit].state # "UNUSED"
    /\ \A d \in Client :
         /\ cr[d] # h[c].id % Limit
         /\ InUse(h[d]) /\ h[d].id % Limit = h[c].id % Limit => d = c

\* The generation e after generation g.
Later(g, e) == IF g + e < Generations THEN g + e ELSE g + e - Generations

\* A block is as many generations past an ID as the ID has expired.
Dated(b, h) ==
  /\ \A i \in Timer : b[i].id % Limit = i
  /\ \A c \in Client : h[c] # NoHandle =>
       \E g \in 0 .. Generations - 1 :
         /\ h[c].id = IDOf(h[c].id % Limit, g)
         /\ b[h[c].id % Limit].id = IDOf(h[c].id % Limit, Later(g, h[c].expired))

Sound(b, r, f, h, cr) ==
  Typed(b, r, f, h, cr) /\ Located(b, r, f, cr) /\ Owned(b, h, cr) /\ Dated(b, h)

IInv ==
  /\ Sound(cb, run, free, handle, create)
  /\ \A i \in Members(run) : EndOf(run, i) > 0
  /\ queue \in Seq(Timer) /\ tick \in {0, 1}

\* Taking the first element off a sequence in which nothing is twice.
LEMMA TailFacts ==
  ASSUME NEW f \in Seq(Timer), IsInjective(f), f # <<>>
  PROVE  /\ Head(f) \in Range(f) /\ Head(f) \in Timer
         /\ Tail(f) \in Seq(Timer) /\ IsInjective(Tail(f)) /\ Range(Tail(f)) = Range(f) \ {Head(f)}
<1>1. /\ Len(f) \in Nat /\ Len(f) > 0 /\ DOMAIN f = 1 .. Len(f) /\ Head(f) = f[1]
      /\ \A n \in 1 .. Len(f) : f[n] \in Timer
  OBVIOUS
<1>2. /\ Tail(f) \in Seq(Timer) /\ DOMAIN Tail(f) = 1 .. Len(f) - 1
      /\ \A n \in 1 .. Len(f) - 1 : Tail(f)[n] = f[n + 1]
  BY <1>1
<1>3. \A m, n \in 1 .. Len(f) : f[m] = f[n] => m = n
  BY <1>1 DEF IsInjective
<1>4. IsInjective(Tail(f))
  BY <1>1, <1>2, <1>3 DEF IsInjective
<1>6. Range(f) = {f[n] : n \in 1 .. Len(f)} /\ Range(Tail(f)) = {Tail(f)[n] : n \in 1 .. Len(f) - 1}
  BY <1>1, <1>2 DEF Range
<1>7. \A n \in 1 .. Len(f) - 1 : Tail(f)[n] \in Range(f) \ {f[1]}
  <2> TAKE n \in 1 .. Len(f) - 1
  <2>1. n + 1 \in 1 .. Len(f) /\ n + 1 # 1 /\ 1 \in 1 .. Len(f)
    BY <1>1
  <2>2. PICK m : m = n + 1
    OBVIOUS
  <2> QED BY <1>2, <1>3, <1>6, <2>1, <2>2
<1>8. \A n \in 1 .. Len(f) : n # 1 => f[n] \in Range(Tail(f))
  <2> SUFFICES ASSUME NEW n \in 1 .. Len(f), n # 1 PROVE f[n] \in Range(Tail(f))
    OBVIOUS
  <2>1. PICK m : m = n - 1
    OBVIOUS
  <2>2. m \in 1 .. Len(f) - 1 /\ m + 1 = n
    BY <1>1, <2>1
  <2> QED BY <1>2, <1>6, <2>2
<1>9. Range(Tail(f)) = Range(f) \ {f[1]}
  BY <1>6, <1>7, <1>8
<1>10. f[1] \in Range(f)
  BY <1>1, <1>6
<1> QED BY <1>1, <1>2, <1>4, <1>9, <1>10

\* Putting an element in front that is not yet there.
LEMMA PushFacts ==
  ASSUME NEW f \in Seq(Timer), IsInjective(f), NEW i \in Timer, i \notin Range(f)
  PROVE  /\ <<i>> \o f \in Seq(Timer) /\ IsInjective(<<i>> \o f)
         /\ Range(<<i>> \o f) = Range(f) \cup {i}
<1>1. PICK g : g = <<i>> \o f
  OBVIOUS
<1>2. /\ Len(f) \in Nat /\ DOMAIN f = 1 .. Len(f)
      /\ \A n \in 1 .. Len(f) : f[n] \in Timer
  OBVIOUS
<1>3. /\ g \in Seq(Timer) /\ Len(g) = 1 + Len(f) /\ DOMAIN g = 1 .. 1 + Len(f)
      /\ g[1] = i
      /\ \A n \in 2 .. 1 + Len(f) : g[n] = f[n - 1]
  BY <1>1, <1>2
<1>4. \A n \in 1 .. Len(f) : n + 1 \in 2 .. 1 + Len(f) /\ n + 1 - 1 = n /\ n + 1 \in 1 .. 1 + Len(f)
  BY <1>2
<1>5. \A n \in 1 .. 1 + Len(f) : n = 1 \/ (n \in 2 .. 1 + Len(f) /\ n - 1 \in 1 .. Len(f))
  BY <1>2
<1>6. Range(g) = Range(f) \cup {i}
  <2>1. Range(g) = {g[n] : n \in 1 .. 1 + Len(f)} /\ Range(f) = {f[n] : n \in 1 .. Len(f)}
    BY <1>2, <1>3 DEF Range
  <2>2. \A n \in 1 .. Len(f) : f[n] \in Range(g)
    <3> TAKE n \in 1 .. Len(f)
    <3>1. PICK m : m = n + 1
      OBVIOUS
    <3>2. m \in 2 .. 1 + Len(f) /\ m - 1 = n /\ m \in 1 .. 1 + Len(f)
      BY <1>4, <3>1
    <3>3. g[m] = f[n]
      BY <1>3, <3>2
    <3> QED BY <2>1, <3>2, <3>3
  <2>3. \A n \in 1 .. 1 + Len(f) : g[n] \in Range(f) \cup {i}
    BY <1>3, <1>5, <2>1
  <2>4. i \in Range(g)
    BY <1>2, <1>3, <2>1
  <2> QED BY <2>1, <2>2, <2>3, <2>4
<1>7. IsInjective(g)
  <2>1. ASSUME NEW m \in 1 .. 1 + Len(f), NEW n \in 1 .. 1 + Len(f), g[m] = g[n]
        PROVE  m = n
    <3>1. \A p \in 2 .. 1 + Len(f) : g[p] # i
      BY SMTT(60), <1>2, <1>3, <1>5 DEF Range
    <3>2. CASE m = 1 \/ n = 1
      BY <1>3, <1>5, <2>1, <3>1, <3>2
    <3>3. CASE m # 1 /\ n # 1
      <4>1. f[m - 1] = f[n - 1] /\ m - 1 \in 1 .. Len(f) /\ n - 1 \in 1 .. Len(f)
        BY <1>3, <1>5, <2>1, <3>3
      <4>2. m - 1 = n - 1
        BY <1>2, <4>1 DEF IsInjective
      <4> QED BY <1>2, <4>2
    <3> QED BY <3>2, <3>3
  <2> QED BY <1>3, <2>1 DEF IsInjective
<1> QED BY <1>1, <1>3, <1>6, <1>7

LEMMA CBFacts ==
  ASSUME NEW b \in CBType
  PROVE  /\ \A i \in Timer : /\ b[i].id \in ID /\ b[i].interval \in Nat /\ b[i].mode \in Mode
                              /\ b[i].state \in {"UNUSED", "CREATED", "TICKING"}
         /\ \A i \in Timer, id \in ID :
              [b EXCEPT ![i] = [Blank EXCEPT !.id = id]] \in CBType
BY DEF CBType, Blank, Mode

\* No LOS_SwtmrCreate has block i.
Unmade(i, cr) == \A c \in Client : cr[c] # i

\* Block i stays in use, and is in the list when it ticks.
Moves(i, b, r, b1, r1) ==
  /\ i \in Timer /\ b[i].state # "UNUSED"
  /\ b1 \in CBType /\ \A j \in Timer \ {i} : b1[j] = b[j]
  /\ b1[i].id = b[i].id /\ b1[i].interval = b[i].interval /\ b1[i].state # "UNUSED"
  /\ Listed(Timer, r1)
  /\ Members(r1) = (Members(r) \ {i}) \cup (IF b1[i].state = "TICKING" THEN {i} ELSE {})

LEMMA Moved ==
  ASSUME NEW b, NEW r, NEW f, NEW h, NEW cr, Sound(b, r, f, h, cr),
         NEW i, Unmade(i, cr), NEW b1, NEW r1, Moves(i, b, r, b1, r1)
  PROVE  Sound(b1, r1, f, h, cr)
<1> USE DEF Sound, Moves, Unmade
<1>1. Typed(b1, r1, f, h, cr)
  BY DEF Typed
<1>2. Located(b1, r1, f, cr)
  BY DEF Located
<1>3. Owned(b1, h, cr)
  <2>1. \A j \in Timer : b[j].state # "UNUSED" => b1[j].state # "UNUSED"
    OBVIOUS
  <2>2. \A c \in Client : InUse(h[c]) => h[c].id % Limit \in Timer
    BY IDOfOne DEF Typed, HandleType, InUse
  <2> QED BY <2>1, <2>2 DEF Owned
<1>4. Dated(b1, h)
  <2>1. \A j \in Timer : b1[j].id = b[j].id
    OBVIOUS
  <2>2. \A c \in Client : h[c] # NoHandle => h[c].id % Limit \in Timer
    BY IDOfOne DEF Typed, HandleType
  <2> QED BY <2>1, <2>2 DEF Dated
<1> QED BY <1>1, <1>2, <1>3, <1>4

\* Block i is freed and its list entry gone.
Frees(i, b, r, b1, r1) ==
  /\ i \in Timer /\ b[i].state # "UNUSED"
  /\ \E id \in ID : b1 = [b EXCEPT ![i] = [Blank EXCEPT !.id = id]]
  /\ Listed(Timer, r1) /\ Members(r1) = Members(r) \ {i}

\* The IDs of block i are no longer in use, and the block dates from after them.
Lapses(i, h, b1, h1) ==
  /\ h1 \in HandleType /\ Dated(b1, h1)
  /\ \A c \in Client : InUse(h1[c]) => h1[c] = h[c] /\ h[c].id % Limit # i

LEMMA Freed ==
  ASSUME NEW b, NEW r, NEW f, NEW h, NEW cr, Sound(b, r, f, h, cr),
         NEW i, Unmade(i, cr), NEW b1, NEW r1, Frees(i, b, r, b1, r1),
         NEW h1, Lapses(i, h, b1, h1)
  PROVE  Sound(b1, r1, <<i>> \o f, h1, cr)
<1> USE DEF Frees, Lapses, Unmade
<1> PICK id \in ID : b1 = [b EXCEPT ![i] = [Blank EXCEPT !.id = id]]
  OBVIOUS
<1> USE DEF Sound
<1>1. b \in CBType /\ b1 \in CBType
  BY CBFacts DEF Typed
<1>2. b1[i].state = "UNUSED" /\ \A j \in Timer \ {i} : b1[j] = b[j]
  BY <1>1 DEF CBType, Blank
<1> HIDE DEF Sound
<1>3. Typed(b, r, f, h, cr) /\ Located(b, r, f, cr) /\ Owned(b, h, cr)
  BY DEF Sound
<1>4. i \notin Range(f) /\ f \in Seq(Timer) /\ IsInjective(f)
  BY <1>3 DEF Typed, Located
<1>5. PICK f1 : f1 = <<i>> \o f
  OBVIOUS
<1>6. f1 \in Seq(Timer) /\ IsInjective(f1) /\ Range(f1) = Range(f) \cup {i}
  BY <1>4, <1>5, PushFacts
<1>7. Typed(b1, r1, f1, h1, cr)
  BY <1>1, <1>2, <1>3, <1>6 DEF Typed
<1>8. Located(b1, r1, f1, cr)
  BY <1>2, <1>3, <1>6 DEF Located
<1>9. Owned(b1, h1, cr)
  <2>1. \A c \in Client : InUse(h[c]) => h[c].id % Limit \in Timer
    BY <1>3, IDOfOne DEF Typed, HandleType, InUse
  <2> QED BY <1>2, <1>3, <2>1 DEF Owned
<1> QED BY <1>5, <1>7, <1>8, <1>9 DEF Sound

\* A list from which a timer was taken, if it ran.
LEMMA Halted ==
  ASSUME NEW r, Listed(Timer, r), NEW i \in Timer,
         NEW u, u = IF i \in Members(r) THEN Delete(r, i) ELSE r
  PROVE  /\ Listed(Timer, u) /\ Members(u) = Members(r) \ {i}
         /\ \A j \in Timer : EndOf(u, j) = IF j = i THEN 0 ELSE EndOf(r, j)
<1>1. CASE i \in Members(r)
  <2>1. u = Delete(r, i)
    BY <1>1
  <2>2. /\ Listed(Timer, u) /\ Members(u) = Members(r) \ {i}
        /\ \A j \in Members(u) : EndOf(u, j) = EndOf(r, j)
    BY <1>1, <2>1, DeleteFacts
  <2> QED BY <2>2, EndFacts
<1>2. CASE i \notin Members(r)
  BY <1>2, EndFacts
<1> QED BY <1>1, <1>2

\* A list in which a timer was started, anew if it ran.
LEMMA Anew ==
  ASSUME NEW r, Listed(Timer, r), NEW i \in Timer, NEW x \in Nat, NEW u,
         u = Insert(IF i \in Members(r) THEN Delete(r, i) ELSE r, i, x)
  PROVE  /\ Listed(Timer, u) /\ Members(u) = Members(r) \cup {i}
         /\ \A j \in Timer : EndOf(u, j) = IF j = i THEN x ELSE EndOf(r, j)
<1>1. PICK v : v = IF i \in Members(r) THEN Delete(r, i) ELSE r
  OBVIOUS
<1>2. /\ Listed(Timer, v) /\ Members(v) = Members(r) \ {i}
      /\ \A j \in Timer : EndOf(v, j) = IF j = i THEN 0 ELSE EndOf(r, j)
  BY <1>1, Halted
<1>3. u = Insert(v, i, x) /\ i \notin Members(v)
  BY <1>1, <1>2
<1>4. /\ Listed(Timer, u) /\ Members(u) = Members(v) \cup {i} /\ EndOf(u, i) = x
      /\ \A j \in Members(v) : EndOf(u, j) = EndOf(v, j)
  BY <1>2, <1>3, InsertFacts
<1>5. ASSUME NEW j \in Timer, j # i
      PROVE  EndOf(u, j) = EndOf(v, j)
  BY <1>2, <1>4, <1>5, EndFacts
<1> QED BY <1>2, <1>4, <1>5

LEMMA InitInv == SwtmrInit => IInv
<1> SUFFICES ASSUME SwtmrInit PROVE IInv
  OBVIOUS
<1> USE DEF SwtmrInit
<1>1. Typed(cb, run, free, handle, create)
  <2>1. \A i \in Timer : i \in ID
    <3>1. 0 \in 0 .. Generations - 1 /\ \A i \in Timer : IDOf(i, 0) = i
      BY LimitType DEF IDOf, Timer
    <3> QED BY <3>1, IDOfFacts
  <2>2. cb \in CBType /\ \A i \in Timer : cb[i].state = "UNUSED"
    BY <2>1 DEF CBType, Blank, Mode
  <2>3. Listed(Timer, run)
    BY DEF Listed
  <2>4. free \in Seq(Timer)
    BY LimitType DEF Timer
  <2>5. handle \in HandleType
    BY DEF HandleType
  <2> QED BY <2>2, <2>3, <2>4, <2>5 DEF Typed
<1>2. Located(cb, run, free, create)
  <2>1. IsInjective(free)
    BY LimitType DEF IsInjective
  <2>2. Members(run) = {}
    BY DEF Members
  <2>3. \A i \in Timer : cb[i].state = "UNUSED"
    BY DEF Blank
  <2>4. \A i \in Timer : i \in Range(free)
    <3> TAKE i \in Timer
    <3>1. PICK n : n = i + 1
      OBVIOUS
    <3>2. n \in 1 .. Limit /\ n - 1 = i
      BY ONLY <3>1, i \in Timer, LimitType DEF Timer
    <3>3. n \in DOMAIN free /\ free[n] = i
      BY <3>2
    <3> QED BY <3>3 DEF Range
  <2>5. \A i \in Timer : \A c \in Client : create[c] # i
    BY SwtmrAssumption
  <2> QED BY <2>1, <2>2, <2>3, <2>4, <2>5 DEF Located
<1>3. Owned(cb, handle, create)
  BY DEF Owned, InUse
<1>4. Dated(cb, handle)
  <2>1. \A i \in Timer : cb[i].id = i
    BY DEF Blank
  <2>2. \A i \in Timer : i % Limit = i
    BY ONLY LimitType DEF Timer
  <2> QED BY <2>1, <2>2 DEF Dated
<1>5. \A i \in Members(run) : EndOf(run, i) > 0
  BY DEF Members
<1> QED BY <1>1, <1>2, <1>3, <1>4, <1>5 DEF IInv, Sound

LEMMA CreateTakeInv ==
  ASSUME IInv, NEW c \in Client, CreateTake(c)
  PROVE  IInv'
<1> USE DEF IInv, Sound, CreateTake, Idle
<1>1. free \in Seq(Timer) /\ IsInjective(free) /\ free # <<>>
  BY DEF Typed, Located
<1>2. PICK i : i = Head(free)
  OBVIOUS
<1>3. /\ i \in Range(free) /\ i \in Timer /\ free' \in Seq(Timer) /\ IsInjective(free')
      /\ Range(free') = Range(free) \ {i}
  BY <1>1, <1>2, TailFacts
<1>4. create' = [create EXCEPT ![c] = i] /\ create \in [Client -> Timer \cup {NoTimer}]
  BY <1>2 DEF Typed
<1>5. create' \in [Client -> Timer \cup {NoTimer}] /\ create'[c] = i
      /\ \A d \in Client : d # c => create'[d] = create[d]
  BY <1>3, <1>4
<1>6. Typed(cb, run, free, handle, create)'
  BY <1>3, <1>5 DEF Typed
<1>7. cb[i].state = "UNUSED" /\ \A d \in Client : create[d] # i
  BY <1>3 DEF Located
<1>8. Located(cb, run, free, create)'
  BY <1>3, <1>5, <1>7, SwtmrAssumption DEF Located
<1>9. Owned(cb, handle, create)'
  BY <1>5, <1>7 DEF Owned
<1>10. Dated(cb, handle)'
  BY DEF Dated
<1> QED BY <1>6, <1>8, <1>9, <1>10

LEMMA CreateFillInv ==
  ASSUME IInv, NEW c \in Client, NEW mode \in Mode, NEW interval \in Intervals,
         CreateFill(c, mode, interval)
  PROVE  IInv'
<1> USE DEF IInv, Sound, CreateFill, Idle
<1>1. PICK i : i = create[c]
  OBVIOUS
<1>2. i \in Timer /\ cb[i].state = "UNUSED" /\ cb \in CBType
  BY <1>1 DEF Typed
<1>3. PICK x : x = [cb[i] EXCEPT !.state = "CREATED", !.mode = mode, !.interval = interval]
  OBVIOUS
<1>4. cb' = [cb EXCEPT ![i] = x]
  BY <1>1, <1>3
<1>5. /\ cb' \in CBType /\ cb'[i].id = cb[i].id /\ cb'[i].state = "CREATED"
      /\ cb'[i].interval = interval
      /\ \A j \in Timer : j # i => cb'[j] = cb[j]
  <2>1. interval \in Nat
    BY SwtmrAssumption
  <2>2. /\ x \in [id : ID, state : {"UNUSED", "CREATED", "TICKING"}, mode : Mode, interval : Nat]
        /\ x.id = cb[i].id /\ x.state = "CREATED" /\ x.interval = interval
    BY ONLY <1>2, <1>3, <2>1, mode \in Mode DEF CBType
  <2> QED BY ONLY <1>2, <1>4, <2>2 DEF CBType
<1>6. Typed(cb, run, free, handle, create)'
  BY <1>5 DEF Typed
<1>7. Located(cb, run, free, create)'
  BY <1>1, <1>2, <1>5 DEF Located
<1>8. \A d \in Client : handle[d] # NoHandle => handle[d].id % Limit \in Timer
  BY IDOfOne DEF Typed, HandleType
<1>9. Owned(cb, handle, create)'
  BY <1>2, <1>5, <1>8 DEF Owned, InUse
<1>10. Dated(cb, handle)'
  BY <1>5, <1>8 DEF Dated
<1> QED BY <1>6, <1>7, <1>9, <1>10

LEMMA CreateReturnInv ==
  ASSUME IInv, NEW c \in Client, CreateReturn(c)
  PROVE  IInv'
<1> USE DEF IInv, Sound, CreateReturn, Idle
<1>1. PICK i : i = create[c]
  OBVIOUS
<1>2. i \in Timer /\ cb[i].state # "UNUSED" /\ cb \in CBType
  BY <1>1 DEF Typed
<1>3. PICK u : u = [id |-> cb[i].id, expired |-> 0]
  OBVIOUS
<1>4. u \in [id : ID, expired : 0 .. Generations - 1] /\ u.id = cb[i].id /\ u.expired = 0 /\ InUse(u)
  <2>1. cb[i].id \in ID
    BY <1>2, CBFacts
  <2>2. u \in [id : ID, expired : 0 .. Generations - 1]
    BY <1>3, <2>1, LimitType
  <2>3. \A id \in ID : id # Limit * Generations
    BY IDOfOne, IDOfFacts
  <2>4. u # NoHandle
    BY <1>3, <2>1, <2>3 DEF NoHandle
  <2> QED BY <1>3, <2>2, <2>4 DEF InUse
<1>5. /\ handle' = [handle EXCEPT ![c] = u] /\ handle \in HandleType
      /\ create' = [create EXCEPT ![c] = NoTimer] /\ create \in [Client -> Timer \cup {NoTimer}]
  BY <1>1, <1>3 DEF Typed
<1>6. /\ handle' \in HandleType /\ handle'[c] = u
      /\ \A d \in Client : d # c => handle'[d] = handle[d]
      /\ create' \in [Client -> Timer \cup {NoTimer}] /\ create'[c] = NoTimer
      /\ \A d \in Client : d # c => create'[d] = create[d]
  BY <1>4, <1>5 DEF HandleType
<1>7. cb[i].id % Limit = i
  BY <1>2 DEF Dated
<1>8. Typed(cb, run, free, handle, create)'
  BY <1>6 DEF Typed
<1>9. Located(cb, run, free, create)'
  BY SMTT(60), <1>1, <1>2, <1>6, SwtmrAssumption DEF Located
<1>10. Owned(cb, handle, create)'
  <2>1. \A d \in Client : InUse(handle[d]) => handle[d].id % Limit # i
    BY <1>1 DEF Owned
  <2>2. \A d \in Client : create'[d] # i
    BY <1>1, <1>2, <1>6, SwtmrAssumption DEF Located
  <2>3. \A d \in Client : handle[d] # NoHandle => handle[d].id % Limit \in Timer
    BY SMTT(60), IDOfOne DEF Typed, HandleType
  <2>4. ASSUME NEW d \in Client, InUse(handle'[d])
        PROVE  /\ cb[handle'[d].id % Limit].state # "UNUSED"
               /\ \A e \in Client :
                    /\ create'[e] # handle'[d].id % Limit
                    /\ (InUse(handle'[e]) /\ handle'[e].id % Limit = handle'[d].id % Limit) => e = d
    <3>1. CASE d = c
      BY <1>2, <1>4, <1>6, <1>7, <2>1, <2>2, <3>1
    <3>2. CASE d # c
      <4>1. InUse(handle[d]) /\ handle'[d] = handle[d]
        BY <1>6, <2>4, <3>2
      <4>2. handle[d].id % Limit \in Timer
        BY <2>3, <4>1 DEF InUse
      <4>3. \A e \in Client : create'[e] # handle[d].id % Limit
        BY <1>6, <4>1, <4>2, SwtmrAssumption DEF Owned
      <4>4. \A e \in Client : InUse(handle'[e]) /\ handle'[e].id % Limit = handle[d].id % Limit => e = d
        BY SMTT(60), <1>4, <1>6, <1>7, <2>1, <4>1 DEF Owned
      <4> QED BY <4>1, <4>3, <4>4 DEF Owned
    <3> QED BY <3>1, <3>2
  <2> QED BY <2>4 DEF Owned
<1>11. Dated(cb, handle)'
  <2>1. \E g \in 0 .. Generations - 1 : cb[i].id = IDOf(i, g) /\ cb[i].id = IDOf(i, Later(g, 0))
    <3>1. PICK g \in 0 .. Generations - 1 : cb[i].id = IDOf(i, g)
      BY <1>2, <1>7, CBFacts, IDOfOne
    <3>2. Later(g, 0) = g
      BY LimitType DEF Later
    <3> QED BY <3>1, <3>2
  <2>2. Dated(cb, handle)
    OBVIOUS
  <2>3. ASSUME NEW d \in Client, handle'[d] # NoHandle
        PROVE  \E g \in 0 .. Generations - 1 :
                 /\ handle'[d].id = IDOf(handle'[d].id % Limit, g)
                 /\ cb[handle'[d].id % Limit].id = IDOf(handle'[d].id % Limit, Later(g, handle'[d].expired))
    <3>1. CASE d = c
      <4>1. handle'[d].id = cb[i].id /\ handle'[d].id % Limit = i /\ handle'[d].expired = 0
        BY <1>4, <1>6, <1>7, <3>1
      <4> QED BY ONLY <2>1, <4>1
    <3>2. CASE d # c
      <4>1. handle'[d] = handle[d]
        BY <1>6, <3>2
      <4> QED BY ONLY <2>2, <2>3, <4>1, d \in Client DEF Dated
    <3> QED BY <3>1, <3>2
  <2> QED BY <2>2, <2>3 DEF Dated
<1> QED BY <1>8, <1>9, <1>10, <1>11

\* An ID that is accepted has not expired, so that its timer is the client's.
LEMMA CheckedFacts ==
  ASSUME NEW b, NEW r, NEW f, NEW h, NEW cr, Sound(b, r, f, h, cr), NEW c \in Client,
         NEW i \in Timer, h[c] # NoHandle, i = h[c].id % Limit, b[i].id = h[c].id
  PROVE  /\ InUse(h[c]) /\ \A d \in Client : cr[d] # i
         /\ \A d \in Client \ {c} : InUse(h[d]) => h[d].id % Limit # i
<1> USE DEF Sound
<1>1. PICK g \in 0 .. Generations - 1 :
        h[c].id = IDOf(i, g) /\ b[i].id = IDOf(i, Later(g, h[c].expired))
  BY DEF Dated
<1>2. PICK e : e = h[c].expired
  OBVIOUS
<1>3. e \in 0 .. Generations - 1
  BY <1>2 DEF Typed, HandleType
<1>4. Later(g, e) \in 0 .. Generations - 1 /\ (Later(g, e) = g => e = 0)
  BY SMTT(60), <1>3, LimitType DEF Later
<1>5. e = 0
  BY <1>1, <1>2, <1>4, IDOfDiffers
<1>6. InUse(h[c])
  BY <1>2, <1>5 DEF InUse
<1> QED BY <1>6 DEF Owned

\* Starting a timer sets its time to its interval and leaves the others theirs.
LEMMA StartInv ==
  ASSUME IInv, NEW c \in Client, NEW i \in Timer, LOS_SwtmrStart(c, i)
  PROVE  /\ IInv' /\ cb[i].interval \in Intervals
         /\ \A j \in Timer : EndOf(run, j)' = IF j = i THEN cb[i].interval ELSE EndOf(run, j)
<1>0. /\ handle[c] # NoHandle /\ i = handle[c].id % Limit /\ cb[i].id = handle[c].id
      /\ cb[i].state # "UNUSED" /\ cb' = [cb EXCEPT ![i].state = "TICKING"]
      /\ run' = Insert(IF cb[i].state = "TICKING" THEN Delete(run, i) ELSE run,
                             i, cb[i].interval)
      /\ UNCHANGED <<free, queue, create, handle, tick>>
  BY DEF LOS_SwtmrStart, Checked, SetState
<1>1. Sound(cb, run, free, handle, create)
  BY SMTT(60) DEF IInv
<1>2. Unmade(i, create)
  BY SMTT(60), <1>0, <1>1, CheckedFacts DEF Unmade
<1>3. /\ cb \in CBType /\ Listed(Timer, run) /\ Members(run) = {j \in Timer : cb[j].state = "TICKING"}
      /\ cb[i].interval \in Intervals
  BY <1>0, <1>1 DEF Sound, Typed, Located
<1>4. PICK x \in Intervals : x = cb[i].interval
  BY <1>3
<1>5. x \in Nat /\ x > 0
  BY ONLY SMTT(60), x \in Intervals, SwtmrAssumption
<1>6. run' = Insert(IF i \in Members(run) THEN Delete(run, i) ELSE run, i, x)
  BY <1>0, <1>3, <1>4
<1>7. /\ Listed(Timer, run') /\ Members(run') = Members(run) \cup {i}
      /\ \A j \in Timer : EndOf(run', j) = IF j = i THEN x ELSE EndOf(run, j)
  BY ONLY SMTT(60), <1>3, <1>5, <1>6, i \in Timer, Anew
<1>8. /\ cb' \in CBType /\ \A j \in Timer \ {i} : cb'[j] = cb[j]
      /\ cb'[i].id = cb[i].id /\ cb'[i].interval = cb[i].interval /\ cb'[i].state = "TICKING"
  BY ZenonT(60), <1>0, <1>3 DEF CBType
<1>9. Sound(cb', run', free, handle, create)
  <2>1. Moves(i, cb, run, cb', run')
    BY ONLY ZenonT(60), <1>0, <1>7, <1>8 DEF Moves
  <2> QED BY ONLY <1>1, <1>2, <2>1, Moved
<1>10. \A j \in Members(run') : EndOf(run', j) > 0
  BY SMTT(60), <1>3, <1>5, <1>7 DEF IInv
<1>11. IInv'
  BY ZenonT(60), <1>0, <1>9, <1>10 DEF IInv
<1> QED BY SMTT(60), <1>3, <1>4, <1>7, <1>11

\* Stopping a timer takes its time and leaves the others theirs.
LEMMA StopInv ==
  ASSUME IInv, NEW c \in Client, NEW i \in Timer, LOS_SwtmrStop(c, i)
  PROVE  /\ IInv' /\ EndOf(run, i) > 0
         /\ \A j \in Timer : EndOf(run, j)' = IF j = i THEN 0 ELSE EndOf(run, j)
<1>0. /\ handle[c] # NoHandle /\ i = handle[c].id % Limit /\ cb[i].id = handle[c].id
      /\ cb[i].state = "TICKING" /\ cb' = [cb EXCEPT ![i].state = "CREATED"]
      /\ run' = Delete(run, i)
      /\ UNCHANGED <<free, queue, create, handle, tick>>
  BY DEF LOS_SwtmrStop, Checked, SetState
<1>1. Sound(cb, run, free, handle, create)
  BY DEF IInv
<1>2. Unmade(i, create)
  BY <1>0, <1>1, CheckedFacts DEF Unmade
<1>3. cb \in CBType /\ Listed(Timer, run) /\ Members(run) = {j \in Timer : cb[j].state = "TICKING"}
  BY <1>1 DEF Sound, Typed, Located
<1>4. i \in Members(run) /\ run' = IF i \in Members(run) THEN Delete(run, i) ELSE run
  BY <1>0, <1>3
<1>5. /\ Listed(Timer, run') /\ Members(run') = Members(run) \ {i}
      /\ \A j \in Timer : EndOf(run', j) = IF j = i THEN 0 ELSE EndOf(run, j)
  BY SMTT(60), <1>3, <1>4, Halted
<1>6. /\ cb' \in CBType /\ \A j \in Timer \ {i} : cb'[j] = cb[j]
      /\ cb'[i].id = cb[i].id /\ cb'[i].interval = cb[i].interval /\ cb'[i].state = "CREATED"
  BY <1>0, <1>3 DEF CBType
<1>7. Sound(cb', run', free, handle, create)
  <2>1. Moves(i, cb, run, cb', run')
    BY ONLY ZenonT(60), <1>0, <1>4, <1>5, <1>6 DEF Moves
  <2> QED BY ONLY SMTT(60), <1>1, <1>2, <2>1, Moved
<1>8. EndOf(run, i) > 0
  BY <1>4 DEF IInv
<1>9. \A j \in Members(run') : EndOf(run', j) > 0
  BY SMTT(60), <1>3, <1>5 DEF IInv
<1>10. IInv'
  BY <1>0, <1>7, <1>9 DEF IInv
<1> QED BY <1>5, <1>8, <1>10

\* So does deleting it.
LEMMA DeleteInv ==
  ASSUME IInv, NEW c \in Client, NEW i \in Timer, LOS_SwtmrDelete(c, i)
  PROVE  /\ IInv'
         /\ \A j \in Timer : EndOf(run, j)' = IF j = i THEN 0 ELSE EndOf(run, j)
<1>0. /\ handle[c] # NoHandle /\ i = handle[c].id % Limit /\ cb[i].id = handle[c].id
      /\ cb[i].state # "UNUSED" /\ cb' = [cb EXCEPT ![i] = [Blank EXCEPT !.id = cb[i].id]]
      /\ run' = IF cb[i].state = "TICKING" THEN Delete(run, i) ELSE run
      /\ free' = <<i>> \o free /\ handle' = [handle EXCEPT ![c] = NoHandle]
      /\ UNCHANGED <<queue, create, tick>>
  BY DEF LOS_SwtmrDelete, Checked
<1>1. Sound(cb, run, free, handle, create)
  BY DEF IInv
<1>2. /\ Unmade(i, create)
      /\ \A d \in Client \ {c} : InUse(handle[d]) => handle[d].id % Limit # i
  BY <1>0, <1>1, CheckedFacts DEF Unmade
<1>3. /\ cb \in CBType /\ Listed(Timer, run) /\ Members(run) = {j \in Timer : cb[j].state = "TICKING"}
      /\ handle \in HandleType
  BY <1>1 DEF Sound, Typed, Located
<1>4. run' = IF i \in Members(run) THEN Delete(run, i) ELSE run
  BY <1>0, <1>3
<1>5. /\ Listed(Timer, run') /\ Members(run') = Members(run) \ {i}
      /\ \A j \in Timer : EndOf(run', j) = IF j = i THEN 0 ELSE EndOf(run, j)
  BY <1>3, <1>4, Halted
<1>6. PICK id \in ID : id = cb[i].id
  BY <1>3, CBFacts
<1>7. cb' = [cb EXCEPT ![i] = [Blank EXCEPT !.id = id]]
  BY <1>0, <1>6
<1>8. \A j \in Timer : cb'[j].id = cb[j].id
  BY <1>3, <1>6, <1>7 DEF CBType, Blank
<1>9. /\ handle' \in HandleType /\ handle'[c] = NoHandle
      /\ \A d \in Client : d # c => handle'[d] = handle[d]
  BY <1>0, <1>3 DEF HandleType
<1>10. \A d \in Client : InUse(handle'[d]) => handle'[d] = handle[d] /\ handle[d].id % Limit # i
  BY <1>2, <1>9 DEF InUse
<1>11. Dated(cb', handle')
  <2>1. \A d \in Client : handle[d] # NoHandle => handle[d].id % Limit \in Timer
    BY <1>3, IDOfOne DEF HandleType
  <2>2. Dated(cb, handle)
    BY <1>1 DEF Sound
  <2> QED BY <1>8, <1>9, <2>1, <2>2 DEF Dated
<1>12. Sound(cb', run', <<i>> \o free, handle', create)
  <2>1. Frees(i, cb, run, cb', run')
    BY ONLY ZenonT(60), <1>0, <1>5, <1>7, i \in Timer DEF Frees
  <2>2. Lapses(i, handle, cb', handle')
    BY <1>9, <1>10, <1>11 DEF Lapses
  <2> QED BY ONLY SMTT(60), <1>1, <1>2, <2>1, <2>2, Freed
<1>13. \A j \in Members(run') : EndOf(run', j) > 0
  BY SMTT(60), <1>3, <1>5 DEF IInv
<1>14. IInv'
  BY ZenonT(60), <1>0, <1>12, <1>13 DEF IInv
<1> QED BY <1>5, <1>14

-----------------------------------------------------------------------------
(* The scan of a tick *)

\* The uses of the IDs of a block lapse with its expiry: each is a generation older.
LEMMA AgedFacts ==
  ASSUME NEW b \in CBType, NEW h \in HandleType, Dated(b, h), NEW i \in Timer,
         NEW b1, b1 = [b EXCEPT ![i] = [Blank EXCEPT !.id = NextID(b[i].id)]],
         NEW h1, h1 = [c \in Client |-> Aged(h[c], i)]
  PROVE  NextID(b[i].id) \in ID /\ Lapses(i, h, b1, h1)
<1>1. PICK n : n = NextID(b[i].id)
  OBVIOUS
<1>2. b[i].id \in ID /\ b[i].id % Limit = i
  BY CBFacts DEF Dated
<1>3. PICK p \in 0 .. Generations - 1 : b[i].id = IDOf(i, p)
  BY <1>2, IDOfOne
<1>4. PICK q : q = IF p = Generations - 1 THEN 0 ELSE p + 1
  OBVIOUS
<1>5. q \in 0 .. Generations - 1
  BY <1>4, LimitType
<1>6. n = IDOf(i, q)
  BY <1>1, <1>3, <1>4, NextIDOf
<1>7. n \in ID /\ n % Limit = i
  BY <1>5, <1>6, IDOfFacts
<1>8. b1 = [b EXCEPT ![i] = [Blank EXCEPT !.id = n]]
  BY <1>1
<1>9. b1[i].id = n /\ \A j \in Timer : j # i => b1[j] = b[j]
  BY <1>8 DEF CBType, Blank
<1>10. ASSUME NEW c \in Client
       PROVE  /\ h1[c] \in [id : ID, expired : 0 .. Generations - 1] \cup {NoHandle}
              /\ InUse(h1[c]) => h1[c] = h[c] /\ h[c].id % Limit # i
              /\ h1[c] # NoHandle =>
                   \E g \in 0 .. Generations - 1 :
                     /\ h1[c].id = IDOf(h1[c].id % Limit, g)
                     /\ b1[h1[c].id % Limit].id = IDOf(h1[c].id % Limit, Later(g, h1[c].expired))
  <2>1. h1[c] = Aged(h[c], i)
    OBVIOUS
  <2>2. h[c] \in [id : ID, expired : 0 .. Generations - 1] \cup {NoHandle}
    BY DEF HandleType
  <2>3. CASE h[c] = NoHandle
    BY <2>1, <2>3 DEF Aged, InUse
  <2>4. CASE h[c] # NoHandle /\ h[c].id % Limit # i
    <3>1. h1[c] = h[c]
      BY <2>1, <2>4 DEF Aged
    <3>2. h[c].id % Limit \in Timer
      BY <2>2, <2>4, IDOfOne
    <3>3. PICK g \in 0 .. Generations - 1 :
            /\ h[c].id = IDOf(h[c].id % Limit, g)
            /\ b[h[c].id % Limit].id = IDOf(h[c].id % Limit, Later(g, h[c].expired))
      BY SMTT(60), <2>4 DEF Dated
    <3> QED BY <1>9, <2>2, <2>4, <3>1, <3>2, <3>3
  <2>5. CASE h[c] # NoHandle /\ h[c].id % Limit = i /\ h[c].expired = Generations - 1
    BY <2>1, <2>5 DEF Aged, InUse
  <2>6. CASE h[c] # NoHandle /\ h[c].id % Limit = i /\ h[c].expired # Generations - 1
    <3>1. PICK id \in ID, e \in 0 .. Generations - 1 : h[c] = [id |-> id, expired |-> e]
      BY <2>2, <2>6
    <3>2. h[c].id = id /\ h[c].expired = e /\ id % Limit = i /\ e # Generations - 1
      BY <2>6, <3>1
    <3>3. e + 1 \in 0 .. Generations - 1 /\ e + 1 # 0
      BY <3>2, LimitType
    <3>4. h1[c] = [id |-> id, expired |-> e + 1]
      BY <2>1, <2>6, <3>1, <3>2 DEF Aged
    <3>5. h1[c].id = id /\ h1[c].expired = e + 1
      BY <3>4
    <3>6. PICK g \in 0 .. Generations - 1 : id = IDOf(i, g) /\ b[i].id = IDOf(i, Later(g, e))
      BY <2>6, <3>2 DEF Dated
    <3>7. Later(g, e) \in 0 .. Generations - 1
      BY LimitType DEF Later
    <3>8. Later(g, e) = p
      BY <1>3, <3>6, <3>7, IDOfDiffers
    <3>9. Later(g, e + 1) = q
      BY <1>4, <3>2, <3>8, LimitType DEF Later
    <3>10. ~InUse(h1[c])
      BY <3>3, <3>5 DEF InUse
    <3>11. h1[c] \in [id : ID, expired : 0 .. Generations - 1]
      BY <3>3, <3>4
    <3>12. b1[i].id = IDOf(i, Later(g, e + 1))
      BY <1>6, <1>9, <3>9
    <3> QED BY <3>2, <3>5, <3>6, <3>10, <3>11, <3>12
  <2> QED BY <2>3, <2>4, <2>5, <2>6
<1>11. h1 \in HandleType
  BY <1>10 DEF HandleType
<1>12. \A j \in Timer : b1[j].id % Limit = j
  BY <1>7, <1>9 DEF Dated
<1>13. Dated(b1, h1)
  BY <1>10, <1>12 DEF Dated
<1>14. Lapses(i, h, b1, h1)
  BY <1>10, <1>11, <1>13 DEF Lapses
<1> QED BY <1>1, <1>7, <1>14

\* What the scan works on.
Work == [cb : CBType, run : Seq(Entries(Timer)), free : Seq(Timer), queue : Seq(Timer),
         handle : HandleType]

Scanned(cr) == {s \in Work : Sound(s.cb, s.run, s.free, s.handle, cr)}

\* The timers that end on this tick and are still in the list.
Ending(r) == {j \in Members(r) : EndOf(r, j) = 0}

LEMMA DueFacts ==
  ASSUME NEW cr, NEW s \in Scanned(cr)
  PROVE  /\ Due(s) <=> Ending(s.run) # {}
         /\ Due(s) => Head(s.run).timer \in Ending(s.run)
         /\ Ending(s.run) \subseteq Timer
<1>1. Listed(Timer, s.run) /\ Members(s.run) \subseteq Timer
  BY DEF Scanned, Sound, Typed, Located
<1>2. PICK r : r = s.run
  OBVIOUS
<1>3. ASSUME r # <<>>, Head(r).count = 0
      PROVE  Head(r).timer \in Ending(r)
  BY <1>1, <1>2, <1>3, PopFacts DEF Ending
<1>4. ASSUME Ending(r) # {}
      PROVE  r # <<>> /\ Head(r).count = 0
  <2>1. PICK j \in Members(r) : EndOf(r, j) = 0
    BY <1>4 DEF Ending
  <2>2. r # <<>>
    <3> SUFFICES ASSUME r = <<>> PROVE FALSE
      OBVIOUS
    <3>1. Len(r) = 0
      OBVIOUS
    <3> QED BY <3>1 DEF Members
  <2>3. Head(r).count <= 0 /\ Head(r) \in Entries(Timer)
    BY <1>1, <1>2, <2>1, <2>2, PopFacts
  <2>4. Head(r).count \in Nat
    BY <2>3 DEF Entries
  <2> QED BY <2>2, <2>3, <2>4
<1> QED BY <1>1, <1>2, <1>3, <1>4 DEF Due, Ending

\* What a round does to the timers.
Round(s, t) ==
  LET i == Head(s.run).timer IN
  /\ Ending(t.run) = Ending(s.run) \ {i}
  /\ \A j \in Timer \ {i} : EndOf(t.run, j) = EndOf(s.run, j)
  /\ EndOf(t.run, i) \in Intervals \cup {0}
  /\ t.queue = IF Len(s.queue) < Limit THEN Append(s.queue, i) ELSE s.queue

\* A round of the scan ends the first timer alone.
LEMMA TimeoutFacts ==
  ASSUME NEW cr, NEW s \in Scanned(cr), Due(s)
  PROVE  Timeout(s) \in Scanned(cr) /\ Round(s, Timeout(s))
<1>1. PICK b \in CBType, r \in Seq(Entries(Timer)), f \in Seq(Timer), q \in Seq(Timer), h \in HandleType :
        s = [cb |-> b, run |-> r, free |-> f, queue |-> q, handle |-> h]
  BY DEF Scanned, Work
<1>2. s.cb = b /\ s.run = r /\ s.free = f /\ s.queue = q /\ s.handle = h
  BY <1>1
<1>3. Sound(b, r, f, h, cr)
  BY <1>2 DEF Scanned
<1>4. Listed(Timer, r) /\ r # <<>> /\ Head(r).count = 0
  BY <1>2, <1>3 DEF Sound, Typed, Due
<1>5. PICK i : i = Head(r).timer
  OBVIOUS
<1>6. /\ i \in Members(r) /\ i \in Ending(r)
      /\ Listed(Timer, Tail(r)) /\ Members(Tail(r)) = Members(r) \ {i}
      /\ \A j \in Members(Tail(r)) : EndOf(Tail(r), j) = EndOf(r, j)
  BY <1>4, <1>5, PopFacts DEF Ending
<1>7. PICK v : v = Tail(r)
  OBVIOUS
<1>8. /\ Listed(Timer, v) /\ Members(v) = Members(r) \ {i}
      /\ EndOf(v, i) = 0
      /\ \A j \in Timer \ {i} : EndOf(v, j) = EndOf(r, j)
  BY <1>4, <1>6, <1>7, EndFacts
<1>9. /\ i \in Timer /\ b[i].state = "TICKING" /\ b[i].interval \in Intervals /\ Unmade(i, cr)
      /\ b[i].mode \in Mode
  BY <1>3, <1>6, CBFacts DEF Sound, Typed, Located, Unmade
<1>10. PICK w : w = IF Len(q) < HandleQueueSize THEN Append(q, i) ELSE q
  OBVIOUS
<1>11. w \in Seq(Timer) /\ w = IF Len(q) < Limit THEN Append(q, i) ELSE q
  BY <1>9, <1>10, LimitType DEF HandleQueueSize
<1>12. PICK t : t = [cb |-> b, run |-> v, free |-> f, queue |-> w, handle |-> h]
  OBVIOUS
<1>13. [s EXCEPT !.run = Tail(@), !.queue = IF Len(@) < HandleQueueSize THEN Append(@, i) ELSE @] = t
  <2>1. [s EXCEPT !.run = v, !.queue = w] = t
    <3>1. PICK u : u = [s EXCEPT !.run = v]
      OBVIOUS
    <3>2. u = [cb |-> b, run |-> v, free |-> f, queue |-> q, handle |-> h]
      BY ONLY <1>1, <3>1
    <3>3. [u EXCEPT !.queue = w] = t
      BY ONLY <1>12, <3>2
    <3> QED BY ONLY <3>1, <3>3
  <2>2. s.run = r /\ s.queue = q /\ v = Tail(r)
    BY <1>2, <1>7
  <2> QED BY ONLY <1>10, <2>1, <2>2
<1>14. ASSUME NEW b1 \in CBType, NEW r1, Listed(Timer, r1), NEW f1 \in Seq(Timer), NEW h1 \in HandleType,
              Sound(b1, r1, f1, h1, cr),
              Ending(r1) = Ending(r) \ {i}, EndOf(r1, i) \in Intervals \cup {0},
              \A j \in Timer \ {i} : EndOf(r1, j) = EndOf(r, j),
              Timeout(s) = [cb |-> b1, run |-> r1, free |-> f1, queue |-> w, handle |-> h1]
       PROVE  Timeout(s) \in Scanned(cr) /\ Round(s, Timeout(s))
  <2>1. r1 \in Seq(Entries(Timer))
    BY <1>14 DEF Listed
  <2>2. Timeout(s) \in Scanned(cr)
    BY <1>11, <1>14, <2>1 DEF Scanned, Work
  <2>3. Round(s, Timeout(s))
    BY <1>2, <1>5, <1>11, <1>14 DEF Round
  <2> QED BY <2>2, <2>3
<1>15. Ending(v) = Ending(r) \ {i}
  BY <1>3, <1>8 DEF Ending, Sound, Located
<1>16. CASE b[i].mode = "ONCE"
  <2>1. PICK b1 : b1 = [b EXCEPT ![i] = [Blank EXCEPT !.id = NextID(b[i].id)]]
    OBVIOUS
  <2>2. PICK h1 : h1 = [c \in Client |-> Aged(h[c], i)]
    OBVIOUS
  <2>3. NextID(b[i].id) \in ID /\ Lapses(i, h, b1, h1)
    BY <1>3, <1>9, <2>1, <2>2, AgedFacts DEF Sound
  <2>4. Frees(i, b, r, b1, v)
    BY <1>8, <1>9, <2>1, <2>3 DEF Frees
  <2>5. PICK f1 : f1 = <<i>> \o f
    OBVIOUS
  <2>6. Sound(b1, v, f1, h1, cr)
    BY ONLY <1>3, <1>9, <2>3, <2>4, <2>5, Freed
  <2>7. Timeout(s) = [t EXCEPT !.free = <<i>> \o @,
                       !.cb[i] = [Blank EXCEPT !.id = NextID(s.cb[i].id)],
                       !.handle = [c \in Client |-> Aged(@[c], i)]]
    BY <1>2, <1>5, <1>13, <1>16 DEF Timeout
  <2>8. Timeout(s) = [cb |-> b1, run |-> v, free |-> f1, queue |-> w, handle |-> h1]
    <3>1. t.free = f /\ t.cb = b /\ t.handle = h /\ s.cb[i].id = b[i].id
      BY <1>2, <1>12
    <3>2. Timeout(s) = [t EXCEPT !.free = f1, !.cb = b1, !.handle = h1]
      BY ONLY <2>1, <2>2, <2>5, <2>7, <3>1
    <3> QED BY ONLY <1>12, <3>2
  <2>9. b1 \in CBType /\ f1 \in Seq(Timer) /\ h1 \in HandleType
    BY <2>6 DEF Sound, Typed
  <2> QED BY <1>8, <1>14, <1>15, <2>6, <2>8, <2>9
<1>17. CASE b[i].mode = "PERIOD"
  <2>1. PICK x : x = b[i].interval
    OBVIOUS
  <2>2. x \in Nat /\ x > 0 /\ x \in Intervals
    <3>1. x \in Intervals
      BY <1>9, <2>1
    <3> QED BY ONLY <3>1, SwtmrAssumption
  <2>3. PICK r1 : r1 = Insert(v, i, x)
    OBVIOUS
  <2>4. r1 = Insert(IF i \in Members(v) THEN Delete(v, i) ELSE v, i, x)
    BY <1>8, <2>3
  <2>5. /\ Listed(Timer, r1) /\ Members(r1) = Members(v) \cup {i}
        /\ \A j \in Timer : EndOf(r1, j) = IF j = i THEN x ELSE EndOf(v, j)
    BY ONLY <1>8, <1>9, <2>2, <2>4, Anew
  <2>6. Moves(i, b, r, b, r1)
    BY <1>6, <1>8, <1>9, <2>5 DEF Moves
  <2>7. Sound(b, r1, f, h, cr)
    BY ONLY <1>3, <1>9, <2>6, Moved
  <2>8. Ending(r1) = Ending(r) \ {i}
    <3>1. Members(v) \subseteq Timer
      BY <1>3, <1>8 DEF Sound, Located
    <3>2. Ending(r1) = Ending(v)
      BY <1>8, <1>9, <2>2, <2>5, <3>1 DEF Ending
    <3> QED BY <1>15, <3>2
  <2>9. Timeout(s) = [t EXCEPT !.run = Insert(@, i, s.cb[i].interval)]
    BY <1>2, <1>5, <1>13, <1>17 DEF Timeout
  <2>10. Timeout(s) = [cb |-> b, run |-> r1, free |-> f, queue |-> w, handle |-> h]
    BY ONLY <1>2, <1>12, <2>1, <2>3, <2>9
  <2>11. EndOf(r1, i) = x /\ \A j \in Timer \ {i} : EndOf(r1, j) = EndOf(r, j)
    BY <1>8, <1>9, <2>5
  <2> QED BY <1>14, <2>2, <2>5, <2>7, <2>8, <2>10, <2>11
<1>18. CASE b[i].mode = "NO_SELFDELETE"
  <2>1. PICK b1 : b1 = [b EXCEPT ![i].state = "CREATED"]
    OBVIOUS
  <2>2. /\ b1 \in CBType /\ \A j \in Timer \ {i} : b1[j] = b[j]
        /\ b1[i].id = b[i].id /\ b1[i].interval = b[i].interval /\ b1[i].state = "CREATED"
    BY ONLY <1>9, <2>1, b \in CBType DEF CBType
  <2>3. Moves(i, b, r, b1, v)
    BY <1>8, <1>9, <2>2 DEF Moves
  <2>4. Sound(b1, v, f, h, cr)
    BY ONLY <1>3, <1>9, <2>3, Moved
  <2>5. Timeout(s) = [t EXCEPT !.cb[i].state = "CREATED"]
    BY <1>2, <1>5, <1>13, <1>18 DEF Timeout
  <2>6. Timeout(s) = [cb |-> b1, run |-> v, free |-> f, queue |-> w, handle |-> h]
    BY ONLY <1>12, <2>1, <2>5
  <2> QED BY <1>8, <1>14, <1>15, <2>2, <2>4, <2>6
<1> QED BY <1>9, <1>16, <1>17, <1>18 DEF Mode

\* What rounds since s have done when the scan works on u: the timers that are no longer ending
\* have had their turn, the others are as they were.
Along(s, u) ==
  LET done == Ending(s.run) \ Ending(u.run) IN
  /\ Ending(u.run) \subseteq Ending(s.run)
  /\ \A j \in Timer \ done : EndOf(u.run, j) = EndOf(s.run, j)
  /\ \A j \in done : EndOf(u.run, j) \in Intervals \cup {0}
  /\ s.queue = <<>> =>
       ToSet(u.queue) = done /\ Len(u.queue) + Cardinality(Ending(u.run)) <= Limit

LEMMA EndingFinite ==
  ASSUME NEW cr, NEW s \in Scanned(cr)
  PROVE  /\ IsFiniteSet(Ending(s.run)) /\ Cardinality(Ending(s.run)) \in Nat
         /\ Cardinality(Ending(s.run)) <= Limit
<1>1. IsFiniteSet(Timer) /\ Cardinality(Timer) = Limit
  <2>1. 0 \in Int /\ Limit - 1 \in Int /\ 0 <= Limit - 1 /\ Limit - 1 - 0 + 1 = Limit
    BY LimitType
  <2> QED BY <2>1, FS_Interval DEF Timer
<1>2. Ending(s.run) \subseteq Timer
  BY DueFacts
<1> QED BY <1>1, <1>2, FS_Subset, FS_CardinalityType

LEMMA AlongStep ==
  ASSUME NEW cr, NEW s \in Scanned(cr), NEW u \in Scanned(cr), Along(s, u), Due(u),
         NEW v \in Scanned(cr), Round(u, v)
  PROVE  /\ Along(s, v)
         /\ Cardinality(Ending(v.run)) = Cardinality(Ending(u.run)) - 1
<1>1. PICK i : i = Head(u.run).timer
  OBVIOUS
<1>2. i \in Ending(u.run) /\ i \in Timer /\ Ending(s.run) \subseteq Timer
  BY <1>1, DueFacts
<1>3. /\ Ending(v.run) = Ending(u.run) \ {i}
      /\ \A j \in Timer \ {i} : EndOf(v.run, j) = EndOf(u.run, j)
      /\ EndOf(v.run, i) \in Intervals \cup {0}
      /\ v.queue = IF Len(u.queue) < Limit THEN Append(u.queue, i) ELSE u.queue
  BY <1>1 DEF Round
<1>4. PICK a, b : a = Cardinality(Ending(u.run)) /\ b = Cardinality(Ending(v.run))
  OBVIOUS
<1>5. a \in Nat /\ b \in Nat /\ b = a - 1
  <2>1. IsFiniteSet(Ending(u.run))
    BY EndingFinite
  <2>2. b = a - 1
    BY ZenonT(60), <1>2, <1>3, <1>4, <2>1, FS_RemoveElement
  <2> QED BY <1>4, <2>2, EndingFinite
<1>6. PICK D, E : D = Ending(s.run) \ Ending(u.run) /\ E = Ending(s.run) \ Ending(v.run)
  OBVIOUS
<1>7. /\ Ending(u.run) \subseteq Ending(s.run)
      /\ \A j \in Timer \ D : EndOf(u.run, j) = EndOf(s.run, j)
      /\ \A j \in D : EndOf(u.run, j) \in Intervals \cup {0}
      /\ s.queue = <<>> => ToSet(u.queue) = D /\ Len(u.queue) + a <= Limit
  BY <1>4, <1>6 DEF Along
<1>8. E = D \cup {i} /\ i \notin D /\ D \subseteq Timer
  BY <1>2, <1>3, <1>6, <1>7
<1>9. ASSUME s.queue = <<>>
      PROVE  ToSet(v.queue) = E /\ Len(v.queue) + b <= Limit
  <2>1. PICK q \in Seq(Timer) : q = u.queue
    BY DEF Scanned, Work
  <2>2. Len(q) \in Nat /\ ToSet(q) = D /\ Len(q) + a <= Limit
    BY <1>7, <1>9, <2>1
  <2>3. v.queue = Append(q, i)
    BY <1>3, <1>5, <2>1, <2>2, LimitType
  <2>4. PICK w : w = Append(q, i)
    OBVIOUS
  <2>5. /\ Len(w) = Len(q) + 1 /\ DOMAIN w = 1 .. Len(q) + 1 /\ w[Len(q) + 1] = i
        /\ \A n \in 1 .. Len(q) : w[n] = q[n]
    BY <1>2, <2>2, <2>4
  <2>6. ToSet(w) = ToSet(q) \cup {i}
    <3>1. ToSet(w) = {w[n] : n \in 1 .. Len(q) + 1} /\ ToSet(q) = {q[n] : n \in 1 .. Len(q)}
      BY <2>1, <2>5 DEF ToSet
    <3>2. \A n \in 1 .. Len(q) + 1 : n = Len(q) + 1 \/ n \in 1 .. Len(q)
      BY <2>2
    <3>3. \A n \in 1 .. Len(q) : n \in 1 .. Len(q) + 1
      BY <2>2
    <3>4. Len(q) + 1 \in 1 .. Len(q) + 1
      BY <2>2
    <3> QED BY <2>5, <3>1, <3>2, <3>3, <3>4
  <2>7. Len(w) + b <= Limit
    BY <1>5, <2>2, <2>5, LimitType
  <2> QED BY <1>8, <2>2, <2>3, <2>4, <2>6, <2>7
<1>10. Ending(v.run) \subseteq Ending(s.run)
  BY <1>3, <1>7
<1>11. \A j \in Timer \ E : EndOf(v.run, j) = EndOf(s.run, j)
  BY <1>3, <1>7, <1>8
<1>12. \A j \in E : EndOf(v.run, j) \in Intervals \cup {0}
  BY <1>3, <1>7, <1>8
<1>13. Along(s, v)
  BY <1>4, <1>6, <1>9, <1>10, <1>11, <1>12 DEF Along
<1> QED BY <1>4, <1>5, <1>13

\* The scan's loop is done after Limit rounds: every timer has ended once, in whatever mode.
LEMMA LoopFacts ==
  ASSUME NEW cr, NEW s \in Scanned(cr), NEW t, t = osSwTmrTimeoutHandle(s)
  PROVE  t \in Scanned(cr) /\ Along(s, t) /\ Ending(t.run) = {}
<1> DEFINE V == Scanned(cr)
           next == [q \in Nat \X V |-> IF Due(q[2]) THEN Timeout(q[2]) ELSE q[2]]
           body(g) == [n \in 0 .. Limit |->
             IF n = 0 THEN s ELSE IF Due(g[n - 1]) THEN Timeout(g[n - 1]) ELSE g[n - 1]]
<1>1. \A u \in V : Due(u) => Timeout(u) \in V /\ Round(u, Timeout(u))
  BY TimeoutFacts
<1>2. next \in [Nat \X V -> V]
  <2>1. \A q \in Nat \X V : q[2] \in V
    OBVIOUS
  <2> HIDE DEF V
  <2> QED BY <1>1, <2>1
<1>3. \A n \in Nat : \A u \in V : next[<<n, u>>] = IF Due(u) THEN Timeout(u) ELSE u
  OBVIOUS
<1>4. PICK f : Recursive(f, V, s, next, Limit)
  <2> HIDE DEF next, V
  <2> QED BY <1>2, s \in V, LimitType, Recursion DEF V
<1> HIDE DEF next
<1>5. f \in [0 .. Limit -> V] /\ \A n \in 0 .. Limit : f[n] = IF n = 0 THEN s ELSE next[<<n, f[n - 1]>>]
  BY <1>4 DEF Recursive
<1>6. \A n \in 0 .. Limit : n # 0 => n - 1 \in 0 .. Limit /\ f[n - 1] \in V /\ n \in Nat
  <2> HIDE DEF V
  <2> QED BY <1>5, LimitType
<1>7. \A n \in 0 .. Limit :
        f[n] = IF n = 0 THEN s ELSE IF Due(f[n - 1]) THEN Timeout(f[n - 1]) ELSE f[n - 1]
  <2> HIDE DEF V
  <2> QED BY <1>3, <1>5, <1>6
<1>8. f = body(f)
  <2> HIDE DEF V
  <2> QED BY <1>5, <1>7
<1>9. PICK after : after = CHOOSE g : g = body(g)
  OBVIOUS
<1>10. after = body(after)
  <2> HIDE DEF body
  <2> QED BY <1>8, <1>9
<1>11. osSwTmrTimeoutHandle(s) = after[Limit]
  BY <1>9 DEF osSwTmrTimeoutHandle
<1>12. \A n \in 0 .. Limit :
        after[n] = IF n = 0 THEN s ELSE IF Due(after[n - 1]) THEN Timeout(after[n - 1]) ELSE after[n - 1]
  BY <1>10
<1> DEFINE E(n) == Cardinality(Ending(after[n].run))
           Fine == {n \in Nat : n <= Limit =>
                     after[n] \in V /\ Along(s, after[n]) /\ E(n) \in Nat /\ E(n) <= Limit - n}
<1> HIDE DEF body, V
<1>13. 0 \in Fine
  <2>1. after[0] = s /\ s \in V
    BY <1>12, LimitType DEF V
  <2>2. E(0) \in Nat /\ E(0) <= Limit
    BY <2>1, EndingFinite
  <2>3. Along(s, s)
    <3>1. ToSet(<<>>) = {} /\ Len(<<>>) = 0
      BY DEF ToSet
    <3>2. s.queue = <<>> => ToSet(s.queue) = {} /\ Len(s.queue) + Cardinality(Ending(s.run)) <= Limit
      BY <2>1, <2>2, <3>1
    <3> QED BY <3>2 DEF Along
  <2> QED BY <2>1, <2>2, <2>3, LimitType
<1>14. ASSUME NEW n \in Fine
       PROVE  n + 1 \in Fine
  <2> SUFFICES ASSUME n + 1 <= Limit
               PROVE  /\ after[n + 1] \in V /\ Along(s, after[n + 1])
                      /\ E(n + 1) \in Nat /\ E(n + 1) <= Limit - (n + 1)
    OBVIOUS
  <2>1. PICK u, v : u = after[n] /\ v = after[n + 1]
    OBVIOUS
  <2>2. n \in Nat /\ n <= Limit /\ n + 1 \in 0 .. Limit /\ n + 1 # 0 /\ n + 1 - 1 = n
    BY LimitType
  <2>3. u \in V /\ Along(s, u) /\ E(n) \in Nat /\ E(n) <= Limit - n
    BY <2>1, <2>2
  <2>4. v = IF Due(u) THEN Timeout(u) ELSE u
    BY <1>12, <2>1, <2>2
  <2>5. CASE Due(u)
    <3>1. v \in V /\ Round(u, v)
      BY <1>1, <2>3, <2>4, <2>5
    <3>2. Along(s, v) /\ E(n + 1) = E(n) - 1
      BY <2>1, <2>3, <2>5, <3>1, AlongStep DEF V
    <3>3. E(n + 1) \in Nat
      BY <2>1, <3>1, EndingFinite DEF V
    <3> HIDE DEF E
    <3> QED BY <2>1, <2>2, <2>3, <3>1, <3>2, <3>3, LimitType
  <2>6. CASE ~Due(u)
    <3>1. v = u /\ Ending(v.run) = {}
      BY <2>3, <2>4, <2>6, DueFacts DEF V
    <3>2. E(n + 1) = 0
      BY <2>1, <3>1, FS_EmptySet
    <3> HIDE DEF E
    <3> QED BY <2>1, <2>2, <2>3, <3>1, <3>2, LimitType
  <2> QED BY <2>5, <2>6
<1>15. Fine = Nat
  <2>1. Fine \in SUBSET Nat
    OBVIOUS
  <2> HIDE DEF Fine
  <2> QED BY <1>13, <1>14, <2>1, AllNumbers
<1>16. t = after[Limit] /\ Limit \in Fine /\ Limit <= Limit
  BY <1>11, <1>15, LimitType
<1>17. t \in V /\ Along(s, t) /\ E(Limit) \in Nat /\ E(Limit) <= Limit - Limit
  BY <1>16
<1>18. Cardinality(Ending(t.run)) = 0
  <2> HIDE DEF Fine
  <2> QED BY <1>16, <1>17, LimitType
<1>19. Ending(t.run) = {}
  BY <1>17, <1>18, EndingFinite, FS_EmptySet DEF V
<1> QED BY <1>17, <1>19 DEF V

\* A tick takes one from the time of every timer that runs; the timers whose last it takes end,
\* or start again.
LEMMA ScanInv ==
  ASSUME IInv, osSwtmrScan
  PROVE  /\ IInv' /\ tick' = 1 - tick
         /\ \A j \in Timer :
              /\ EndOf(run, j) \in Nat
              /\ EndOf(run, j) = 0 => EndOf(run', j) = 0
              /\ EndOf(run, j) = 1 => EndOf(run', j) \in Intervals \cup {0}
              /\ EndOf(run, j) > 1 => EndOf(run', j) = EndOf(run, j) - 1
         /\ queue = <<>> => ToSet(queue') = {j \in Timer : EndOf(run, j) = 1}
<1> USE DEF osSwtmrScan
<1>1. PICK r : r = IF run = <<>> THEN run ELSE [run EXCEPT ![1].count = @ - 1]
  OBVIOUS
<1>2. PICK s : s = [cb |-> cb, run |-> r, free |-> free, queue |-> queue, handle |-> handle]
  OBVIOUS
<1>3. PICK t : t = osSwTmrTimeoutHandle(s)
  OBVIOUS
<1>4. /\ tick' = 1 - tick /\ create' = create
      /\ cb' = t.cb /\ run' = t.run /\ free' = t.free /\ queue' = t.queue /\ handle' = t.handle
  BY <1>1, <1>2, <1>3
<1>5. s.cb = cb /\ s.run = r /\ s.free = free /\ s.queue = queue /\ s.handle = handle
  BY <1>2
<1> HIDE DEF osSwtmrScan
<1>6. /\ Sound(cb, run, free, handle, create) /\ Listed(Timer, run) /\ queue \in Seq(Timer)
      /\ \A j \in Members(run) : EndOf(run, j) > 0 /\ EndOf(run, j) \in Nat
      /\ \A j : j \notin Members(run) => EndOf(run, j) = 0
      /\ Members(run) \subseteq Timer
  BY EndFacts DEF IInv, Sound, Typed, Located
<1>7. /\ Listed(Timer, r) /\ Members(r) = Members(run)
      /\ \A j \in Members(run) : EndOf(r, j) = EndOf(run, j) - 1
  <2>1. CASE run = <<>>
    <3>1. Members(run) = {}
      BY <2>1 DEF Members
    <3> QED BY <1>1, <1>6, <2>1, <3>1
  <2>2. CASE run # <<>>
    <3>1. Head(run).count > 0
      BY <1>6, <2>2, PopFacts
    <3> QED BY <1>1, <1>6, <2>2, <3>1, CountDownFacts
  <2> QED BY <2>1, <2>2
<1>8. s \in Scanned(create)
  <2>1. Sound(cb, r, free, handle, create)
    BY <1>6, <1>7 DEF Sound, Typed, Located
  <2>2. r \in Seq(Entries(Timer))
    BY <1>7 DEF Listed
  <2>3. cb \in CBType /\ free \in Seq(Timer) /\ handle \in HandleType
    BY <1>6 DEF Sound, Typed
  <2>4. s \in Work
    BY <1>2, <1>6, <2>2, <2>3 DEF Work
  <2> QED BY <1>5, <2>1, <2>4 DEF Scanned
<1>9. t \in Scanned(create) /\ Along(s, t) /\ Ending(t.run) = {}
  BY <1>3, <1>8, LoopFacts
<1>10. PICK D : D = Ending(r)
  OBVIOUS
<1>11. D = {j \in Timer : EndOf(run, j) = 1} /\ D \subseteq Members(run)
  BY <1>6, <1>7, <1>10 DEF Ending
<1>12. /\ \A j \in Timer \ D : EndOf(run', j) = EndOf(r, j)
       /\ \A j \in D : EndOf(run', j) \in Intervals \cup {0}
       /\ queue = <<>> => ToSet(queue') = D
  BY <1>4, <1>5, <1>9, <1>10 DEF Along
<1>13. \A j \in Timer : j \notin Members(run) => EndOf(r, j) = 0
  BY <1>7, EndFacts
<1>14. \A j \in Timer :
         /\ EndOf(run, j) \in Nat
         /\ EndOf(run, j) = 0 => EndOf(run', j) = 0
         /\ EndOf(run, j) = 1 => EndOf(run', j) \in Intervals \cup {0}
         /\ EndOf(run, j) > 1 => EndOf(run', j) = EndOf(run, j) - 1
  BY <1>6, <1>7, <1>11, <1>12, <1>13
<1>15. IInv'
  <2>1. /\ Sound(cb', run', free', handle', create') /\ queue' \in Seq(Timer) /\ Ending(run') = {}
    BY <1>4, <1>9 DEF Scanned, Work
  <2>2. \A j \in Members(run') : EndOf(run', j) > 0
    <3>1. Listed(Timer, run')
      BY <2>1 DEF Sound, Typed
    <3>2. \A j \in Members(run') : EndOf(run', j) \in Nat /\ EndOf(run', j) # 0
      BY <2>1, <3>1, EndFacts DEF Ending
    <3> QED BY <3>2
  <2>3. tick' \in {0, 1}
    BY <1>4 DEF IInv
  <2> QED BY <2>1, <2>2, <2>3 DEF IInv
<1> QED BY <1>4, <1>11, <1>12, <1>14, <1>15

LEMMA TaskInv ==
  ASSUME IInv, osSwTmrTask
  PROVE  IInv'
BY DEF IInv, osSwTmrTask

LEMMA StepInv == IInv /\ [Next]_vars => IInv'
<1> SUFFICES ASSUME IInv, [Next]_vars PROVE IInv'
  OBVIOUS
<1>1. CASE osSwtmrScan
  BY <1>1, ScanInv
<1>2. CASE osSwTmrTask
  BY <1>2, TaskInv
<1>3. ASSUME NEW c \in Client, Call(c)
      PROVE  IInv'
  <2>1. CASE CreateTake(c)
    BY <2>1, CreateTakeInv
  <2>2. CASE CreateReturn(c)
    BY <2>2, CreateReturnInv
  <2>3. ASSUME NEW mode \in Mode, NEW interval \in Intervals, CreateFill(c, mode, interval)
        PROVE  IInv'
    BY <2>3, CreateFillInv
  <2>4. ASSUME NEW i \in Timer, LOS_SwtmrStart(c, i)
        PROVE  IInv'
    BY <2>4, StartInv
  <2>5. ASSUME NEW i \in Timer, LOS_SwtmrStop(c, i)
        PROVE  IInv'
    BY <2>5, StopInv
  <2>6. ASSUME NEW i \in Timer, LOS_SwtmrDelete(c, i)
        PROVE  IInv'
    BY <2>6, DeleteInv
  <2> QED BY <1>3, <2>1, <2>2, <2>3, <2>4, <2>5, <2>6 DEF Call
<1>4. CASE UNCHANGED vars
  BY <1>4 DEF vars, IInv
<1> QED BY <1>1, <1>2, <1>3, <1>4 DEF Next

LEMMA Invariance == Spec => []IInv
<1>1. SwtmrInit => IInv
  BY InitInv
<1>2. IInv /\ [Next]_vars => IInv'
  BY StepInv
<1> QED BY <1>1, <1>2, PTL DEF Spec

-----------------------------------------------------------------------------
(* Theorems *)

\* Every block is in one place, the one its state says, with an ID of its own, and no running
\* timer is left with no tick before its end.
THEOREM EveryBlockAccounted == Spec => []BlocksAccounted
<1>1. IInv => BlocksAccounted
  <2> SUFFICES ASSUME IInv PROVE BlocksAccounted
    OBVIOUS
  <2> DEFINE running == [n \in DOMAIN run |-> run[n].timer]
             made(i) == {c \in Client : create[c] = i}
  <2> USE DEF IInv, Sound, Typed, Located
  <2>1. /\ Len(run) \in Nat /\ DOMAIN run = 1 .. Len(run)
        /\ Len(free) \in Nat /\ DOMAIN free = 1 .. Len(free)
    BY EntryType DEF Listed
  <2>2. IsInjective(free) /\ IsInjective(running)
    BY <2>1 DEF IsInjective, Listed
  <2>3. ToSet(running) = {i \in Timer : cb[i].state = "TICKING"}
    <3>1. ToSet(running) = Members(run)
      BY <2>1 DEF ToSet, Members
    <3> QED BY <3>1
  <2>4. \A i : Contains(free, i) <=> i \in Range(free)
    BY <2>1 DEF Contains, Range
  <2>5. ASSUME NEW i \in Timer
        PROVE  /\ Contains(free, i) => cb[i].state = "UNUSED" /\ made(i) = {}
               /\ cb[i].state = "UNUSED" => Contains(free, i) \/ made(i) # {}
               /\ Cardinality(made(i)) <= 1
               /\ cb[i].id \in ID /\ cb[i].id % Limit = i
    <3>1. Contains(free, i) => cb[i].state = "UNUSED" /\ made(i) = {}
      BY <2>4
    <3>2. cb[i].state = "UNUSED" => Contains(free, i) \/ made(i) # {}
      BY <2>4
    <3>3. Cardinality(made(i)) <= 1
      <4>1. i # NoTimer
        BY SwtmrAssumption
      <4>2. CASE made(i) = {}
        <5>1. Cardinality(made(i)) = 0
          BY ONLY <4>2, FS_EmptySet
        <5> QED BY ONLY <5>1
      <4>3. CASE made(i) # {}
        <5>1. PICK c \in Client : create[c] = i
          BY <4>3
        <5>2. made(i) = {c}
          BY <4>1, <5>1
        <5>3. Cardinality(made(i)) = 1
          BY ONLY <5>2, FS_Singleton
        <5> QED BY ONLY <5>3
      <4> QED BY <4>2, <4>3
    <3>4. cb[i].id \in ID /\ cb[i].id % Limit = i
      BY CBFacts DEF Dated
    <3> QED BY <3>1, <3>2, <3>3, <3>4
  <2>6. run # <<>> => Head(run).count > 0
    <3>1. Listed(Timer, run) /\ \A i \in Members(run) : EndOf(run, i) > 0
      BY DEF Sound, Typed, IInv
    <3>2. run # <<>> => /\ Head(run).timer \in Members(run)
                       /\ EndOf(run, Head(run).timer) = Head(run).count
      BY ONLY <3>1, PopFacts
    <3> QED BY ONLY <3>1, <3>2
  <2> QED BY <2>2, <2>3, <2>5, <2>6 DEF BlocksAccounted
<1> QED BY <1>1, Invariance, PTL

\* An ID whose block has expired since is refused, for as many expiries as there are
\* generations.
THEOREM StaleIdsRefused == Spec => []ExpiredIdRefused
<1>1. IInv => ExpiredIdRefused
  <2> SUFFICES ASSUME IInv, NEW c \in Client, handle[c].expired > 0
               PROVE  cb[handle[c].id % Limit].id # handle[c].id
    BY DEF ExpiredIdRefused
  <2>1. handle[c] # NoHandle
    BY DEF NoHandle
  <2>2. PICK i : i = handle[c].id % Limit
    OBVIOUS
  <2>3. CASE cb[i].id = handle[c].id
    <3>1. handle[c].id \in ID
      BY <2>1 DEF IInv, Sound, Typed, HandleType
    <3>2. i \in Timer
      BY <2>2, <3>1, IDOfOne
    <3>3. InUse(handle[c])
      BY <2>1, <2>2, <2>3, <3>2, CheckedFacts DEF IInv
    <3> QED BY <3>3 DEF InUse
  <2> QED BY <2>2, <2>3
<1> QED BY <1>1, Invariance, PTL

\* A tick that finds the queue empty queues the timers that end on it, and no other.
THEOREM EveryCallbackQueued == Spec => CallbackQueued
<1>1. IInv /\ [Next]_vars =>
        [tick' # tick /\ queue = <<>> => ToSet(queue') = {i \in Timer : TimeLeft[i] = 1}]_vars
  <2> SUFFICES ASSUME IInv, Next, tick' # tick, queue = <<>>
               PROVE  ToSet(queue') = {i \in Timer : TimeLeft[i] = 1}
    BY SMTT(60)
  <2>1. osSwtmrScan
    BY DEF Next, osSwTmrTask, Call, CreateTake, CreateReturn, CreateFill, LOS_SwtmrStart,
           LOS_SwtmrStop, LOS_SwtmrDelete
  <2>2. ToSet(queue') = {j \in Timer : EndOf(run, j) = 1}
    BY <2>1, ScanInv
  <2>3. \A j \in Timer : TimeLeft[j] = EndOf(run, j)
    BY DEF TimeLeft, EndOf
  <2> QED BY <2>2, <2>3
<1> QED BY <1>1, Invariance, PTL DEF Spec, CallbackQueued

\* The list is a countdown for every timer: the routines that work on it arm and disarm the one
\* they are called for, and the scan is a tick.
THEOREM TimersCountDown == Spec => ImplementsCountdown
<1>1. \A j \in Timer : TimeLeft[j] = EndOf(run, j)
  BY DEF TimeLeft, EndOf
<1>2. DOMAIN TimeLeft = Timer /\ TimeLeft = [j \in Timer |-> EndOf(run, j)]
  BY DEF TimeLeft, EndOf
<1>3. SwtmrInit => Timed!Init
  <2> SUFFICES ASSUME SwtmrInit PROVE Timed!Init
    OBVIOUS
  <2>1. Listed(Timer, run) /\ Members(run) = {}
    BY InitInv DEF IInv, Sound, Typed, SwtmrInit, Members
  <2>2. \A j \in Timer : EndOf(run, j) = 0
    BY <2>1, EndFacts
  <2> QED BY <1>2, <2>2 DEF Timed!Init, SwtmrInit
<1>4. IInv /\ [Next]_vars => [Timed!Next]_<<TimeLeft, tick>>
  <2> SUFFICES ASSUME IInv, [Next]_vars PROVE [Timed!Next]_<<TimeLeft, tick>>
    OBVIOUS
  <2>1. TimeLeft' = [j \in Timer |-> EndOf(run', j)]
    BY DEF TimeLeft, EndOf
  <2>2. CASE osSwtmrScan
    <3>1. PICK again : again = [j \in {j \in Timer : TimeLeft[j] = 1} |-> EndOf(run', j)]
      OBVIOUS
    <3>2. /\ tick' = 1 - tick
          /\ \A j \in Timer :
              /\ EndOf(run, j) \in Nat
              /\ EndOf(run, j) = 0 => EndOf(run', j) = 0
              /\ EndOf(run, j) = 1 => EndOf(run', j) \in Intervals \cup {0}
              /\ EndOf(run, j) > 1 => EndOf(run', j) = EndOf(run, j) - 1
      BY <2>2, ScanInv
    <3>3. again \in [{j \in Timer : TimeLeft[j] = 1} -> Intervals \cup {0}]
      BY <1>1, <3>1, <3>2
    <3>4. ASSUME NEW j \in Timer
          PROVE  EndOf(run', j) = IF TimeLeft[j] = 1 THEN again[j]
                                 ELSE IF TimeLeft[j] = 0 THEN 0 ELSE TimeLeft[j] - 1
      BY <1>1, <3>1, <3>2
    <3>5. TimeLeft' = [j \in Timer |-> IF TimeLeft[j] = 1 THEN again[j]
                                      ELSE IF TimeLeft[j] = 0 THEN 0 ELSE TimeLeft[j] - 1]
      BY <2>1, <3>4
    <3>6. Timed!Tick
      BY <3>2, <3>3, <3>5 DEF Timed!Tick
    <3> QED BY <3>6 DEF Timed!Next
  <2>3. ASSUME NEW c \in Client, NEW i \in Timer, LOS_SwtmrStart(c, i)
        PROVE  Timed!Next
    <3>1. PICK x \in Intervals : x = cb[i].interval
      BY <2>3, StartInv
    <3>2. \A j \in Timer : EndOf(run', j) = IF j = i THEN x ELSE EndOf(run, j)
      BY <2>3, <3>1, StartInv
    <3>3. TimeLeft' = [TimeLeft EXCEPT ![i] = x]
      BY <1>1, <1>2, <2>1, <3>2
    <3>4. Timed!Arm(i, x)
      BY <2>3, <3>3 DEF Timed!Arm, LOS_SwtmrStart
    <3> QED BY <3>4 DEF Timed!Next
  <2>4. ASSUME NEW c \in Client, NEW i \in Timer, LOS_SwtmrStop(c, i) \/ LOS_SwtmrDelete(c, i)
        PROVE  Timed!Next \/ UNCHANGED <<TimeLeft, tick>>
    <3>1. \A j \in Timer : EndOf(run', j) = IF j = i THEN 0 ELSE EndOf(run, j)
      BY <2>4, StopInv, DeleteInv
    <3>2. TimeLeft' = [TimeLeft EXCEPT ![i] = 0] /\ UNCHANGED tick
      BY <1>1, <1>2, <2>1, <2>4, <3>1 DEF LOS_SwtmrStop, LOS_SwtmrDelete
    <3>3. TimeLeft[i] \in Nat
      BY <1>1, EndFacts DEF IInv, Sound, Typed
    <3>4. CASE TimeLeft[i] > 0
      BY <3>2, <3>4 DEF Timed!Next, Timed!Disarm
    <3>5. CASE TimeLeft[i] = 0
      BY <1>2, <3>2, <3>5
    <3> QED BY <3>3, <3>4, <3>5
  <2>5. CASE UNCHANGED <<run, tick>>
    BY <1>2, <2>1, <2>5
  <2>6. \/ osSwtmrScan \/ UNCHANGED <<run, tick>>
        \/ \E c \in Client, i \in Timer :
             LOS_SwtmrStart(c, i) \/ LOS_SwtmrStop(c, i) \/ LOS_SwtmrDelete(c, i)
    BY DEF Next, Call, osSwTmrTask, CreateTake, CreateReturn, CreateFill, vars
  <2> QED BY <2>2, <2>3, <2>4, <2>5, <2>6
<1> QED BY <1>3, <1>4, Invariance, PTL DEF Spec, ImplementsCountdown, Timed!Spec
=============================================================================
