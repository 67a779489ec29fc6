---------------------------- MODULE AtFrameProofs ----------------------------
(***************************************************************************)
(* What the AT framework guarantees for every number of clients and        *)
(* whatever the modem says.                                                *)
(***************************************************************************)
EXTENDS AtFrame, SequenceTheorems, WellFoundedInduction, TLAPS

-----------------------------------------------------------------------------
(* The invariant *)

ClientPC ==
  {"idle", "wait_trx", "send", "pend", "wait", "write", "pend2", "wait2", "delist", "return"}

Listeners ==
  [who : Client \cup {Recv}, text : {"PROMPT", "RESULT", "DATA"}, expired : BOOLEAN]

TypeOK ==
  /\ pc \in [Client -> ClientPC]
  /\ trx \in [owner : Client \cup {Recv, NoOne}, count : Nat, waiters : Seq(Client)]
  /\ list \in Seq(Listeners)
  /\ failed \in Nat

Outside == {"idle", "wait_trx"}

\* A client owns trx_mux in its call and nowhere else, and those that wait for it wait once.
TrxOwned ==
  /\ \A c \in Client : trx.owner = c <=> pc[c] \notin Outside
  /\ trx.owner \in Client => trx.count = 1
  /\ trx.owner = NoOne => trx.count = 0
  /\ \A n \in 1 .. Len(trx.waiters) : pc[trx.waiters[n]] = "wait_trx"
  /\ \A m, n \in 1 .. Len(trx.waiters) : trx.waiters[m] = trx.waiters[n] => m = n

\* The listener of a client is on the list during its call and alone, and never expires; those
\* of callbacks are there for as many times as the receive task owns trx_mux, but for those that
\* got no listener: once there is one of these the receive task owns trx_mux for good.
Listening ==
  /\ \A c \in Client : InCall(c) => Len(list) = 1 /\ list[1].who = c
  /\ \A n \in 1 .. Len(list) :
       IF list[n].who = Recv THEN trx.owner = Recv
       ELSE trx.owner = list[n].who /\ InCall(list[n].who) /\ ~list[n].expired
  /\ trx.owner = Recv => trx.count = Len(list) + failed /\ trx.count > 0
  /\ failed > 0 => trx.owner = Recv

IInv == TypeOK /\ TrxOwned /\ Listening

-----------------------------------------------------------------------------
(* The removal of expired listeners *)

\* A set of numbers that has 0 and with each number the next has them all.
LEMMA AllNumbers ==
  ASSUME NEW S \in SUBSET Nat, 0 \in S, \A n \in S : n + 1 \in S
  PROVE  S = Nat
<1> DEFINE R == OpToRel(<, Nat)
           Others == Nat \ S
<1>1. IsWellFoundedOn(R, Nat)
  BY NatLessThanWellFounded
<1>2. \A p, q \in Nat : <<q, p>> \in R <=> q < p
  BY DEF OpToRel
<1> HIDE DEF R
<1> SUFFICES ASSUME Others # {} PROVE FALSE
  OBVIOUS
<1>3. Others \subseteq Nat
  OBVIOUS
<1>4. PICK p \in Others : \A q \in Others : <<q, p>> \notin R
  BY <1>1, <1>3, WFMin
<1>5. p \in Nat /\ p # 0 /\ p - 1 \in Nat /\ p - 1 < p
  OBVIOUS
<1>6. p - 1 \notin Others
  BY <1>2, <1>4, <1>5
<1>7. p - 1 \in S
  BY <1>5, <1>6
<1>8. p - 1 + 1 \in S
  BY <1>7
<1> QED BY <1>5, <1>8

\* f is defined on 0 .. m by its value at 0 and a step from each value to the next.
Recursive(f, V, base, next, m) ==
  /\ f \in [0 .. m -> V]
  /\ \A n \in 0 .. m : f[n] = IF n = 0 THEN base ELSE next[<<n, f[n - 1]>>]

\* There is such a function.
LEMMA Recursion ==
  ASSUME NEW V, NEW base \in V, NEW next \in [Nat \X V -> V], NEW m \in Nat
  PROVE  \E f : Recursive(f, V, base, next, m)
<1> DEFINE Solves(f, j) == Recursive(f, V, base, next, j)
           Solved == {j \in Nat : \E f : Solves(f, j)}
<1> USE DEF Recursive
<1>1. 0 \in Solved
  <2> DEFINE f == [n \in 0 .. 0 |-> base]
  <2>1. Solves(f, 0)
    OBVIOUS
  <2> QED BY <2>1
<1>2. ASSUME NEW j \in Solved
      PROVE  j + 1 \in Solved
  <2>1. PICK f : Solves(f, j)
    OBVIOUS
  <2>2. j \in Nat /\ j \in 0 .. j /\ f[j] \in V
    BY <2>1
  <2>3. next[<<j + 1, f[j]>>] \in V
    BY <2>2
  <2> DEFINE g == [n \in 0 .. j + 1 |-> IF n = j + 1 THEN next[<<j + 1, f[j]>>] ELSE f[n]]
  <2>4. \A n \in 0 .. j : n \in 0 .. j + 1 /\ n # j + 1 /\ f[n] \in V
    BY <2>1, <2>2
  <2>5. g \in [0 .. j + 1 -> V]
    <3>1. \A n \in 0 .. j + 1 : n # j + 1 => n \in 0 .. j
      BY <2>2
    <3> QED BY <2>3, <2>4, <3>1
  <2>6. (\A n \in 0 .. j : g[n] = f[n]) /\ g[j + 1] = next[<<j + 1, f[j]>>]
    BY <2>2, <2>4
  <2> HIDE DEF g
  <2>7. ASSUME NEW n \in 0 .. j + 1
        PROVE  g[n] = IF n = 0 THEN base ELSE next[<<n, g[n - 1]>>]
    <3>1. CASE n = j + 1
      <4>1. n # 0 /\ n - 1 = j
        BY <2>2, <3>1
      <4> QED BY <2>2, <2>6, <3>1, <4>1
    <3>2. CASE n # j + 1
      <4>1. n \in 0 .. j /\ (n # 0 => n - 1 \in 0 .. j)
        BY <2>2, <3>2
      <4> QED BY <2>1, <2>6, <4>1
    <3> QED BY <3>1, <3>2
  <2>8. Solves(g, j + 1)
    BY <2>5, <2>7
  <2> QED BY <2>2, <2>8
<1>3. Solved = Nat
  <2>1. Solved \in SUBSET Nat
    OBVIOUS
  <2> HIDE DEF Solved
  <2> QED BY <1>1, <1>2, <2>1, AllNumbers
<1>4. m \in Solved
  BY <1>3
<1>5. PICK f : Solves(f, m)
  BY <1>4
<1> QED BY <1>5

\* What at_rm_timeout_nodes has kept of the first n listeners.
LEMMA KeptFacts ==
  ASSUME list \in Seq(Listeners)
  PROVE  /\ Kept[0] = <<>>
         /\ \A n \in 1 .. Len(list) :
              Kept[n] = IF list[n].expired THEN Kept[n - 1] ELSE Append(Kept[n - 1], list[n])
         /\ \A n \in 0 .. Len(list) :
              /\ Kept[n] \in Seq(Listeners) /\ Len(Kept[n]) <= n
              /\ \A m \in 1 .. Len(Kept[n]) : \E j \in 1 .. Len(list) : Kept[n][m] = list[j]
<1> DEFINE V == Seq(Listeners)
           L == Len(list)
           next == [q \in Nat \X V |->
                      IF q[1] \in 1 .. L /\ ~list[q[1]].expired
                      THEN Append(q[2], list[q[1]]) ELSE q[2]]
<1>1. L \in Nat /\ <<>> \in V /\ \A n \in 1 .. L : list[n] \in Listeners
  OBVIOUS
<1>2. next \in [Nat \X V -> V]
  BY <1>1
<1>3. \A n \in 1 .. L : \A s \in V :
        next[<<n, s>>] = IF list[n].expired THEN s ELSE Append(s, list[n])
  BY <1>1
<1> HIDE DEF next
<1>4. PICK f : Recursive(f, V, <<>>, next, L)
  <2> HIDE DEF V, L
  <2> QED BY <1>1, <1>2, Recursion
<1>15. /\ f \in [0 .. L -> V]
      /\ \A n \in 0 .. L : f[n] = IF n = 0 THEN <<>> ELSE next[<<n, f[n - 1]>>]
  BY <1>4 DEF Recursive
<1> DEFINE body(g) == [n \in 0 .. L |->
             IF n = 0 THEN <<>>
             ELSE IF list[n].expired THEN g[n - 1] ELSE Append(g[n - 1], list[n])]
<1>5. f = body(f)
  <2>1. \A n \in 0 .. L : n # 0 => n \in 1 .. L /\ n - 1 \in 0 .. L /\ f[n - 1] \in V
    BY <1>1, <1>15
  <2>2. \A n \in 0 .. L : f[n] = IF n = 0 THEN <<>>
             ELSE IF list[n].expired THEN f[n - 1] ELSE Append(f[n - 1], list[n])
    BY <1>3, <1>15, <2>1
  <2> QED BY <1>15, <2>2
<1>6. Kept = CHOOSE g : g = body(g)
  BY DEF Kept
<1>7. Kept = body(Kept)
  <2> HIDE DEF body
  <2> QED BY <1>5, <1>6
<1>8. \A n \in 0 .. L : Kept[n] = IF n = 0 THEN <<>>
        ELSE IF list[n].expired THEN Kept[n - 1] ELSE Append(Kept[n - 1], list[n])
  BY <1>7
<1>9. \A n \in 1 .. L :
        Kept[n] = IF list[n].expired THEN Kept[n - 1] ELSE Append(Kept[n - 1], list[n])
  BY <1>8
<1>10. Kept[0] = <<>>
  BY <1>1, <1>8
<1> DEFINE Good(n) ==
             /\ Kept[n] \in Seq(Listeners) /\ Len(Kept[n]) <= n
             /\ \A m \in 1 .. Len(Kept[n]) : \E j \in 1 .. Len(list) : Kept[n][m] = list[j]
           Fine == {n \in Nat : n <= L => Good(n)}
<1>11. 0 \in Fine
  <2>1. Kept[0] \in Seq(Listeners) /\ Len(Kept[0]) = 0
    BY <1>10
  <2> QED BY <2>1
<1>12. ASSUME NEW n \in Fine
       PROVE  n + 1 \in Fine
  <2> SUFFICES ASSUME n + 1 <= L PROVE Good(n + 1)
    <3> HIDE DEF Good
    <3> QED OBVIOUS
  <2>1. n \in Nat /\ n + 1 \in 1 .. L /\ n + 1 - 1 = n /\ Good(n)
    BY <1>1
  <2>2. PICK s \in Seq(Listeners) : s = Kept[n]
    BY <2>1
  <2>3. Kept[n + 1] = IF list[n + 1].expired THEN s ELSE Append(s, list[n + 1])
    BY <1>9, <2>1, <2>2
  <2>4. CASE list[n + 1].expired
    BY <2>1, <2>2, <2>3, <2>4
  <2>5. CASE ~list[n + 1].expired
    <3>1. PICK t : t = Append(s, list[n + 1])
      OBVIOUS
    <3>2. /\ t \in Seq(Listeners) /\ Len(t) = Len(s) + 1
          /\ \A m \in 1 .. Len(t) : t[m] = IF m <= Len(s) THEN s[m] ELSE list[n + 1]
      BY <1>1, <2>1, <3>1
    <3>3. \A m \in 1 .. Len(t) : m <= Len(s) => m \in 1 .. Len(s)
      BY <3>2
    <3> QED BY <2>1, <2>2, <2>3, <2>5, <3>1, <3>2, <3>3
  <2> QED BY <2>4, <2>5
<1>13. Fine = Nat
  <2>1. Fine \in SUBSET Nat
    OBVIOUS
  <2> HIDE DEF Fine
  <2> QED BY <1>11, <1>12, <2>1, AllNumbers
<1>14. \A n \in 0 .. Len(list) : Good(n)
  <2>1. \A n \in 0 .. L : n \in Fine /\ n <= L
    BY <1>1, <1>13
  <2> QED BY <2>1
<1> QED BY <1>9, <1>10, <1>14

-----------------------------------------------------------------------------
(* trx_mux and the list *)

LEMMA ClientApart == Recv \notin Client /\ NoOne \notin Client /\ NoOne # Recv
BY AtAssumption

\* LOS_MuxPost by the last owner, when no client is in its call and nobody listens: trx_mux
\* is free, or belongs to the client that waited longest.
LEMMA HandedOver ==
  ASSUME TypeOK, TrxOwned, list' = <<>>, failed = 0, UNCHANGED failed,
         NEW pcs \in [Client -> ClientPC],
         \A c \in Client : pcs[c] \in Outside,
         \A n \in 1 .. Len(trx.waiters) : pcs[trx.waiters[n]] = "wait_trx",
         IF trx.waiters = <<>>
         THEN trx' = [trx EXCEPT !.owner = NoOne, !.count = 0] /\ pc' = pcs
         ELSE /\ trx' = [owner |-> Head(trx.waiters), count |-> 1, waiters |-> Tail(trx.waiters)]
              /\ pc' = [pcs EXCEPT ![Head(trx.waiters)] = "send"]
  PROVE  IInv'
<1>1. /\ trx.waiters \in Seq(Client) /\ list' \in Seq(Listeners) /\ Len(list') = 0
      /\ trx \in [owner : Client \cup {Recv, NoOne}, count : Nat, waiters : Seq(Client)]
  BY DEF TypeOK
<1>2. CASE trx.waiters = <<>>
  <2>1. /\ trx' \in [owner : Client \cup {Recv, NoOne}, count : Nat, waiters : Seq(Client)]
        /\ trx'.owner = NoOne /\ trx'.count = 0 /\ trx'.waiters = <<>> /\ pc' = pcs
    <3>1. trx' = [trx EXCEPT !.owner = NoOne, !.count = 0] /\ pc' = pcs
      BY <1>2
    <3>2. /\ trx' \in [owner : Client \cup {Recv, NoOne}, count : Nat, waiters : Seq(Client)]
          /\ trx'.owner = NoOne /\ trx'.count = 0 /\ trx'.waiters = trx.waiters
      BY ONLY <1>1, <3>1
    <3> QED BY <1>2, <3>1, <3>2
  <2> QED BY <1>1, <2>1, ClientApart DEF IInv, TypeOK, TrxOwned, Listening, InCall, Outside
<1>3. CASE trx.waiters # <<>>
  <2>1. PICK w, h, t : w = trx.waiters /\ h = Head(w) /\ t = Tail(w)
    OBVIOUS
  <2>2. /\ h \in Client /\ t \in Seq(Client) /\ Len(t) = Len(w) - 1 /\ Len(w) \in Nat /\ h = w[1]
        /\ \A n \in 1 .. Len(t) : t[n] = w[n + 1] /\ n + 1 \in 1 .. Len(w) /\ n + 1 # 1
        /\ 1 \in 1 .. Len(w)
    BY <1>1, <1>3, <2>1
  <2>3. /\ trx'.owner = h /\ trx'.count = 1 /\ trx'.waiters = t
        /\ trx' \in [owner : Client \cup {Recv, NoOne}, count : Nat, waiters : Seq(Client)]
        /\ pc' = [pcs EXCEPT ![h] = "send"]
    <3>1. trx' = [owner |-> h, count |-> 1, waiters |-> t] /\ pc' = [pcs EXCEPT ![h] = "send"]
      BY <1>3, <2>1
    <3> QED BY ONLY <2>2, <3>1
  <2>4. /\ pc' \in [Client -> ClientPC] /\ pc'[h] = "send"
        /\ \A c \in Client : c # h => pc'[c] = pcs[c]
    BY <2>2, <2>3 DEF ClientPC
  <2>5. /\ \A m, n \in 1 .. Len(w) : w[m] = w[n] => m = n
        /\ \A n \in 1 .. Len(w) : pcs[w[n]] = "wait_trx" /\ w[n] \in Client
    BY <1>1, <2>1 DEF TrxOwned
  <2>6. \A n \in 1 .. Len(t) : t[n] # h /\ t[n] \in Client /\ pc'[t[n]] = "wait_trx"
    BY <2>2, <2>4, <2>5
  <2>7. \A m, n \in 1 .. Len(t) : t[m] = t[n] => m = n
    BY <2>2, <2>5
  <2>8. TrxOwned'
    <3>1. \A c \in Client : h = c <=> pc'[c] \notin Outside
      BY <2>4 DEF Outside
    <3> QED BY <2>2, <2>3, <2>6, <2>7, <3>1, ClientApart DEF TrxOwned
  <2>9. Listening'
    BY <1>1, <2>2, <2>3, <2>4, ClientApart DEF Listening, InCall, Outside
  <2> QED BY <1>1, <2>3, <2>4, <2>8, <2>9 DEF IInv, TypeOK
<1> QED BY <1>2, <1>3

\* A step that leaves the mutex, the list and the clients alone.
LEMMA Untouched ==
  ASSUME IInv, UNCHANGED <<pc, trx, list, failed>>
  PROVE  IInv'
BY DEF IInv, TypeOK, TrxOwned, Listening, InCall

LEMMA ListenerType ==
  ASSUME IInv
  PROVE  /\ Len(list) \in Nat
         /\ \A n \in 1 .. Len(list) : list[n] \in Listeners /\ list[n].who \in Client \cup {Recv}
<1>1. Len(list) \in Nat /\ \A n \in 1 .. Len(list) : list[n] \in Listeners
  BY DEF IInv, TypeOK
<1>2. \A l \in Listeners : l.who \in Client \cup {Recv}
  BY DEF Listeners
<1> QED BY <1>1, <1>2

\* While somebody else has trx_mux, every callback has got its listener.
LEMMA NoneFailed ==
  ASSUME IInv, trx.owner # Recv
  PROVE  failed = 0
BY DEF IInv, TypeOK, Listening

\* A client that goes on inside its call.
LEMMA GoesOn ==
  ASSUME IInv, NEW c \in Client, InCall(c), NEW at, Goto(c, at), UNCHANGED <<trx, list, failed>>,
         at \in {"pend", "wait", "write", "pend2", "wait2", "delist"}
  PROVE  IInv'
<1>1. /\ pc' \in [Client -> ClientPC] /\ pc'[c] = at
      /\ \A d \in Client : d # c => pc'[d] = pc[d]
  BY DEF IInv, TypeOK, Goto, ClientPC
<1>2. pc[c] \notin Outside /\ pc'[c] \notin Outside /\ pc[c] # "wait_trx"
  BY <1>1 DEF InCall, Outside
<1>3. \A d \in Client : (pc'[d] \in Outside <=> pc[d] \in Outside)
                     /\ (pc'[d] = "wait_trx" <=> pc[d] = "wait_trx")
                     /\ (InCall(d) <=> InCall(d)')
  BY <1>1, <1>2 DEF InCall, Outside
<1>4. TrxOwned'
  <2>1. \A n \in 1 .. Len(trx.waiters) : trx.waiters[n] \in Client
    BY DEF IInv, TypeOK
  <2> QED BY <1>3, <2>1 DEF IInv, TrxOwned
<1>5. Listening'
  <2>1. \A n \in 1 .. Len(list) : list[n].who \in Client \cup {Recv}
    BY ListenerType
  <2> QED BY <1>3, <2>1 DEF IInv, Listening
<1> QED BY <1>1, <1>4, <1>5 DEF IInv, TypeOK

-----------------------------------------------------------------------------
(* The clients' steps *)

\* The call takes trx_mux if nobody has it, or gets into the queue for it.
LEMMA BeginInv ==
  ASSUME IInv, NEW c \in Client, NEW what, Begin(c, what)
  PROVE  IInv'
<1>1. pc[c] = "idle" /\ UNCHANGED <<list, failed>> /\ Outside = {"idle", "wait_trx"}
  BY DEF Begin, Outside, recvVars
<1>2. /\ trx.owner # c /\ trx.waiters \in Seq(Client) /\ pc \in [Client -> ClientPC]
      /\ trx \in [owner : Client \cup {Recv, NoOne}, count : Nat, waiters : Seq(Client)]
      /\ \A n \in 1 .. Len(trx.waiters) : trx.waiters[n] # c /\ trx.waiters[n] \in Client
  BY <1>1 DEF IInv, TypeOK, TrxOwned
<1>3. CASE trx.owner = NoOne
  <2>1. trx' = [trx EXCEPT !.owner = c, !.count = 1] /\ Goto(c, "send")
    BY <1>3 DEF Begin
  <2>2. /\ trx'.owner = c /\ trx'.count = 1 /\ trx'.waiters = trx.waiters
        /\ trx' \in [owner : Client \cup {Recv, NoOne}, count : Nat, waiters : Seq(Client)]
    BY ONLY <1>2, <2>1
  <2>3. /\ pc' \in [Client -> ClientPC] /\ pc'[c] = "send"
        /\ \A d \in Client : d # c => pc'[d] = pc[d]
    BY <1>2, <2>1 DEF Goto, ClientPC
  <2>4. \A d \in Client : c = d <=> pc'[d] \notin Outside
    BY <1>3, <2>3, ClientApart DEF IInv, TrxOwned, Outside
  <2>5. TrxOwned'
    BY <1>2, <2>2, <2>3, <2>4, ClientApart DEF IInv, TrxOwned
  <2>6. \A n \in 1 .. Len(list) : FALSE
    BY <1>3, ListenerType, ClientApart DEF IInv, Listening
  <2>7. \A d \in Client : ~InCall(d)'
    <3>1. \A d \in Client : InCall(d) => pc[d] \notin Outside
      BY DEF InCall, Outside
    <3>2. \A d \in Client : d # c => pc[d] \in Outside
      BY <1>3, ClientApart DEF IInv, TrxOwned
    <3>3. \A d \in Client : InCall(d)' => pc'[d] \in ClientPC \ (Outside \cup {"send"})
      BY DEF InCall, Outside, ClientPC
    <3> QED BY <2>3, <3>2, <3>3
  <2>8. Listening'
    BY <1>1, <1>3, <2>2, <2>6, <2>7, ClientApart, NoneFailed DEF Listening
  <2> QED BY <1>1, <2>2, <2>3, <2>5, <2>8 DEF IInv, TypeOK
<1>4. CASE trx.owner # NoOne
  <2>1. trx' = [trx EXCEPT !.waiters = Append(@, c)] /\ Goto(c, "wait_trx")
    BY <1>4 DEF Begin
  <2>2. PICK w, v : w = trx.waiters /\ v = Append(w, c)
    OBVIOUS
  <2>3. /\ trx'.owner = trx.owner /\ trx'.count = trx.count /\ trx'.waiters = v /\ v \in Seq(Client)
        /\ trx' \in [owner : Client \cup {Recv, NoOne}, count : Nat, waiters : Seq(Client)]
    <3>1. v \in Seq(Client) /\ trx' = [trx EXCEPT !.waiters = v]
      BY <1>2, <2>1, <2>2
    <3> QED BY ONLY <1>2, <3>1
  <2>4. /\ pc' \in [Client -> ClientPC] /\ pc'[c] = "wait_trx"
        /\ \A d \in Client : d # c => pc'[d] = pc[d]
    BY <1>2, <2>1 DEF Goto, ClientPC
  <2>5. /\ Len(v) = Len(w) + 1 /\ Len(w) \in Nat /\ v[Len(v)] = c
        /\ \A n \in 1 .. Len(v) : n # Len(v) => n \in 1 .. Len(w) /\ v[n] = w[n]
    BY <1>2, <2>2
  <2>6. \A n \in 1 .. Len(v) : pc'[v[n]] = "wait_trx"
    BY <1>2, <2>2, <2>4, <2>5 DEF IInv, TrxOwned
  <2>7. \A m, n \in 1 .. Len(v) : v[m] = v[n] => m = n
    BY <1>2, <2>2, <2>5 DEF IInv, TrxOwned
  <2>8. \A d \in Client : (pc'[d] \in Outside <=> pc[d] \in Outside) /\ (InCall(d)' <=> InCall(d))
    BY <1>1, <2>4 DEF InCall, Outside
  <2>9. TrxOwned'
    <3>1. \A d \in Client : trx.owner = d <=> pc'[d] \notin Outside
      BY <2>8 DEF IInv, TrxOwned
    <3> QED BY <1>4, <2>3, <2>6, <2>7, <3>1 DEF IInv, TrxOwned
  <2>10. Listening'
    <3>1. \A n \in 1 .. Len(list) :
            IF list[n].who = Recv THEN trx.owner = Recv
            ELSE trx.owner = list[n].who /\ InCall(list[n].who)' /\ ~list[n].expired
      <4>1. \A n \in 1 .. Len(list) : list[n].who # Recv => list[n].who \in Client
        BY ListenerType
      <4> QED BY <1>1, <2>8, <4>1 DEF IInv, Listening
    <3>2. \A d \in Client : InCall(d)' => Len(list) = 1 /\ list[1].who = d
      BY <2>8 DEF IInv, Listening
    <3>3. /\ trx.owner = Recv => trx.count = Len(list) + failed /\ trx.count > 0
          /\ failed > 0 => trx.owner = Recv
      BY DEF IInv, Listening
    <3> QED BY <1>1, <2>3, <3>1, <3>2, <3>3 DEF Listening
  <2> QED BY <1>1, <2>3, <2>4, <2>9, <2>10 DEF IInv, TypeOK
<1> QED BY <1>3, <1>4

\* A client that has trx_mux and is not listening yet finds nobody listening.
LEMMA NobodyListens ==
  ASSUME IInv, NEW c \in Client, pc[c] \notin Outside, ~InCall(c)
  PROVE  list = <<>> /\ trx.owner = c /\ trx.count = 1
<1>1. trx.owner = c /\ trx.count = 1
  BY DEF IInv, TrxOwned
<1>2. \A n \in 1 .. Len(list) : FALSE
  BY <1>1, ListenerType, ClientApart DEF IInv, Listening
<1>3. list \in Seq(Listeners) /\ Len(list) = 0
  BY <1>2, ListenerType DEF IInv, TypeOK
<1> QED BY <1>1, <1>3

\* The listener of a client alone on the list.
LEMMA ListensAlone ==
  ASSUME IInv, NEW c \in Client, pc[c] \notin Outside,
         NEW at \in {"pend", "pend2"}, Goto(c, at), UNCHANGED <<trx, failed>>,
         NEW text \in {"PROMPT", "RESULT"}, list' = Append(<<>>, Listener(c, text))
  PROVE  IInv'
<1>1. /\ trx.owner = c /\ trx.count = 1
  BY DEF IInv, TrxOwned
<1>2. /\ pc' \in [Client -> ClientPC] /\ pc'[c] = at
      /\ \A d \in Client : d # c => pc'[d] = pc[d]
  BY DEF IInv, TypeOK, Goto, ClientPC
<1>3. /\ Listener(c, text) \in Listeners /\ Listener(c, text).who = c
      /\ Listener(c, text).expired = FALSE
  BY DEF Listener, Listeners
<1>4. list' \in Seq(Listeners) /\ Len(list') = 1 /\ list'[1] = Listener(c, text)
  BY <1>3
<1>5. pc'[c] \notin Outside /\ InCall(c)'
  BY <1>2 DEF InCall, Outside
<1>6. \A d \in Client : d # c => pc'[d] = pc[d] /\ pc[d] \in Outside /\ ~InCall(d)'
  BY <1>1, <1>2 DEF IInv, TrxOwned, InCall, Outside
<1>7. TrxOwned'
  <2>1. \A n \in 1 .. Len(trx.waiters) : trx.waiters[n] \in Client /\ pc[trx.waiters[n]] = "wait_trx"
    BY DEF IInv, TypeOK, TrxOwned
  <2>2. pc[c] # "wait_trx"
    BY DEF Outside
  <2>3. \A d \in Client : c = d <=> pc'[d] \notin Outside
    BY <1>5, <1>6
  <2> QED BY <1>1, <1>2, <2>1, <2>2, <2>3, ClientApart DEF IInv, TrxOwned
<1>8. Listening'
  <2>1. \A n \in 1 .. Len(list') : n = 1
    BY <1>4
  <2>2. failed = 0
    BY <1>1, ClientApart, NoneFailed
  <2> QED BY <1>1, <1>3, <1>4, <1>5, <1>6, <2>1, <2>2, ClientApart DEF Listening
<1> QED BY <1>2, <1>4, <1>7, <1>8 DEF IInv, TypeOK

LEMMA SendInv ==
  ASSUME IInv, NEW c \in Client, Send(c)
  PROVE  IInv'
<1>1. pc[c] \notin Outside /\ ~InCall(c)
  BY DEF Send, Outside, InCall
<1>2. list = <<>>
  BY <1>1, NobodyListens
<1>3. FirstText(c) \in {"PROMPT", "RESULT"}
  BY DEF FirstText
<1>4. /\ Goto(c, "pend") /\ UNCHANGED <<trx, failed>> /\ "pend" \in {"pend", "pend2"}
      /\ list' = Append(<<>>, Listener(c, FirstText(c)))
  BY <1>2 DEF Send, recvVars
<1> QED BY <1>1, <1>3, <1>4, ListensAlone

\* What a client takes off the list is its own listener, the only one.
LEMMA RemovedAll ==
  ASSUME IInv, NEW c \in Client, InCall(c)
  PROVE  Removed(c) = <<>>
<1>1. list \in Seq(Listeners) /\ Len(list) = 1 /\ list[1].who = c
  BY DEF IInv, TypeOK, Listening
<1>2. {n \in 1 .. Len(list) : list[n].who = c} = {1}
  BY <1>1
<1>3. Min({1}) = 1
  BY DEF Min
<1>4. SelectInSeq(list, LAMBDA l : l.who = c) = 1
  BY <1>2, <1>3 DEF SelectInSeq
<1>5. SubSeq(list, 1, 1 - 1) = <<>> /\ SubSeq(list, 1 + 1, Len(list)) = <<>>
  BY <1>1
<1>6. RemoveAt(list, 1) = <<>>
  BY <1>5 DEF RemoveAt
<1> QED BY <1>4, <1>6 DEF Removed

LEMMA WriteDataInv ==
  ASSUME IInv, NEW c \in Client, WriteData(c)
  PROVE  IInv'
<1>1. pc[c] \notin Outside /\ InCall(c)
  BY DEF WriteData, Outside, InCall
<1>2. Removed(c) = <<>>
  BY <1>1, RemovedAll
<1>3. /\ Goto(c, "pend2") /\ UNCHANGED <<trx, failed>> /\ "pend2" \in {"pend", "pend2"}
      /\ list' = Append(<<>>, Listener(c, "RESULT")) /\ "RESULT" \in {"PROMPT", "RESULT"}
  BY <1>2 DEF WriteData, recvVars
<1> QED BY <1>1, <1>3, ListensAlone

\* No client is in its call while the receive task or nobody has trx_mux.
LEMMA DelistInv ==
  ASSUME IInv, NEW c \in Client, Delist(c)
  PROVE  IInv'
<1>1. pc[c] \notin Outside /\ InCall(c)
  BY DEF Delist, Outside, InCall
<1>2. list' = <<>> /\ Goto(c, "return") /\ UNCHANGED <<trx, failed>> /\ failed = 0
  <2>1. list' = <<>> /\ Goto(c, "return") /\ UNCHANGED <<trx, failed>>
    BY <1>1, RemovedAll DEF Delist, recvVars
  <2>2. trx.owner = c
    BY <1>1 DEF IInv, TrxOwned
  <2> QED BY <2>1, <2>2, ClientApart, NoneFailed
<1>3. /\ pc' \in [Client -> ClientPC] /\ pc'[c] = "return"
      /\ \A d \in Client : d # c => pc'[d] = pc[d]
  BY <1>2 DEF IInv, TypeOK, Goto, ClientPC
<1>4. trx.owner = c /\ trx.count = 1
  BY <1>1 DEF IInv, TrxOwned
<1>5. \A d \in Client : (c = d <=> pc'[d] \notin Outside) /\ ~InCall(d)'
  <2>1. \A d \in Client : d # c => pc[d] \in Outside
    BY <1>4 DEF IInv, TrxOwned
  <2> QED BY <1>3, <2>1 DEF InCall, Outside
<1>6. \A n \in 1 .. Len(trx.waiters) :
        pc'[trx.waiters[n]] = "wait_trx" /\ trx.waiters[n] \in Client
  <2>1. pc[c] # "wait_trx"
    BY <1>1 DEF Outside
  <2> QED BY <1>3, <2>1 DEF IInv, TypeOK, TrxOwned
<1>7. TrxOwned'
  BY <1>2, <1>4, <1>5, <1>6, ClientApart DEF IInv, TrxOwned
<1>8. list' \in Seq(Listeners) /\ Len(list') = 0
  BY <1>2
<1> QED BY <1>2, <1>3, <1>4, <1>5, <1>7, <1>8, ClientApart DEF IInv, TypeOK, Listening

\* The end of the call gives trx_mux to the next client.
LEMMA ReturnInv ==
  ASSUME IInv, NEW c \in Client, Return(c)
  PROVE  IInv'
<1> DEFINE pcs == [pc EXCEPT ![c] = "idle"]
<1>1. pc[c] \notin Outside /\ ~InCall(c) /\ Release(1, pcs) /\ UNCHANGED <<list, failed>>
  BY DEF Return, Outside, InCall, recvVars
<1>2. list' = <<>> /\ trx.owner = c /\ trx.count = 1 /\ failed = 0
  BY <1>1, NobodyListens, ClientApart, NoneFailed
<1>3. /\ pcs \in [Client -> ClientPC] /\ pcs[c] = "idle"
      /\ \A d \in Client : d # c => pcs[d] = pc[d]
  BY DEF IInv, TypeOK, ClientPC
<1>4. \A d \in Client : pcs[d] \in Outside
  BY <1>2, <1>3 DEF IInv, TrxOwned, Outside
<1>5. \A n \in 1 .. Len(trx.waiters) : pcs[trx.waiters[n]] = "wait_trx"
  <2>1. pc[c] # "wait_trx"
    BY <1>1 DEF Outside
  <2> QED BY <1>3, <2>1 DEF IInv, TypeOK, TrxOwned
<1>6. IF trx.waiters = <<>>
      THEN trx' = [trx EXCEPT !.owner = NoOne, !.count = 0] /\ pc' = pcs
      ELSE /\ trx' = [owner |-> Head(trx.waiters), count |-> 1, waiters |-> Tail(trx.waiters)]
           /\ pc' = [pcs EXCEPT ![Head(trx.waiters)] = "send"]
  <2> HIDE DEF pcs
  <2> QED BY <1>1, <1>2 DEF Release
<1>7. failed = 0 /\ UNCHANGED failed /\ TypeOK /\ TrxOwned /\ list' = <<>>
  BY <1>1, <1>2 DEF IInv
<1> HIDE DEF pcs
<1> QED BY <1>3, <1>4, <1>5, <1>6, <1>7, HandedOver

LEMMA ClientInv ==
  ASSUME IInv, NEW c \in Client, ClientStep(c)
  PROVE  IInv'
<1>1. Next1(c) \in {"write", "delist"}
  BY DEF Next1
<1>2. CASE Send(c)
  BY <1>2, SendInv
<1>3. CASE SemPend(c)
  <2>1. InCall(c) /\ UNCHANGED <<trx, list, failed>>
    BY <1>3 DEF SemPend, InCall, recvVars
  <2>2. CASE tokens > 0
    BY <1>1, <1>3, <2>1, <2>2, GoesOn DEF SemPend
  <2>3. CASE ~(tokens > 0)
    <3>1. PICK at \in {"wait", "wait2"} : Goto(c, at)
      BY <1>3, <2>3 DEF SemPend
    <3> QED BY <2>1, <3>1, GoesOn
  <2> QED BY <2>2, <2>3
<1>4. CASE SemTimeout(c)
  <2>1. InCall(c) /\ UNCHANGED <<trx, list, failed>> /\ Goto(c, Next1(c))
    BY <1>4 DEF SemTimeout, InCall, recvVars
  <2> QED BY <1>1, <2>1, GoesOn
<1>5. CASE WriteData(c)
  BY <1>5, WriteDataInv
<1>6. CASE Delist(c)
  BY <1>6, DelistInv
<1>7. CASE Return(c)
  BY <1>7, ReturnInv
<1> QED BY <1>2, <1>3, <1>4, <1>5, <1>6, <1>7 DEF ClientStep
-----------------------------------------------------------------------------
(* The receive task's steps *)

\* While nobody or the receive task has trx_mux, no client is in its call.
LEMMA NoClientInside ==
  ASSUME IInv, trx.owner \notin Client
  PROVE  \A c \in Client : pc[c] \in Outside /\ ~InCall(c)
BY DEF IInv, TrxOwned, InCall, Outside

\* A command of a callback adds a lock, and a listener unless there is no memory for it.
LEMMA AsksInv ==
  ASSUME IInv, NEW asked \in BOOLEAN, MayAsk, at_cmd_in_callback(asked), UNCHANGED pc
  PROVE  IInv'
<1>1. PICK l, t : l = (IF asked THEN Append(list, Listener(Recv, "DATA")) ELSE list) /\ t = trx'
  OBVIOUS
<1>2. /\ Listener(Recv, "DATA") \in Listeners /\ Listener(Recv, "DATA").who = Recv
      /\ list \in Seq(Listeners)
      /\ trx \in [owner : Client \cup {Recv, NoOne}, count : Nat, waiters : Seq(Client)]
  BY DEF Listener, Listeners, IInv, TypeOK
<1>3. trx.owner \notin Client /\ trx.owner \in {NoOne, Recv}
  BY ClientApart DEF MayAsk
<1>10. failed \in Nat /\ Len(list) \in Nat
  BY <1>2 DEF IInv, TypeOK
<1>4. /\ list' = l /\ l \in Seq(Listeners) /\ failed' \in Nat
      /\ Len(l) \in Nat /\ Len(l) + failed' = Len(list) + failed + 1
      /\ \A n \in 1 .. Len(l) : \/ l[n] = Listener(Recv, "DATA")
                                \/ n \in 1 .. Len(list) /\ l[n] = list[n]
  <2>1. CASE asked
    <3>1. list' = l /\ failed' = failed
      BY <1>1, <2>1 DEF at_cmd_in_callback
    <3>2. l = Append(list, Listener(Recv, "DATA"))
      BY <1>1, <2>1
    <3>3. /\ l \in Seq(Listeners) /\ Len(l) = Len(list) + 1 /\ l[Len(list) + 1] = Listener(Recv, "DATA")
          /\ \A n \in 1 .. Len(list) : l[n] = list[n]
      BY <1>2, <3>2
    <3>4. \A n \in 1 .. Len(l) : n = Len(list) + 1 \/ n \in 1 .. Len(list)
      BY <1>10, <3>3
    <3>5. \A n \in 1 .. Len(l) : \/ l[n] = Listener(Recv, "DATA")
                                 \/ n \in 1 .. Len(list) /\ l[n] = list[n]
      BY <3>3, <3>4
    <3>6. Len(l) + failed' = Len(list) + failed + 1 /\ Len(l) \in Nat /\ failed' \in Nat
      BY <1>10, <3>1, <3>3
    <3> QED BY <3>1, <3>3, <3>5, <3>6
  <2>2. CASE ~asked
    <3>1. list' = l /\ failed' = failed + 1 /\ l = list
      BY <1>1, <2>2 DEF at_cmd_in_callback
    <3> QED BY <1>2, <1>10, <3>1
  <2> QED BY <2>1, <2>2
<1>5. /\ t.owner = Recv /\ t.count = trx.count + 1 /\ t.waiters = trx.waiters
      /\ t \in [owner : Client \cup {Recv, NoOne}, count : Nat, waiters : Seq(Client)]
  <2>1. t = [trx EXCEPT !.owner = Recv, !.count = trx.count + 1]
    BY <1>1 DEF at_cmd_in_callback
  <2>2. t.owner = Recv /\ t.count = trx.count + 1 /\ t.waiters = trx.waiters
    BY ONLY <1>2, <2>1
  <2>3. trx.count + 1 \in Nat
    BY <1>2
  <2> QED BY ONLY <1>2, <2>1, <2>2, <2>3
<1>6. \A n \in 1 .. Len(list) : list[n].who = Recv
  BY <1>3, ListenerType DEF IInv, Listening
<1>7. trx.count = Len(list) + failed
  <2>1. CASE trx.owner = Recv
    BY <2>1 DEF IInv, Listening
  <2>2. CASE trx.owner = NoOne
    <3>1. \A n \in 1 .. Len(list) : FALSE
      BY <2>2, <1>6, ClientApart DEF IInv, Listening
    <3>2. trx.count = 0
      BY <2>2 DEF IInv, TrxOwned
    <3>3. failed = 0
      BY <2>2, ClientApart, NoneFailed
    <3> QED BY <1>10, <3>1, <3>2, <3>3
  <2> QED BY <1>3, <2>1, <2>2
<1>8. TrxOwned'
  <2>1. trx'.owner = Recv /\ trx'.waiters = trx.waiters
    BY <1>1, <1>5
  <2> QED BY <1>3, <2>1, NoClientInside, ClientApart DEF IInv, TrxOwned
<1>9. Listening'
  <2>1. \A n \in 1 .. Len(l) : l[n].who = Recv
    BY <1>2, <1>4, <1>6
  <2>2. \A c \in Client : ~InCall(c)'
    BY <1>3, NoClientInside DEF InCall
  <2>3. trx'.owner = Recv /\ trx'.count = Len(l) + failed' /\ trx'.count > 0
    BY <1>1, <1>4, <1>5, <1>7, <1>10
  <2> QED BY <1>4, <2>1, <2>2, <2>3 DEF Listening
<1> QED BY <1>1, <1>4, <1>5, <1>8, <1>9 DEF IInv, TypeOK

\* What could not be asked for changes nothing.
LEMMA FetchInv ==
  ASSUME IInv, Fetch, UNCHANGED pc
  PROVE  IInv'
<1>1. PICK asked \in BOOLEAN : at_cmd_in_callback(asked)
  BY DEF Fetch
<1>2. CASE MayAsk
  BY <1>1, <1>2, AsksInv
<1>3. CASE ~MayAsk
  BY <1>1, <1>3, Untouched DEF at_cmd_in_callback
<1> QED BY <1>2, <1>3

\* LOS_MuxPost for every listener of a callback that is taken off the list.
LEMMA TakenOff ==
  ASSUME IInv, trx.owner = Recv, UNCHANGED failed, NEW l \in Seq(Listeners), list' = l, Len(l) <= Len(list),
         \A m \in 1 .. Len(l) : \E n \in 1 .. Len(list) : l[m] = list[n],
         Release(Len(list) - Len(l), pc)
  PROVE  IInv'
<1>1. /\ trx \in [owner : Client \cup {Recv, NoOne}, count : Nat, waiters : Seq(Client)]
      /\ trx.count = Len(list) + failed /\ trx.count > 0 /\ failed \in Nat
      /\ Len(list) \in Nat /\ Len(l) \in Nat
      /\ pc \in [Client -> ClientPC]
  BY ListenerType DEF IInv, TypeOK, Listening
<1>2. trx.count - (Len(list) - Len(l)) = Len(l) + failed
  BY <1>1
<1>3. trx.owner \notin Client
  BY ClientApart
<1>4. CASE Len(l) + failed > 0
  <2>1. trx' = [trx EXCEPT !.count = Len(l) + failed] /\ pc' = pc
    BY <1>2, <1>4 DEF Release
  <2>2. /\ trx'.owner = Recv /\ trx'.count = Len(l) + failed /\ trx'.waiters = trx.waiters
        /\ trx' \in [owner : Client \cup {Recv, NoOne}, count : Nat, waiters : Seq(Client)]
    BY ONLY <1>1, <2>1, trx.owner = Recv
  <2>3. \A n \in 1 .. Len(list) : list[n].who = Recv
    BY <1>3, ListenerType DEF IInv, Listening
  <2>4. \A m \in 1 .. Len(l) : l[m].who = Recv
    BY <2>3
  <2>5. \A c \in Client : ~InCall(c)'
    BY <1>3, <2>1, NoClientInside DEF InCall
  <2>6. TrxOwned'
    BY <2>1, <2>2, ClientApart DEF IInv, TrxOwned
  <2>7. Listening'
    BY <1>1, <1>4, <2>2, <2>4, <2>5 DEF Listening
  <2> QED BY <1>1, <2>1, <2>2, <2>6, <2>7 DEF IInv, TypeOK
<1>5. CASE ~(Len(l) + failed > 0)
  <2>1. Len(l) = 0 /\ failed = 0 /\ Len(list) - Len(l) # 0 /\ l = <<>>
    BY <1>1, <1>5
  <2>2. IF trx.waiters = <<>>
        THEN trx' = [trx EXCEPT !.owner = NoOne, !.count = 0] /\ pc' = pc
        ELSE /\ trx' = [owner |-> Head(trx.waiters), count |-> 1, waiters |-> Tail(trx.waiters)]
             /\ pc' = [pc EXCEPT ![Head(trx.waiters)] = "send"]
    BY <1>2, <1>5, <2>1 DEF Release
  <2>3. \A c \in Client : pc[c] \in Outside
    BY <1>3, NoClientInside
  <2>4. \A n \in 1 .. Len(trx.waiters) : pc[trx.waiters[n]] = "wait_trx"
    BY DEF IInv, TrxOwned
  <2> QED BY <1>1, <2>1, <2>2, <2>3, <2>4, HandedOver DEF IInv
<1> QED BY <1>4, <1>5

LEMMA PruneInv ==
  ASSUME IInv, at_rm_timeout_nodes, UNCHANGED failed
  PROVE  IInv'
<1>1. PICK l : l = Kept[Len(list)]
  OBVIOUS
<1>2. /\ list \in Seq(Listeners) /\ Len(list) \in Nat /\ trx.count \in Nat
      /\ trx.owner \in Client \cup {Recv, NoOne}
      /\ trx \in [owner : Client \cup {Recv, NoOne}, count : Nat, waiters : Seq(Client)]
  BY ListenerType DEF IInv, TypeOK
<1>3. /\ l \in Seq(Listeners) /\ Len(l) <= Len(list) /\ list' = l
      /\ \A m \in 1 .. Len(l) : \E n \in 1 .. Len(list) : l[m] = list[n]
      /\ Release(Len(list) - Len(l), pc)
  <2>1. Len(list) \in 0 .. Len(list)
    BY <1>2
  <2> QED BY <1>1, <1>2, <2>1, KeptFacts DEF at_rm_timeout_nodes
<1>4. CASE trx.owner = Recv
  BY <1>3, <1>4, TakenOff
<1>5. CASE trx.owner # Recv
  <2>1. l = list
    <3>1. CASE Len(list) = 0
      BY <1>1, <1>2, <3>1, KeptFacts
    <3>2. CASE Len(list) # 0
      <4>1. Len(list) = 1 /\ ~list[1].expired
        <5>1. 1 \in 1 .. Len(list)
          BY <1>2, <3>2
        <5>2. list[1].who \in Client /\ InCall(list[1].who) /\ ~list[1].expired
          BY <1>5, <5>1, ListenerType DEF IInv, Listening
        <5>3. Len(list) = 1
          BY <5>2 DEF IInv, Listening
        <5> QED BY <5>2, <5>3
      <4>2. Kept[1] = Append(<<>>, list[1])
        <5>1. 1 \in 1 .. Len(list) /\ 1 - 1 = 0
          BY <4>1
        <5>2. Kept[1] = IF list[1].expired THEN Kept[1 - 1] ELSE Append(Kept[1 - 1], list[1])
          BY <1>2, <5>1, KeptFacts
        <5> QED BY <1>2, <4>1, <5>1, <5>2, KeptFacts
      <4>3. list[1] \in Listeners
        <5>1. 1 \in 1 .. Len(list)
          BY <4>1
        <5> QED BY <5>1, ListenerType
      <4> QED BY <1>1, <1>2, <4>1, <4>2, <4>3
    <3> QED BY <3>1, <3>2
  <2>2. Len(list) - Len(l) = 0
    BY <1>2, <2>1
  <2>3. trx' = [trx EXCEPT !.count = trx.count - 0] /\ pc' = pc
    BY <1>3, <2>2 DEF Release
  <2>4. trx' = trx
    BY ONLY <1>2, <2>3
  <2> QED BY <1>3, <2>1, <2>3, <2>4, Untouched
<1> QED BY <1>4, <1>5

LEMMA HandleInv ==
  ASSUME IInv, RecvHandle
  PROVE  IInv'
<1>4. UNCHANGED failed
  BY DEF RecvHandle
<1>1. CASE UNCHANGED <<clientVars, trx, list, tokens>>
  BY <1>1, <1>4, Untouched DEF clientVars
<1>2. CASE /\ list # <<>> /\ Head(list).who = Recv
           /\ list' = Tail(list) /\ Release(1, pc)
  <2>1. list \in Seq(Listeners) /\ Len(list) \in Nat /\ Len(list) > 0 /\ Head(list) = list[1]
    BY <1>2, ListenerType DEF IInv, TypeOK
  <2>2. PICK l : l = Tail(list)
    OBVIOUS
  <2>3. /\ l \in Seq(Listeners) /\ Len(l) = Len(list) - 1 /\ Len(list) - Len(l) = 1
        /\ \A m \in 1 .. Len(l) : m + 1 \in 1 .. Len(list) /\ l[m] = list[m + 1]
    BY <2>1, <2>2
  <2>4. trx.owner = Recv
    BY <1>2, <2>1 DEF IInv, Listening
  <2>5. /\ list' = l /\ Len(l) <= Len(list) /\ Release(Len(list) - Len(l), pc)
        /\ \A m \in 1 .. Len(l) : \E n \in 1 .. Len(list) : l[m] = list[n]
    BY <1>2, <2>1, <2>2, <2>3
  <2> QED BY <1>4, <2>3, <2>4, <2>5, TakenOff
<1>3. CASE PostResp /\ UNCHANGED <<trx, list>>
  <2> DEFINE waiting == {c \in Client : pc[c] \in {"wait", "wait2"}}
  <2>1. CASE waiting = {}
    BY <1>3, <1>4, <2>1, Untouched DEF PostResp
  <2>2. CASE waiting # {}
    <3>1. PICK c \in waiting : Goto(c, Next1(c))
      BY <1>3, <2>2 DEF PostResp
    <3>2. c \in Client /\ InCall(c) /\ Next1(c) \in {"write", "delist"}
      BY <3>1 DEF InCall, Next1
    <3> QED BY <1>3, <1>4, <3>1, <3>2, GoesOn
  <2> QED BY <2>1, <2>2
<1> QED BY <1>1, <1>2, <1>3 DEF RecvHandle, at_handle_resp

LEMMA ExpireInv ==
  ASSUME IInv, Expire
  PROVE  IInv'
<1>1. PICK n \in DOMAIN list :
        list[n].who = Recv /\ list' = [list EXCEPT ![n].expired = TRUE] /\ UNCHANGED <<pc, trx, failed>>
  BY DEF Expire, clientVars, recvVars
<1>2. list \in Seq(Listeners) /\ n \in 1 .. Len(list) /\ list[n] \in Listeners
  BY <1>1, ListenerType DEF IInv, TypeOK
<1>3. PICK e : e = [list[n] EXCEPT !.expired = TRUE]
  OBVIOUS
<1>4. e \in Listeners /\ e.who = Recv
  BY <1>1, <1>2, <1>3 DEF Listeners
<1>5. list' = [list EXCEPT ![n] = e]
  BY <1>1, <1>3
<1>6. /\ list' \in Seq(Listeners) /\ Len(list') = Len(list)
      /\ \A m \in 1 .. Len(list) : list'[m] = IF m = n THEN e ELSE list[m]
  BY <1>2, <1>4, <1>5
<1>7. \A c \in Client : InCall(c)' <=> InCall(c)
  BY <1>1 DEF InCall
<1>8. Listening'
  <2>1. \A m \in 1 .. Len(list') : list'[m].who = list[m].who
    BY <1>1, <1>4, <1>6
  <2>2. \A m \in 1 .. Len(list) : list[m].who = Recv => trx.owner = Recv
    BY DEF IInv, Listening
  <2>3. \A m \in 1 .. Len(list) : list[m].who # Recv =>
          /\ list[m].who \in Client /\ trx.owner = list[m].who
          /\ InCall(list[m].who) /\ list'[m] = list[m] /\ ~list[m].expired
    BY <1>1, <1>6, ListenerType DEF IInv, Listening
  <2>4. \A m \in 1 .. Len(list') :
          IF list'[m].who = Recv THEN trx'.owner = Recv
          ELSE trx'.owner = list'[m].who /\ InCall(list[m].who)' /\ ~list'[m].expired
    BY <1>1, <1>6, <1>7, <2>1, <2>2, <2>3
  <2> QED
    BY <1>1, <1>6, <1>7, <2>1, <2>4 DEF IInv, Listening, InCall
<1>9. TrxOwned'
  BY <1>1 DEF IInv, TrxOwned
<1> QED BY <1>1, <1>6, <1>8, <1>9 DEF IInv, TypeOK
-----------------------------------------------------------------------------
(* The system *)

LEMMA InitInv ==
  ASSUME Init
  PROVE  IInv
<1>1. /\ pc = [c \in Client |-> "idle"] /\ list = <<>>
      /\ trx = [owner |-> NoOne, count |-> 0, waiters |-> <<>>]
  BY DEF Init
<1>4. failed = 0
  BY DEF Init
<1>2. list \in Seq(Listeners) /\ Len(list) = 0 /\ \A c \in Client : ~InCall(c)
  BY <1>1 DEF InCall
<1>3. trx \in [owner : Client \cup {Recv, NoOne}, count : Nat, waiters : Seq(Client)]
  BY <1>1
<1> QED BY <1>1, <1>2, <1>3, <1>4, ClientApart
     DEF IInv, TypeOK, TrxOwned, Listening, Outside, ClientPC

LEMMA StepInv ==
  ASSUME IInv, [Next]_vars
  PROVE  IInv'
<1>1. CASE UNCHANGED vars
  BY <1>1, Untouched DEF vars, clientVars, recvVars
<1>2. CASE \E c \in Client, what \in {"CMD", "WRITE"} : Begin(c, what)
  BY <1>2, BeginInv
<1>3. CASE \E c \in Client : ClientStep(c)
  BY <1>3, ClientInv
<1>4. CASE RecvTask
  <2>1. CASE RecvRead
    BY <2>1, PruneInv DEF RecvRead
  <2>2. CASE RecvStep
    BY <2>2, FetchInv, Untouched DEF RecvStep, clientVars
  <2>3. CASE RecvMatch
    BY <2>3, FetchInv, Untouched DEF RecvMatch, clientVars
  <2>4. CASE RecvPrune
    BY <2>4, PruneInv DEF RecvPrune
  <2>5. CASE RecvHandle
    BY <2>5, HandleInv
  <2> QED BY <1>4, <2>1, <2>2, <2>3, <2>4, <2>5 DEF RecvTask
<1>5. CASE ModemAnswers \/ ModemSilent \/ ModemSays \/ ModemAnnounces
  BY <1>5, Untouched DEF ModemAnswers, ModemSilent, ModemSays, ModemAnnounces, clientVars, recvVars
<1>6. CASE Expire
  BY <1>6, ExpireInv
<1> QED BY <1>1, <1>2, <1>3, <1>4, <1>5, <1>6 DEF Next

LEMMA Invariance == Spec => []IInv
<1>1. Init => IInv
  BY InitInv
<1>2. IInv /\ [Next]_vars => IInv'
  BY StepInv
<1> QED BY <1>1, <1>2, PTL DEF Spec

\* One command at a time speaks to the modem: a client that listens owns trx_mux and is alone
\* on the list (at_cmd_multi_suffix, at_write), and the receive task has locked it once for
\* each callback that listens and once for each that got no listener from at_malloc
\* (at_cmd_in_callback, at_rm_timeout_nodes, at_handle_resp).
THEOREM CommandsExclusive == Spec => []OneCommandAtATime
<1>1. IInv => OneCommandAtATime
  <2> SUFFICES ASSUME IInv PROVE OneCommandAtATime
    OBVIOUS
  <2>1. DOMAIN list = 1 .. Len(list)
    BY DEF IInv, TypeOK
  <2>2. \A n \in 1 .. Len(list) : list[n].who # Recv =>
          trx.owner = list[n].who /\ InCall(list[n].who) /\ Len(list) = 1
    <3>1. \A n \in 1 .. Len(list) : list[n].who # Recv => list[n].who \in Client
      BY ListenerType
    <3> QED BY <3>1 DEF IInv, Listening
  <2> QED BY <2>1, <2>2 DEF OneCommandAtATime, IInv, Listening
<1> QED BY <1>1, Invariance, PTL
=============================================================================
