---------------------------- MODULE BoundedQueue ----------------------------
(***************************************************************************)
(* What message queues promise: each delivers the messages put into it,    *)
(* each once, those put at the tail in the order they were put, an urgent  *)
(* one before all others, and never holds more than its size.              *)
(***************************************************************************)
EXTENDS Naturals, Sequences

CONSTANTS Buffer, Message, Sizes

VARIABLES
  open,    \* the queues that exist
  size,    \* size[q]: the most q holds
  items,   \* items[q]: the messages in it, the next one to deliver first
  got      \* got[q]: the message it delivered last

queueVars == <<open, size, items, got>>

Init == /\ open = {}
        /\ size = [q \in Buffer |-> 0]
        /\ items = [q \in Buffer |-> <<>>]
        /\ got \in [Buffer -> Message]

Create(q, n) ==
  /\ q \notin open
  /\ open' = open \cup {q}
  /\ size' = [size EXCEPT ![q] = n] /\ items' = [items EXCEPT ![q] = <<>>]
  /\ UNCHANGED got

Destroy(q) ==
  /\ q \in open
  /\ open' = open \ {q}
  /\ size' = [size EXCEPT ![q] = 0] /\ items' = [items EXCEPT ![q] = <<>>]
  /\ UNCHANGED got

Put(q, m) ==
  /\ q \in open /\ Len(items[q]) < size[q]
  /\ items' = [items EXCEPT ![q] = Append(@, m)]
  /\ UNCHANGED <<open, size, got>>

PutFirst(q, m) ==
  /\ q \in open /\ Len(items[q]) < size[q]
  /\ items' = [items EXCEPT ![q] = <<m>> \o @]
  /\ UNCHANGED <<open, size, got>>

Get(q) ==
  /\ q \in open /\ items[q] # <<>>
  /\ got' = [got EXCEPT ![q] = Head(items[q])]
  /\ items' = [items EXCEPT ![q] = Tail(@)]
  /\ UNCHANGED <<open, size>>

Next ==
  \E q \in Buffer :
    \/ \E n \in Sizes : Create(q, n)
    \/ Destroy(q)
    \/ Get(q)
    \/ \E m \in Message : Put(q, m) \/ PutFirst(q, m)

Spec == Init /\ [][Next]_queueVars
=============================================================================
