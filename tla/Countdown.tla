------------------------------ MODULE Countdown ------------------------------
(***************************************************************************)
(* What a list of timeouts promises, whatever order and differences it     *)
(* stores: every client has a number of ticks of its own left, every tick  *)
(* takes one from each, and a client expires on the tick that takes its    *)
(* last.  LosKernel uses this countdown for the timeouts of tasks; the     *)
(* sort link (LosSortLink) and the list of software timers (LosSwtmr)      *)
(* implement it.                                                           *)
(***************************************************************************)
EXTENDS Naturals

CONSTANTS Client, Period   \* Period: what a client may count down from

VARIABLES
  left,   \* the ticks each client has left, 0 when it is not waiting
  now     \* the parity of the tick count

Init == left = [c \in Client |-> 0] /\ now = 0

Arm(c, n) == left' = [left EXCEPT ![c] = n] /\ UNCHANGED now

Disarm(c) == left[c] > 0 /\ left' = [left EXCEPT ![c] = 0] /\ UNCHANGED now

\* A client that expires is done, or, if it is periodic, starts again.
Tick ==
  \E again \in [{c \in Client : left[c] = 1} -> Period \cup {0}] :
    /\ left' = [c \in Client |->
                  IF left[c] = 1 THEN again[c] ELSE IF left[c] = 0 THEN 0 ELSE left[c] - 1]
    /\ now' = 1 - now

Next ==
  \/ \E c \in Client : Disarm(c) \/ \E n \in Period : Arm(c, n)
  \/ Tick

Spec == Init /\ [][Next]_<<left, now>>
=============================================================================
