------------------------------ MODULE MCLosQueue ------------------------------
(* Instances of LosQueue for TLC. *)
EXTENDS LosQueue

CONSTANTS a, b, q1, r1, w1, m1, m2

\* a above b, idle below.
TwoTasks == 0 :> <<a>> @@ 1 :> <<b>> @@ 2 :> <<Idle>>

Readers == q1 :> r1
Writers == q1 :> w1
=============================================================================
