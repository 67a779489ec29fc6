------------------------------ MODULE MCLosMail ------------------------------
(* Instances of LosMail for TLC. *)
EXTENDS LosMail

CONSTANTS a, b, s1, p1, m1, m2

\* a above b, idle below.
TwoTasks == 0 :> <<a>> @@ 1 :> <<b>> @@ 2 :> <<Idle>>
=============================================================================
