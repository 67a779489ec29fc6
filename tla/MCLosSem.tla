------------------------------- MODULE MCLosSem -------------------------------
(* Instances of LosSem for TLC. *)
EXTENDS LosSem

CONSTANTS a, b, s1

\* a above b, idle below.
TwoTasks == 0 :> <<a>> @@ 1 :> <<b>> @@ 2 :> <<Idle>>
=============================================================================
