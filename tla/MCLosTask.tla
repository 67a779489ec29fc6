------------------------------ MODULE MCLosTask ------------------------------
(* Instances of LosTask for TLC. *)
EXTENDS LosTask

CONSTANTS a, b

\* a above b above idle.
TwoLevels == 0 :> <<a>> @@ 1 :> <<b>> @@ 2 :> <<Idle>>
=============================================================================
