------------------------------- MODULE MCLosMux -------------------------------
(* Instances of LosMux for TLC. *)
EXTENDS LosMux

CONSTANTS a, b, c, m1

\* Three tasks of three priorities.
ThreeLevels == 0 :> <<a>> @@ 1 :> <<b>> @@ 2 :> <<c>> @@ 3 :> <<Idle>>
=============================================================================
