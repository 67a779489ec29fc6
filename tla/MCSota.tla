------------------------------- MODULE MCSota -------------------------------
(* Instances of Sota for TLC. *)
EXTENDS Sota, TLC

CONSTANTS v1, v2

\* Three blocks of two cells, and two of which the second is short.
LenOf == v1 :> 6 @@ v2 :> 3
=============================================================================
