------------------------------ MODULE MCLosEvent ------------------------------
(* Instances of LosEvent for TLC. *)
EXTENDS LosEvent

CONSTANTS a, b, e1, b1, b2

\* a above b, idle below.
TwoTasks == 0 :> <<a>> @@ 1 :> <<b>> @@ 2 :> <<Idle>>

\* One bit, and both.
OneOrBoth == {{b1}, {b1, b2}}

SomeModes == {{"OR", "CLR"}, {"AND", "CLR"}}
=============================================================================
