---------------------------- MODULE MCLosTickless ----------------------------
(* Instances of LosTickless for TLC. *)
EXTENDS LosTickless

CONSTANTS a, b
=============================================================================
