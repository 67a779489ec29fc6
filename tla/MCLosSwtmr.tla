----------------------------- MODULE MCLosSwtmr -----------------------------
(* Instances of LosSwtmr for TLC. *)
EXTENDS LosSwtmr, TLC

CONSTANTS a, b

Sym == Permutations(Client)
=============================================================================
