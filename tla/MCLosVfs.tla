------------------------------ MODULE MCLosVfs ------------------------------
(* Instances of LosVfs for TLC. *)
EXTENDS LosVfs

CONSTANTS a, b, m1, m2, x, y, f, f1

\* A mount point inside another.
Mounts == {<<x>>, <<x, y>>}

\* It leads to the inner mount point, or to the outer one while the inner is not mounted.
Paths == {<<x, y, f>>}
=============================================================================
