------------------------------ MODULE MCLogin ------------------------------
(* Small instances of Login for TLC. *)
EXTENDS LoginProps, TLC

CONSTANTS c1, s1, s2, t1, t2, r1, r2, b1

Symmetry == Permutations(Request)
=============================================================================
