------------------------------ MODULE MCOAuth ------------------------------
(* Small instances of OAuth for TLC. *)
EXTENDS OAuthProps, TLC

CONSTANTS c1, c2, s1, s2, t1, t2, t3, t4, b1

Symmetry == Permutations(Client) \cup Permutations(Session) \cup Permutations(Token)
=============================================================================
