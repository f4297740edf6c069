-------------------------- MODULE MCScopeResolver --------------------------
(* Small instances of ScopeResolver for TLC. *)
EXTENDS ScopeResolverProps, TLC

CONSTANTS j1, j2, a, b

\* An old login and a newer one, in seconds.
TwoLogins == (j1 :> 1) @@ (j2 :> 3)

Symmetry == Permutations(Call)
=============================================================================
