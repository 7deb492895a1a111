--------------------------- MODULE MCTokenRefresh ---------------------------
(* Two sign-ins and three refreshes of one user. *)
EXTENDS TokenRefresh, TLC

CONSTANTS s1, s2, r1, r2, r3

MCSignIns   == {s1, s2}
MCRefreshes == {r1, r2, r3}

\* Calls of the same kind are interchangeable.
Symmetry == Permutations(MCSignIns) \cup Permutations(MCRefreshes)
=============================================================================
