---------------------------- MODULE MCCookieFile ----------------------------
(* Two processes with cookies.json in one directory. *)
EXTENDS CookieFile, TLC

CONSTANTS w1, w2, j1, j2, j3, u1, u2

MCWorkers == {w1, w2}
MCJobs    == {j1, j2, j3}
MCLogins  == {u1, u2}

Symmetry == Permutations(MCWorkers) \cup Permutations(MCJobs) \cup Permutations(MCLogins)
=============================================================================
