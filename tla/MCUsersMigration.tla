-------------------------- MODULE MCUsersMigration --------------------------
(* Three processes on an empty database, two of which may be killed. *)
EXTENDS UsersMigration

CONSTANTS w1, w2, w3

MCWorkers == {w1, w2, w3}
=============================================================================
