--------------------------- MODULE MCTaskReporting ---------------------------
(* Two processes, a job of each kind, an endpoint. *)
EXTENDS TaskReporting, TLC

CONSTANTS w1, w2, g, s, m

MCWorkers == {w1, w2}
MCTasks   == {g, s, m}
MCKind    == (g :> "getLead") @@ (s :> "getLeadSources") @@ (m :> "sendMessage")
=============================================================================
